------------------------ MODULE GatewayRefundsProofs ------------------------
(***************************************************************************)
(* Proofs about GatewayRefunds, for every number of payments, keys and     *)
(* requests, every amount, and every order of webhooks, errors and         *)
(* timeouts.                                                               *)
(***************************************************************************)
EXTENDS GatewayRefunds, LedgerRulesProofs, TLAPS

USE SourceAssumption, GatewayAssumption, FiniteTable

(* A request past its insert works on an existing refund.  What it saw or  *)
(* was answered may be old, but the final words of the gateway are final:  *)
(* a paid row or a "processed" answer, once seen, is still right.          *)
RequestOK(s) ==
  /\ sess[s].pc # "idle" /\ sess[s].pc # "manual" => sess[s].key \in Keys /\ sess[s].src \in Sources
  /\ sess[s].pc \in {"refresh", "relookup", "call", "reconcile", "error"} => Exists(sess[s].key)
  /\ sess[s].pc \in {"call", "reconcile", "error"} =>
       (sess[s].val.status = "paid" => gw[sess[s].key] = "processed")
  /\ sess[s].pc = "reconcile" =>
       /\ sess[s].resp = "processed" => gw[sess[s].key] = "processed"
       /\ sess[s].resp = "failed" => gw[sess[s].key] = "failed"

RequestsOK == \A s \in Sessions : RequestOK(s)

GatewayOK ==
  \A k \in Keys :
    /\ Exists(k) => rows[k].parent \in Sources
    /\ gw[k] # "none" => Exists(k)
    /\ "processed" \in sent[k] => gw[k] = "processed"
    /\ "failed" \in sent[k] => gw[k] = "failed"

IInv == TypeOK /\ GatewayOK /\ RequestsOK /\ PaidRefundIsProcessed

LEMMA InitIInv == Init => IInv
<1> SUFFICES ASSUME Init PROVE IInv
  OBVIOUS
<1>1. Absent \in Row /\ Absent.purpose = "absent"
  BY DEF Absent, Row, PaymentStatuses
<1>2. \A src \in Sources : [Absent EXCEPT !.purpose = "advance", !.status = "paid",
                                         !.amount = SourceAmount[src]] \in Row
  BY <1>1 DEF Absent, Row, PaymentStatuses
<1>3. rows \in [Ids -> Row] /\ \A k \in Keys : rows[k] = Absent
  BY <1>1, <1>2 DEF Init, Ids
<1>4. Idle \in SessionState /\ Idle.pc = "idle"
  BY <1>1 DEF Idle, SessionState, Outcomes
<1>5. TypeOK
  BY <1>3, <1>4 DEF Init, TypeOK
<1>6. GatewayOK /\ RequestsOK /\ PaidRefundIsProcessed
  BY <1>1, <1>3, <1>4 DEF Init, GatewayOK, RequestsOK, RequestOK, PaidRefundIsProcessed, Exists
<1> QED BY <1>5, <1>6 DEF IInv

(* A session goes back to idle and gives its locks back.                   *)
LEMMA FinishStep ==
  ASSUME TypeOK, NEW s \in Sessions, Finish(s)
  PROVE  /\ sess' \in [Sessions -> SessionState]
         /\ lock' \in [Ids -> Sessions \cup {NoSession}]
         /\ sess'[s].pc = "idle"
         /\ \A t \in Sessions \ {s} : sess'[t] = sess[t]
<1>1. Idle \in SessionState
  BY DEF Idle, SessionState, Absent, Row, PaymentStatuses, Outcomes
<1> QED BY <1>1 DEF TypeOK, Finish, Unlocked, Idle

(* A request moves on and leaves the table and the gateway alone.          *)
LEMMA SessionStep ==
  ASSUME IInv, NEW s \in Sessions,
         sess' \in [Sessions -> SessionState],
         lock' \in [Ids -> Sessions \cup {NoSession}],
         \A t \in Sessions \ {s} : sess'[t] = sess[t],
         RequestOK(s)',
         UNCHANGED <<rows, gw, sent, acked>>
  PROVE  IInv'
<1>1. TypeOK' /\ GatewayOK' /\ PaidRefundIsProcessed'
  BY DEF IInv, TypeOK, GatewayOK, PaidRefundIsProcessed, Exists
<1>2. RequestsOK'
  BY DEF IInv, RequestsOK, RequestOK, Exists
<1> QED BY <1>1, <1>2 DEF IInv

LEMMA LookupStep ==
  ASSUME IInv, NEW s \in Sessions, NEW k \in Keys, NEW src \in Sources,
         NEW amount \in RefundAmounts, Lookup(s, k, src, amount)
  PROVE  IInv'
<1> DEFINE found == [pc |-> "call", key |-> k, src |-> src, amount |-> amount,
                     val |-> rows[k], resp |-> "pending"]
           new == [pc |-> "approve", key |-> k, src |-> src, amount |-> amount,
                   val |-> Absent, resp |-> "pending"]
<1>1. found \in SessionState /\ new \in SessionState
  BY DEF IInv, TypeOK, SessionState, Outcomes, Absent, Row, PaymentStatuses, Ids
<1>2. CASE Exists(k)
  <2>1. sess' = [sess EXCEPT ![s] = found] /\ rows[k].status # "paid"
    BY <1>2 DEF Lookup
  <2>2. lock' \in [Ids -> Sessions \cup {NoSession}]
    BY <1>2 DEF Lookup, IInv, TypeOK, Ids
  <2>3. RequestOK(s)'
    BY <1>2, <2>1 DEF IInv, TypeOK, RequestOK, Lookup, Exists
  <2> QED BY <1>1, <2>1, <2>2, <2>3, SessionStep DEF IInv, TypeOK, Lookup
<1>3. CASE ~Exists(k)
  <2>1. sess' = [sess EXCEPT ![s] = new] /\ lock' = lock
    BY <1>3 DEF Lookup
  <2>2. RequestOK(s)'
    BY <2>1 DEF IInv, TypeOK, RequestOK
  <2> QED BY <1>1, <2>1, <2>2, SessionStep DEF IInv, TypeOK, Lookup
<1> QED BY <1>2, <1>3

(* Locking, refreshing, calling: nothing but the request moves.            *)
LEMMA RequestSteps ==
  ASSUME IInv, NEW s \in Sessions,
         Approve(s) \/ Refresh(s) \/ LookupAgain(s) \/ Abort(s)
         \/ \E amount \in RefundAmounts : ReadManualRefund(s, amount)
  PROVE  IInv'
<1>0. TypeOK /\ sess[s] \in SessionState /\ RequestOK(s)
  BY DEF IInv, TypeOK, RequestsOK
<1>1. CASE Approve(s)
  <2>1. /\ sess' = [sess EXCEPT ![s].pc = "insert"]
        /\ lock' = [lock EXCEPT ![sess[s].src] = s]
        /\ sess[s].pc = "approve"
    BY <1>1 DEF Approve, Goto
  <2>2. /\ sess' \in [Sessions -> SessionState]
        /\ lock' \in [Ids -> Sessions \cup {NoSession}]
        /\ RequestOK(s)'
    BY <1>0, <2>1 DEF TypeOK, SessionState, RequestOK, Ids
  <2> QED BY <1>1, <2>1, <2>2, SessionStep DEF TypeOK, IInv, Approve
<1>2. CASE Refresh(s)
  <2>1. /\ sess' = [sess EXCEPT ![s].pc = "call", ![s].val = rows[sess[s].key]]
        /\ sess[s].pc = "refresh"
        /\ UNCHANGED <<rows, lock, gw, sent, acked>>
    BY <1>2 DEF Refresh
  <2>2. sess[s].key \in Keys /\ rows[sess[s].key] \in Row /\ Exists(sess[s].key)
    BY <1>0, <2>1 DEF TypeOK, RequestOK, Ids
  <2>3. /\ sess' \in [Sessions -> SessionState]
        /\ sess'[s].pc = "call" /\ sess'[s].val = rows[sess[s].key]
        /\ sess'[s].key = sess[s].key /\ sess'[s].src = sess[s].src
    BY <1>0, <2>1, <2>2 DEF TypeOK, SessionState
  <2>4. RequestOK(s)'
    BY <1>0, <2>1, <2>2, <2>3 DEF IInv, PaidRefundIsProcessed, RequestOK, Exists
  <2> QED BY <2>1, <2>3, <2>4, SessionStep DEF TypeOK, IInv
<1>3. CASE LookupAgain(s)
  <2>0. UNCHANGED <<rows, gw, sent, acked>> /\ sess[s].pc = "relookup"
    BY <1>3 DEF LookupAgain
  <2>1. CASE Finish(s)
    BY <1>0, <2>0, <2>1, FinishStep, SessionStep DEF RequestOK
  <2>2. CASE /\ lock' = [lock EXCEPT ![sess[s].key] = s]
             /\ sess' = [sess EXCEPT ![s].pc = "call", ![s].val = rows[sess[s].key]]
    <3>1. sess[s].key \in Keys /\ rows[sess[s].key] \in Row /\ Exists(sess[s].key)
      BY <1>0, <2>0 DEF TypeOK, RequestOK, Ids
    <3>2. /\ sess' \in [Sessions -> SessionState]
          /\ lock' \in [Ids -> Sessions \cup {NoSession}]
          /\ sess'[s].pc = "call" /\ sess'[s].val = rows[sess[s].key]
          /\ sess'[s].key = sess[s].key /\ sess'[s].src = sess[s].src
      BY <1>0, <2>2, <3>1 DEF TypeOK, SessionState, Ids
    <3>3. RequestOK(s)'
      BY <1>0, <2>0, <3>1, <3>2 DEF IInv, PaidRefundIsProcessed, RequestOK, Exists
    <3> QED BY <2>0, <2>2, <3>2, <3>3, SessionStep DEF TypeOK, IInv
  <2> QED BY <1>3, <2>1, <2>2 DEF LookupAgain
<1>4. CASE Abort(s)
  BY <1>0, <1>4, FinishStep, SessionStep DEF Abort, RequestOK
<1>5. ASSUME NEW amount \in RefundAmounts, ReadManualRefund(s, amount) PROVE IInv'
  <2> DEFINE manual == [Idle EXCEPT !.pc = "manual", !.amount = amount]
  <2>1. manual \in SessionState /\ manual.pc = "manual"
    BY DEF Idle, SessionState, Absent, Row, PaymentStatuses, Outcomes
  <2>2. sess' = [sess EXCEPT ![s] = manual] /\ UNCHANGED <<rows, lock, gw, sent, acked>>
    BY <1>5 DEF ReadManualRefund
  <2>3. RequestOK(s)'
    BY <1>0, <2>1, <2>2 DEF TypeOK, RequestOK
  <2> QED BY <1>0, <2>1, <2>2, <2>3, SessionStep DEF TypeOK, IInv
<1> QED BY <1>1, <1>2, <1>3, <1>4, <1>5

(* A row that did not exist is inserted, and it is not a paid refund.      *)
LEMMA InsertSteps ==
  ASSUME IInv, NEW s \in Sessions, Insert(s) \/ InsertManualRefund(s)
  PROVE  IInv'
<1>0. TypeOK /\ sess[s] \in SessionState /\ RequestOK(s)
  BY DEF IInv, TypeOK, RequestsOK
<1> DEFINE k == sess[s].key
           new == [purpose |-> "refund", status |-> "pending", amount |-> sess[s].amount,
                   parent |-> sess[s].src, gwStatus |-> "pending"]
           manual == [Absent EXCEPT !.purpose = "refund", !.status = "paid",
                                    !.amount = sess[s].amount]
<1>1. CASE Insert(s) /\ ~Exists(k)
  <2>1. k \in Keys /\ sess[s].src \in Sources /\ sess[s].pc = "insert"
    BY <1>0, <1>1 DEF RequestOK, Insert
  <2>2. new \in Row
    BY <1>0, <2>1 DEF SessionState, Row, PaymentStatuses, Outcomes
  <2>3. /\ rows' = [rows EXCEPT ![k] = new]
        /\ sess' = [sess EXCEPT ![s].pc = "refresh"]
        /\ lock' = Unlocked(s)
        /\ UNCHANGED <<gw, sent, acked>>
    BY <1>1 DEF Insert, Goto
  <2>4. /\ rows' \in [Ids -> Row]
        /\ rows'[k] = new
        /\ \A r \in Ids \ {k} : rows'[r] = rows[r]
    BY <1>0, <2>1, <2>2, <2>3 DEF TypeOK, Ids
  <2>5. /\ sess' \in [Sessions -> SessionState]
        /\ lock' \in [Ids -> Sessions \cup {NoSession}]
        /\ sess'[s].pc = "refresh" /\ sess'[s].key = k /\ sess'[s].src = sess[s].src
        /\ \A t \in Sessions \ {s} : sess'[t] = sess[t]
    BY <1>0, <2>3 DEF TypeOK, SessionState, Unlocked
  <2>6. TypeOK' /\ GatewayOK' /\ PaidRefundIsProcessed'
    BY <1>0, <2>1, <2>2, <2>3, <2>4, <2>5
    DEF IInv, TypeOK, GatewayOK, PaidRefundIsProcessed, Exists, Ids
  <2>7. \A r \in Keys : Exists(r) => Exists(r)'
    BY <2>4 DEF Exists, Ids
  <2>8. Exists(k)'
    BY <2>4, <2>5 DEF Exists
  <2>9. RequestsOK'
    BY <2>1, <2>3, <2>5, <2>7, <2>8 DEF IInv, RequestsOK, RequestOK
  <2> QED BY <2>6, <2>9 DEF IInv
<1>2. CASE Insert(s) /\ Exists(k)
  <2>1. /\ sess' = [sess EXCEPT ![s].pc = "relookup"] /\ lock' = Unlocked(s)
        /\ UNCHANGED <<rows, gw, sent, acked>> /\ sess[s].pc = "insert"
    BY <1>2 DEF Insert, Goto
  <2>2. /\ sess' \in [Sessions -> SessionState]
        /\ lock' \in [Ids -> Sessions \cup {NoSession}]
        /\ RequestOK(s)'
    BY <1>0, <1>2, <2>1 DEF TypeOK, SessionState, Unlocked, RequestOK, Exists
  <2> QED BY <1>0, <2>1, <2>2, SessionStep DEF TypeOK
<1>3. CASE InsertManualRefund(s)
  <2>1. PICK r \in Manuals \ Ledger : rows' = [rows EXCEPT ![r] = manual]
    BY <1>3 DEF InsertManualRefund
  <2>2. manual \in Row
    BY <1>0 DEF SessionState, Absent, Row, PaymentStatuses
  <2>3. rows' \in [Ids -> Row] /\ \A k2 \in Keys : rows'[k2] = rows[k2]
    BY <1>0, <2>1, <2>2 DEF TypeOK, Ids
  <2>4. Finish(s) /\ UNCHANGED <<gw, sent, acked>>
    BY <1>3 DEF InsertManualRefund
  <2>5. TypeOK' /\ GatewayOK' /\ PaidRefundIsProcessed'
    BY <1>0, <2>3, <2>4, FinishStep DEF IInv, TypeOK, GatewayOK, PaidRefundIsProcessed, Exists
  <2>6. RequestsOK'
    BY <1>0, <2>3, <2>4, FinishStep DEF IInv, RequestsOK, RequestOK, Exists
  <2> QED BY <2>5, <2>6 DEF IInv
<1> QED BY <1>1, <1>2, <1>3

(* The gateway accepts a refund for an existing row, or repeats itself.    *)
LEMMA AcceptedStep ==
  ASSUME IInv, NEW k \in Keys, NEW status \in Outcomes, Exists(k), Accepted(k, status),
         UNCHANGED <<rows, acked>>
  PROVE  /\ gw' \in [Keys -> Outcomes \cup {"none"}]
         /\ sent' \in [Keys -> SUBSET Outcomes]
         /\ gw'[k] = status
         /\ \A j \in Keys : gw[j] # "none" => gw'[j] = gw[j]
         /\ GatewayOK' /\ PaidRefundIsProcessed'
<1>1. CASE Created(k, status)
  BY <1>1 DEF Created, IInv, TypeOK, GatewayOK, PaidRefundIsProcessed, Exists, Outcomes
<1>2. CASE gw[k] = status /\ UNCHANGED <<gw, sent>>
  BY <1>2 DEF IInv, TypeOK, GatewayOK, PaidRefundIsProcessed, Exists
<1> QED BY <1>1, <1>2 DEF Accepted

LEMMA CallSteps ==
  ASSUME IInv, NEW s \in Sessions, Answered(s) \/ TimedOut(s) \/ Refused(s)
  PROVE  IInv'
<1>0. /\ TypeOK /\ sess[s] \in SessionState /\ RequestOK(s)
      /\ sess[s].pc = "call" /\ sess[s].key \in Keys /\ Exists(sess[s].key)
      /\ UNCHANGED <<rows, acked>>
  BY DEF IInv, TypeOK, RequestsOK, RequestOK, Answered, TimedOut, Refused
<1> DEFINE k == sess[s].key
(* What the gateway does lets every request's expectations stand.          *)
<1>1. ASSUME NEW status \in Outcomes, Accepted(k, status)
      PROVE  \A t \in Sessions : sess'[t] = sess[t] => RequestOK(t)'
  <2>1. \A j \in Keys : gw[j] # "none" => gw'[j] = gw[j]
    BY <1>0, <1>1, AcceptedStep
  <2>2. ASSUME NEW t \in Sessions, sess'[t] = sess[t] PROVE RequestOK(t)'
    <3>1. RequestOK(t)
      BY DEF IInv, RequestsOK
    <3> QED BY <1>0, <2>1, <2>2, <3>1 DEF RequestOK, Exists
  <2> QED BY <2>2
<1>2. CASE Answered(s)
  <2>1. PICK status \in Outcomes :
          /\ Accepted(k, status)
          /\ sess' = [sess EXCEPT ![s].pc = "reconcile", ![s].resp = status]
    BY <1>2 DEF Answered
  <2>2. /\ sess' \in [Sessions -> SessionState]
        /\ sess'[s].pc = "reconcile" /\ sess'[s].resp = status
        /\ sess'[s].key = k /\ sess'[s].src = sess[s].src /\ sess'[s].val = sess[s].val
        /\ \A t \in Sessions \ {s} : sess'[t] = sess[t]
    BY <1>0, <2>1 DEF TypeOK, SessionState
  <2>3. RequestOK(s)'
    BY <1>0, <2>1, <2>2, AcceptedStep DEF RequestOK, Exists
  <2>4. RequestsOK'
    BY <1>1, <2>1, <2>2, <2>3 DEF RequestsOK
  <2>5. TypeOK' /\ GatewayOK' /\ PaidRefundIsProcessed'
    BY <1>0, <1>2, <2>1, <2>2, AcceptedStep DEF TypeOK, Answered
  <2> QED BY <2>4, <2>5 DEF IInv
<1>3. CASE TimedOut(s)
  <2>1. PICK status \in Outcomes : Accepted(k, status)
    BY <1>3 DEF TimedOut
  <2>2. Finish(s)
    BY <1>3 DEF TimedOut
  <2>3. RequestsOK'
    BY <1>0, <1>1, <2>1, <2>2, FinishStep DEF RequestsOK, RequestOK
  <2>4. TypeOK' /\ GatewayOK' /\ PaidRefundIsProcessed'
    BY <1>0, <2>1, <2>2, AcceptedStep, FinishStep DEF TypeOK
  <2> QED BY <2>3, <2>4 DEF IInv
<1>4. CASE Refused(s)
  <2>1. sess' = [sess EXCEPT ![s].pc = "error"] /\ UNCHANGED lock
    BY <1>4 DEF Refused, Goto
  <2>2. /\ sess' \in [Sessions -> SessionState]
        /\ sess'[s].pc = "error"
        /\ sess'[s].key = k /\ sess'[s].src = sess[s].src /\ sess'[s].val = sess[s].val
        /\ \A t \in Sessions \ {s} : sess'[t] = sess[t]
    BY <1>0, <2>1 DEF TypeOK, SessionState
  <2>3. CASE UNCHANGED <<gw, sent>>
    <3>1. RequestOK(s)'
      BY <1>0, <2>2, <2>3 DEF RequestOK, Exists
    <3> QED BY <1>0, <2>1, <2>2, <2>3, <3>1, SessionStep DEF TypeOK
  <2>4. ASSUME NEW status \in Outcomes, Accepted(k, status) PROVE IInv'
    <3>1. RequestOK(s)'
      BY <1>0, <2>2, <2>4, AcceptedStep DEF RequestOK, Exists
    <3>2. RequestsOK'
      BY <1>1, <2>2, <2>4, <3>1 DEF RequestsOK
    <3>3. TypeOK' /\ GatewayOK' /\ PaidRefundIsProcessed'
      BY <1>0, <2>1, <2>2, <2>4, AcceptedStep DEF TypeOK
    <3> QED BY <3>2, <3>3 DEF IInv
  <2> QED BY <1>4, <2>3, <2>4 DEF Refused
<1> QED BY <1>2, <1>3, <1>4

(* An UPDATE from a possibly stale load keeps the invariant as long as it  *)
(* writes "paid" only for a refund the gateway has processed.              *)
LEMMA FlushStep ==
  ASSUME IInv, NEW k \in Keys, Exists(k), NEW seen \in Row,
         NEW status \in PaymentStatuses, NEW gwStatus \in Outcomes \cup {"request_failed"},
         status = "paid" /\ seen.status # "paid" => gw[k] = "processed",
         Flush(k, seen, status, gwStatus), UNCHANGED <<gw, sent>>
  PROVE  /\ rows' \in [Ids -> Row]
         /\ \A r \in Ids : Exists(r)' <=> Exists(r)
         /\ GatewayOK' /\ PaidRefundIsProcessed'
<1>1. rows[k] \in Row /\ k \in Ids
  BY DEF IInv, TypeOK, Ids
<1>2. PICK st \in {rows[k].status, status}, gs \in {rows[k].gwStatus, gwStatus} :
        /\ rows' = [rows EXCEPT ![k] = [rows[k] EXCEPT !.status = st, !.gwStatus = gs]]
        /\ st # rows[k].status => st = status /\ status # seen.status
  <2> DEFINE st == IF status = seen.status THEN rows[k].status ELSE status
             gs == IF gwStatus = seen.gwStatus THEN rows[k].gwStatus ELSE gwStatus
  <2>1. /\ st \in {rows[k].status, status} /\ gs \in {rows[k].gwStatus, gwStatus}
        /\ st # rows[k].status => st = status /\ status # seen.status
    OBVIOUS
  <2>2. rows' = [rows EXCEPT ![k] = [rows[k] EXCEPT !.status = st, !.gwStatus = gs]]
    BY <1>1 DEF Flush, IInv, TypeOK, Row
  <2> QED BY <2>1, <2>2
<1> DEFINE new == [rows[k] EXCEPT !.status = st, !.gwStatus = gs]
<1>3. new \in Row /\ new.purpose = rows[k].purpose /\ new.parent = rows[k].parent /\ new.status = st
  BY <1>1 DEF Row
<1>4. rows' \in [Ids -> Row] /\ rows'[k] = new /\ \A r \in Ids \ {k} : rows'[r] = rows[r]
  BY <1>1, <1>2, <1>3 DEF IInv, TypeOK
<1>5. \A r \in Ids : Exists(r)' <=> Exists(r)
  BY <1>3, <1>4 DEF Exists
<1>6. GatewayOK'
  BY <1>3, <1>4, <1>5 DEF IInv, GatewayOK, Ids
<1>7. PaidRefundIsProcessed'
  BY <1>2, <1>3, <1>4, <1>5 DEF IInv, PaidRefundIsProcessed, Ids
<1> QED BY <1>4, <1>5, <1>6, <1>7

LEMMA StatusAfterFacts ==
  ASSUME NEW seen \in Row, NEW outcome \in Outcomes
  PROVE  /\ StatusAfter(seen, outcome) \in {"paid", "failed", "pending"}
         /\ StatusAfter(seen, outcome) = "paid" <=> outcome = "processed" \/ seen.status = "paid"
         /\ StatusAfter(seen, outcome) = "failed" => outcome = "failed"
         /\ outcome = "failed" /\ seen.status # "paid" => StatusAfter(seen, outcome) = "failed"
  BY DEF StatusAfter, Outcomes

LEMMA WriteSteps ==
  ASSUME IInv
  PROVE  /\ \A s \in Sessions : ReconcileAnswer(s) \/ RecordRefusal(s) => IInv'
         /\ \A k \in Keys, outcome \in Outcomes : RefundWebhook(k, outcome) => IInv'
<1>1. ASSUME NEW s \in Sessions, ReconcileAnswer(s) \/ RecordRefusal(s) PROVE IInv'
  <2> DEFINE k == sess[s].key
  <2>0. /\ TypeOK /\ sess[s] \in SessionState /\ RequestOK(s)
        /\ sess[s].pc \in {"reconcile", "error"} /\ k \in Keys /\ Exists(k)
        /\ sess[s].val \in Row /\ sess[s].resp \in Outcomes
        /\ Finish(s) /\ UNCHANGED <<gw, sent, acked>>
    BY <1>1 DEF IInv, TypeOK, RequestsOK, RequestOK, ReconcileAnswer, RecordRefusal, SessionState
  <2>1. /\ rows' \in [Ids -> Row]
        /\ \A r \in Ids : Exists(r)' <=> Exists(r)
        /\ GatewayOK' /\ PaidRefundIsProcessed'
    <3>1. CASE ReconcileAnswer(s)
      <4> DEFINE status == StatusAfter(sess[s].val, sess[s].resp)
      <4>1. Flush(k, sess[s].val, status, sess[s].resp)
        BY <3>1 DEF ReconcileAnswer, ReconcileRow
      <4>2. status \in PaymentStatuses
        BY <2>0, StatusAfterFacts DEF PaymentStatuses
      <4>3. status = "paid" /\ sess[s].val.status # "paid" => gw[k] = "processed"
        BY <2>0, <3>1, StatusAfterFacts DEF RequestOK, ReconcileAnswer
      <4> QED BY <2>0, <4>1, <4>2, <4>3, FlushStep
    <3>2. CASE RecordRefusal(s) /\ UNCHANGED rows
      BY <2>0, <3>2 DEF IInv, TypeOK, GatewayOK, PaidRefundIsProcessed, Exists
    <3>3. CASE RecordRefusal(s) /\ Flush(k, sess[s].val, "failed", "request_failed")
      BY <2>0, <3>3, FlushStep DEF PaymentStatuses
    <3> QED BY <1>1, <3>1, <3>2, <3>3 DEF RecordRefusal
  <2>2. TypeOK'
    BY <2>0, <2>1, FinishStep DEF TypeOK
  <2>3. RequestsOK'
    <3>1. \A r \in Keys : Exists(r)' <=> Exists(r)
      BY <2>1 DEF Ids
    <3> QED BY <2>0, <3>1, FinishStep DEF IInv, RequestsOK, RequestOK
  <2> QED BY <2>1, <2>2, <2>3 DEF IInv
<1>2. ASSUME NEW k \in Keys, NEW outcome \in Outcomes, RefundWebhook(k, outcome) PROVE IInv'
  <2> DEFINE status == StatusAfter(rows[k], outcome)
  <2>1. /\ rows[k] \in Row /\ Exists(k) /\ outcome \in sent[k]
        /\ Flush(k, rows[k], status, outcome)
        /\ acked' = [acked EXCEPT ![k] = @ \cup {outcome}]
        /\ UNCHANGED <<lock, gw, sent, sess>>
    BY <1>2 DEF RefundWebhook, ReconcileRow, IInv, TypeOK, Ids
  <2>2. status \in PaymentStatuses
    BY <2>1, StatusAfterFacts DEF PaymentStatuses
  <2>3. status = "paid" /\ rows[k].status # "paid" => gw[k] = "processed"
    BY <2>1, StatusAfterFacts DEF IInv, GatewayOK
  <2>4. /\ rows' \in [Ids -> Row]
        /\ \A r \in Ids : Exists(r)' <=> Exists(r)
        /\ GatewayOK' /\ PaidRefundIsProcessed'
    BY <2>1, <2>2, <2>3, FlushStep
  <2>5. TypeOK'
    BY <2>1, <2>4 DEF IInv, TypeOK
  <2>6. RequestsOK'
    <3>1. \A r \in Keys : Exists(r)' <=> Exists(r)
      BY <2>4 DEF Ids
    <3> QED BY <2>1, <3>1 DEF IInv, RequestsOK, RequestOK
  <2> QED BY <2>4, <2>5, <2>6 DEF IInv
<1> QED BY <1>1, <1>2

LEMMA SettleStep ==
  ASSUME IInv, NEW k \in Keys, Settle(k)
  PROVE  IInv'
<1>1. PICK status \in {"processed", "failed"} :
        /\ gw' = [gw EXCEPT ![k] = status]
        /\ sent' = [sent EXCEPT ![k] = @ \cup {status}]
  BY DEF Settle
<1>2. gw[k] = "pending" /\ UNCHANGED <<rows, lock, acked, sess>>
  BY DEF Settle
<1>3. TypeOK' /\ GatewayOK' /\ PaidRefundIsProcessed'
  BY <1>1, <1>2 DEF IInv, TypeOK, GatewayOK, PaidRefundIsProcessed, Exists, Outcomes
<1>4. RequestsOK'
  BY <1>1, <1>2 DEF IInv, TypeOK, RequestsOK, RequestOK, Exists
<1> QED BY <1>3, <1>4 DEF IInv

LEMMA NextIInv == IInv /\ [Next]_vars => IInv'
<1> SUFFICES ASSUME IInv, [Next]_vars PROVE IInv'
  OBVIOUS
<1>1. CASE Next
  <2>1. ASSUME NEW s \in Sessions,
               \E k \in Keys, src \in Sources, amount \in RefundAmounts : Lookup(s, k, src, amount)
        PROVE  IInv'
    BY <2>1, LookupStep
  <2>2. ASSUME NEW s \in Sessions,
               \/ Approve(s) \/ Refresh(s) \/ LookupAgain(s) \/ Abort(s)
               \/ \E amount \in RefundAmounts : ReadManualRefund(s, amount)
        PROVE  IInv'
    BY <2>2, RequestSteps
  <2>3. ASSUME NEW s \in Sessions, Insert(s) \/ InsertManualRefund(s) PROVE IInv'
    BY <2>3, InsertSteps
  <2>4. ASSUME NEW s \in Sessions, Answered(s) \/ TimedOut(s) \/ Refused(s) PROVE IInv'
    BY <2>4, CallSteps
  <2>5. ASSUME NEW s \in Sessions, ReconcileAnswer(s) \/ RecordRefusal(s) PROVE IInv'
    BY <2>5, WriteSteps
  <2>6. ASSUME \/ \E k \in Keys, outcome \in Outcomes : RefundWebhook(k, outcome)
               \/ \E k \in Keys : Settle(k)
        PROVE  IInv'
    BY <2>6, WriteSteps, SettleStep
  <2> QED BY <1>1, <2>1, <2>2, <2>3, <2>4, <2>5, <2>6 DEF Next
<1>2. CASE UNCHANGED vars
  BY <1>2 DEF vars, IInv, TypeOK, GatewayOK, RequestsOK, RequestOK, PaidRefundIsProcessed, Exists
<1> QED BY <1>1, <1>2

LEMMA Invariance == Spec => []IInv
  BY InitIInv, NextIInv, PTL DEF Spec

(* Type correctness of the refund rows, their locks, the gateway and the   *)
(* requests in flight.                                                     *)
THEOREM TypeCorrect == Spec => []TypeOK
  BY Invariance, PTL DEF IInv

(* The ledger calls a refund paid only when the gateway processed it, also *)
(* under timeouts, HTTP errors, stale rows and webhooks in any order.      *)
THEOREM PaidRefundsAreProcessed == Spec => []PaidRefundIsProcessed
  BY Invariance, PTL DEF IInv

-----------------------------------------------------------------------------
(* When the gateway answers no request with an HTTP error, "failed" is     *)
(* written, or remembered by a request, only after the gateway's own final *)
(* "failed".  With a paid row being processed at the gateway, no stale row *)
(* can then disagree with it in the columns an UPDATE carries.             *)
FailedIsFinal ==
  /\ \A k \in Keys : Exists(k) =>
       /\ rows[k].status \in {"pending", "paid", "failed"}
       /\ rows[k].status = "failed" => gw[k] = "failed"
  /\ \A s \in Sessions :
       /\ sess[s].pc # "error"
       /\ sess[s].pc \in {"call", "reconcile"} =>
            /\ sess[s].val.status \in {"pending", "paid", "failed"}
            /\ sess[s].val.status = "failed" => gw[sess[s].key] = "failed"

LEMMA InitFailedIsFinal == Init => FailedIsFinal
<1> SUFFICES ASSUME Init PROVE FailedIsFinal
  OBVIOUS
<1>1. Absent.purpose = "absent" /\ \A k \in Keys : rows[k] = Absent
  BY DEF Init, Ids, Absent
<1>2. \A s \in Sessions : sess[s].pc = "idle"
  BY DEF Init, Idle
<1> QED BY <1>1, <1>2 DEF FailedIsFinal, Exists

(* The gateway never leaves "failed".                                      *)
LEMMA GatewayFinal ==
  ASSUME IInv, Next
  PROVE  \A k \in Keys : gw[k] = "failed" => gw'[k] = "failed"
<1>1. ASSUME NEW s \in Sessions, Answered(s) \/ TimedOut(s) \/ Refused(s)
      PROVE  \A k \in Keys : gw[k] = "failed" => gw'[k] = "failed"
  <2>1. sess[s].key \in Keys
    BY <1>1 DEF IInv, RequestsOK, RequestOK, Answered, TimedOut, Refused
  <2> QED BY <1>1, <2>1 DEF Answered, TimedOut, Refused, Accepted, Created, IInv, TypeOK
<1>2. ASSUME NEW j \in Keys, Settle(j)
      PROVE  \A k \in Keys : gw[k] = "failed" => gw'[k] = "failed"
  BY <1>2 DEF Settle, IInv, TypeOK
<1>3. CASE UNCHANGED gw
  BY <1>3
<1> QED
  BY <1>1, <1>2, <1>3
  DEF Next, Lookup, Approve, Insert, Refresh, LookupAgain, ReconcileAnswer, RecordRefusal,
      ReadManualRefund, InsertManualRefund, Abort, RefundWebhook

(* What an UPDATE leaves in the row when its load was honest.              *)
LEMMA HonestFlush ==
  ASSUME IInv, FailedIsFinal, NEW k \in Keys, Exists(k),
         NEW seen \in Row, seen.status \in {"pending", "paid", "failed"},
         seen.status = "failed" => gw[k] = "failed",
         NEW outcome \in Outcomes, outcome = "failed" => gw[k] = "failed",
         ReconcileRow(k, seen, outcome), UNCHANGED <<gw, sent>>
  PROVE  /\ \A j \in Keys \ {k} : rows'[j] = rows[j]
         /\ Exists(k)'
         /\ rows'[k].status \in {"pending", "paid", "failed"}
         /\ rows'[k].status = "failed" => gw[k] = "failed"
         /\ rows[k].status = "paid" => rows'[k].status = "paid"
<1> DEFINE status == StatusAfter(seen, outcome)
           gs == IF outcome = seen.gwStatus THEN rows[k].gwStatus ELSE outcome
           st == IF status = seen.status THEN rows[k].status ELSE status
<1>1. rows[k] \in Row /\ k \in Ids /\ Keys \subseteq Ids
  BY DEF IInv, TypeOK, Ids
<1>2. rows' = [rows EXCEPT ![k] = [rows[k] EXCEPT !.status = st, !.gwStatus = gs]]
  BY <1>1 DEF ReconcileRow, Flush, IInv, TypeOK, Row
<1>3. /\ rows'[k].status = st /\ rows'[k].purpose = rows[k].purpose
      /\ \A j \in Keys \ {k} : rows'[j] = rows[j]
  BY <1>1, <1>2 DEF IInv, TypeOK, Row
<1>4. /\ status \in {"pending", "paid", "failed"}
      /\ status = "failed" => outcome = "failed"
      /\ seen.status = "paid" => status = "paid"
  BY StatusAfterFacts
<1>5. /\ rows[k].status \in {"pending", "paid", "failed"}
      /\ rows[k].status = "failed" => gw[k] = "failed"
      /\ rows[k].status = "paid" => gw[k] = "processed"
  BY DEF IInv, PaidRefundIsProcessed, FailedIsFinal
<1>6. st \in {"pending", "paid", "failed"} /\ (st = "failed" => gw[k] = "failed")
  BY <1>4, <1>5
(* A change away from "paid" would need a "failed" the gateway never said. *)
<1>7. ASSUME rows[k].status = "paid" PROVE st = "paid"
  <2>1. gw[k] # "failed"
    BY <1>5, <1>7
  <2>2. status = "failed" => FALSE
    BY <1>4, <2>1
  <2>3. status = "pending" => seen.status = "pending"
    BY <1>4, <2>1
  <2> QED BY <1>4, <1>7, <2>2, <2>3
<1> QED BY <1>3, <1>6, <1>7 DEF Exists

(* The two ways the gateway's word reaches a row.                          *)
LEMMA ReconcileIsHonest ==
  ASSUME IInv, FailedIsFinal
  PROVE  /\ \A s \in Sessions : ReconcileAnswer(s) =>
              /\ sess[s].key \in Keys /\ Exists(sess[s].key)
              /\ sess[s].val \in Row /\ sess[s].val.status \in {"pending", "paid", "failed"}
              /\ sess[s].val.status = "failed" => gw[sess[s].key] = "failed"
              /\ sess[s].resp \in Outcomes
              /\ sess[s].resp = "failed" => gw[sess[s].key] = "failed"
         /\ \A k \in Keys, outcome \in Outcomes : RefundWebhook(k, outcome) =>
              /\ Exists(k) /\ rows[k] \in Row
              /\ rows[k].status \in {"pending", "paid", "failed"}
              /\ rows[k].status = "failed" => gw[k] = "failed"
              /\ outcome = "failed" => gw[k] = "failed"
<1>1. ASSUME NEW s \in Sessions, ReconcileAnswer(s)
      PROVE  /\ sess[s].key \in Keys /\ Exists(sess[s].key)
             /\ sess[s].val \in Row /\ sess[s].val.status \in {"pending", "paid", "failed"}
             /\ sess[s].val.status = "failed" => gw[sess[s].key] = "failed"
             /\ sess[s].resp \in Outcomes
             /\ sess[s].resp = "failed" => gw[sess[s].key] = "failed"
  BY <1>1 DEF IInv, TypeOK, SessionState, RequestsOK, RequestOK, FailedIsFinal, ReconcileAnswer
<1>2. ASSUME NEW k \in Keys, NEW outcome \in Outcomes, RefundWebhook(k, outcome)
      PROVE  /\ Exists(k) /\ rows[k] \in Row
             /\ rows[k].status \in {"pending", "paid", "failed"}
             /\ rows[k].status = "failed" => gw[k] = "failed"
             /\ outcome = "failed" => gw[k] = "failed"
  BY <1>2 DEF IInv, TypeOK, Ids, GatewayOK, FailedIsFinal, RefundWebhook
<1> QED BY <1>1, <1>2

(* The rows: what FailedIsFinal says of them is preserved, and a paid      *)
(* refund stays paid.                                                      *)
LEMMA RowsStep ==
  ASSUME IInv, FailedIsFinal, Next, NEW k \in Keys
  PROVE  /\ Exists(k)' =>
              /\ rows'[k].status \in {"pending", "paid", "failed"}
              /\ rows'[k].status = "failed" => gw'[k] = "failed"
         /\ Exists(k) /\ rows[k].status = "paid" => rows'[k].status = "paid"
<1> DEFINE Stay == /\ Exists(k)' =>
                        /\ rows'[k].status \in {"pending", "paid", "failed"}
                        /\ rows'[k].status = "failed" => gw'[k] = "failed"
                   /\ Exists(k) /\ rows[k].status = "paid" => rows'[k].status = "paid"
<1>1. CASE rows'[k] = rows[k]
  BY <1>1, GatewayFinal DEF FailedIsFinal, Exists
<1>2. ASSUME NEW s \in Sessions, Insert(s) PROVE Stay
  <2>1. k \in Ids
    BY DEF Ids
  <2>2. CASE ~Exists(sess[s].key) /\ k = sess[s].key
    BY <1>2, <2>1, <2>2 DEF Insert, Exists, IInv, TypeOK
  <2>3. CASE Exists(sess[s].key) \/ k # sess[s].key
    BY <1>1, <1>2, <2>1, <2>3 DEF Insert, IInv, TypeOK
  <2> QED BY <2>2, <2>3
<1>3. ASSUME NEW s \in Sessions, InsertManualRefund(s) PROVE rows'[k] = rows[k]
  BY <1>3 DEF InsertManualRefund, IInv, TypeOK, Ids
<1>4. ASSUME NEW s \in Sessions, RecordRefusal(s) PROVE FALSE
  BY <1>4 DEF RecordRefusal, FailedIsFinal
<1>5. ASSUME NEW s \in Sessions, ReconcileAnswer(s) PROVE Stay
  <2>1. ReconcileRow(sess[s].key, sess[s].val, sess[s].resp) /\ UNCHANGED <<gw, sent>>
    BY <1>5 DEF ReconcileAnswer
  <2>2. CASE k = sess[s].key
    BY <1>5, <2>1, <2>2, ReconcileIsHonest, HonestFlush
  <2>3. CASE k # sess[s].key
    BY <1>1, <1>5, <2>1, <2>3, ReconcileIsHonest, HonestFlush
  <2> QED BY <2>2, <2>3
<1>6. ASSUME NEW j \in Keys, NEW outcome \in Outcomes, RefundWebhook(j, outcome) PROVE Stay
  <2>1. ReconcileRow(j, rows[j], outcome) /\ UNCHANGED <<gw, sent>>
    BY <1>6 DEF RefundWebhook
  <2>2. CASE k = j
    BY <1>6, <2>1, <2>2, ReconcileIsHonest, HonestFlush
  <2>3. CASE k # j
    BY <1>1, <1>6, <2>1, <2>3, ReconcileIsHonest, HonestFlush
  <2> QED BY <2>2, <2>3
<1>7. CASE UNCHANGED rows
  BY <1>1, <1>7
<1> QED
  BY <1>1, <1>2, <1>3, <1>4, <1>5, <1>6, <1>7
  DEF Next, Lookup, Approve, Refresh, LookupAgain, Answered, TimedOut, Refused,
      ReadManualRefund, Abort, Settle

(* The requests: a load is honest when it is made and stays so.            *)
HonestLoad(s) ==
  /\ sess[s].pc # "error"
  /\ sess[s].pc \in {"call", "reconcile"} =>
       /\ sess[s].val.status \in {"pending", "paid", "failed"}
       /\ sess[s].val.status = "failed" => gw[sess[s].key] = "failed"

LEMMA RequestsHonest ==
  ASSUME HttpErrors = {}, IInv, FailedIsFinal, Next, NEW t \in Sessions
  PROVE  HonestLoad(t)'
<1>0. HonestLoad(t) /\ RequestOK(t) /\ TypeOK /\ Idle.pc = "idle"
  BY DEF FailedIsFinal, HonestLoad, IInv, RequestsOK, Idle
<1>1. CASE sess'[t] = sess[t]
  BY <1>0, <1>1, GatewayFinal DEF HonestLoad, RequestOK
<1>2. CASE sess' = [sess EXCEPT ![t] = Idle]
  BY <1>0, <1>2 DEF HonestLoad, TypeOK
<1>3. ASSUME NEW k \in Keys, NEW src \in Sources, NEW amount \in RefundAmounts,
             Lookup(t, k, src, amount)
      PROVE  HonestLoad(t)'
  BY <1>0, <1>3 DEF Lookup, HonestLoad, TypeOK, FailedIsFinal
<1>4. CASE Approve(t) \/ Insert(t)
  <2>1. PICK pc \in {"insert", "refresh", "relookup"} : sess' = [sess EXCEPT ![t].pc = pc]
    BY <1>4 DEF Approve, Insert, Goto
  <2>2. sess'[t].pc = pc
    BY <1>0, <2>1 DEF TypeOK, SessionState
  <2> QED BY <2>2 DEF HonestLoad
<1>5. CASE Refresh(t) \/ (LookupAgain(t) /\ Matching(sess[t].key, sess[t].src, sess[t].amount))
  <2>1. /\ sess[t].key \in Keys /\ Exists(sess[t].key)
        /\ sess' = [sess EXCEPT ![t].pc = "call", ![t].val = rows[sess[t].key]]
        /\ UNCHANGED gw
    BY <1>0, <1>5 DEF RequestOK, Refresh, LookupAgain
  <2>2. sess'[t].pc = "call" /\ sess'[t].val = rows[sess[t].key] /\ sess'[t].key = sess[t].key
    BY <1>0, <2>1 DEF TypeOK, SessionState
  <2> QED BY <2>1, <2>2 DEF HonestLoad, FailedIsFinal
<1>6. CASE LookupAgain(t) /\ ~Matching(sess[t].key, sess[t].src, sess[t].amount)
  BY <1>2, <1>6 DEF LookupAgain, Finish
<1>7. CASE Answered(t)
  <2>1. PICK status \in Outcomes : sess' = [sess EXCEPT ![t].pc = "reconcile", ![t].resp = status]
    BY <1>7 DEF Answered
  <2>2. /\ sess'[t].pc = "reconcile" /\ sess'[t].val = sess[t].val /\ sess'[t].key = sess[t].key
        /\ sess[t].pc = "call" /\ sess[t].key \in Keys
    BY <1>0, <1>7, <2>1 DEF TypeOK, SessionState, Answered, RequestOK
  <2> QED BY <1>0, <2>2, GatewayFinal DEF HonestLoad
<1>8. ASSUME NEW s \in Sessions, Refused(s) PROVE FALSE
  BY <1>8 DEF Refused
<1>9. ASSUME NEW amount \in RefundAmounts, ReadManualRefund(t, amount) PROVE HonestLoad(t)'
  BY <1>0, <1>9 DEF ReadManualRefund, HonestLoad, TypeOK, Idle
<1>10. ASSUME NEW s \in Sessions,
              \/ \E k \in Keys, src \in Sources, amount \in RefundAmounts : Lookup(s, k, src, amount)
              \/ Approve(s) \/ Insert(s) \/ Refresh(s) \/ LookupAgain(s) \/ Answered(s)
              \/ TimedOut(s) \/ ReconcileAnswer(s) \/ RecordRefusal(s)
              \/ \E amount \in RefundAmounts : ReadManualRefund(s, amount)
              \/ InsertManualRefund(s) \/ Abort(s)
       PROVE  HonestLoad(t)'
  <2>1. CASE s # t
    <3>1. sess'[t] = sess[t]
      BY <1>0, <1>10, <2>1
      DEF TypeOK, Lookup, Approve, Insert, Refresh, LookupAgain, Answered, TimedOut,
          ReconcileAnswer, RecordRefusal, ReadManualRefund, InsertManualRefund, Abort, Finish, Goto
    <3> QED BY <1>1, <3>1
  <2>2. CASE s = t /\ Finish(t)
    BY <1>2, <2>2 DEF Finish
  <2>3. CASE s = t /\ ~Finish(t)
    BY <1>3, <1>4, <1>5, <1>6, <1>7, <1>9, <1>10, <2>3
    DEF TimedOut, ReconcileAnswer, RecordRefusal, InsertManualRefund, Abort
  <2> QED BY <2>1, <2>2, <2>3
<1>11. CASE UNCHANGED sess
  BY <1>1, <1>11
<1> QED BY <1>8, <1>10, <1>11 DEF Next, RefundWebhook, Settle

LEMMA NextFailedIsFinal ==
  ASSUME HttpErrors = {}
  PROVE  IInv /\ FailedIsFinal /\ [Next]_vars => FailedIsFinal'
<1> SUFFICES ASSUME IInv, FailedIsFinal, [Next]_vars PROVE FailedIsFinal'
  OBVIOUS
<1>1. CASE Next
  BY <1>1, RowsStep, RequestsHonest DEF FailedIsFinal, HonestLoad
<1>2. CASE UNCHANGED vars
  BY <1>2 DEF vars, FailedIsFinal, Exists
<1> QED BY <1>1, <1>2

LEMMA FailedIsFinalAlways ==
  ASSUME HttpErrors = {}
  PROVE  Spec => []FailedIsFinal
<1>1. IInv /\ FailedIsFinal /\ [Next]_vars => FailedIsFinal'
  BY NextFailedIsFinal
<1> QED BY <1>1, InitFailedIsFinal, Invariance, PTL DEF Spec

(* A paid refund is never taken back to pending or failed as long as the   *)
(* gateway answers no request with an HTTP error.                          *)
THEOREM PaidRefundNeverReverts ==
  ASSUME HttpErrors = {}
  PROVE  Spec => PaidRefundStands
<1>1. IInv /\ FailedIsFinal /\ [Next]_vars =>
        [\A k \in Keys : Exists(k) /\ rows[k].status = "paid" => rows'[k].status = "paid"]_vars
  BY RowsStep
<1> QED BY <1>1, Invariance, FailedIsFinalAlways, PTL DEF Spec, PaidRefundStands

(* Without HTTP errors a refund the gateway accepted stays in the ledger   *)
(* as pending or paid, whatever timeouts and crashes its request met, so   *)
(* its amount stays reserved.                                              *)
THEOREM AcceptedRefundStaysReserved ==
  ASSUME HttpErrors = {}
  PROVE  Spec => []AcceptedStaysReserved
<1>1. IInv /\ FailedIsFinal => AcceptedStaysReserved
  BY DEF IInv, GatewayOK, FailedIsFinal, AcceptedStaysReserved, Outcomes
<1> QED BY <1>1, Invariance, FailedIsFinalAlways, PTL

-----------------------------------------------------------------------------
(* Without HTTP errors, what the gateway has taken or may still take of a  *)
(* payment, the rows it has not failed, leaves room for the refund that   *)
(* holds the payment's lock and is about to be inserted.  The lock is what *)
(* makes it the only one; FailedIsFinal is what makes every live row       *)
(* count as a reservation when the next request is validated.              *)
Inserting(s, src) == sess[s].pc = "insert" /\ sess[s].src = src

Headroom ==
  /\ \A src \in Sources :
       rows[src].amount = SourceAmount[src] /\ SumOf(rows, ReservedOf(src)) <= SourceAmount[src]
  /\ \A k \in Keys : Exists(k) => rows[k].purpose = "refund"
  /\ \A s \in Sessions, src \in Sources : Inserting(s, src) =>
       /\ lock[src] = s
       /\ SumOf(rows, ReservedOf(src)) + sess[s].amount <= SourceAmount[src]

LEMMA RowSums ==
  ASSUME TypeOK, NEW S \in SUBSET Ids
  PROVE  /\ IsFiniteSet(S) /\ SumOf(rows, S) \in Nat
         /\ \A U \in SUBSET S : SumOf(rows, U) <= SumOf(rows, S)
<1>1. IsFiniteSet(S) /\ \A r \in S : rows[r].amount \in Nat
  BY FS_Subset DEF TypeOK, Row
<1> QED BY <1>1, SumNat, SumMonotonic

LEMMA InitHeadroom == Init => Headroom
<1> SUFFICES ASSUME Init PROVE Headroom
  OBVIOUS
<1>1. /\ \A k \in Keys : ~Exists(k)
      /\ \A src \in Sources : rows[src].amount = SourceAmount[src]
  BY DEF Init, Ids, Absent, Exists
<1>2. \A src \in Sources : ReservedOf(src) = {}
  BY <1>1 DEF ReservedOf
<1>3. \A s \in Sessions : sess[s].pc = "idle"
  BY DEF Init, Idle
<1>4. \A src \in Sources : SumOf(rows, ReservedOf(src)) = 0 /\ SourceAmount[src] \in Nat
  BY <1>2, SumEmpty
<1> QED BY <1>1, <1>3, <1>4 DEF Headroom, Inserting

(* Rows that keep amount and parent can only lose reservations.            *)
SameRows ==
  /\ \A k \in Keys : /\ Exists(k)' <=> Exists(k)
                     /\ Exists(k) => /\ rows'[k].amount = rows[k].amount
                                     /\ rows'[k].parent = rows[k].parent
                                     /\ rows'[k].purpose = rows[k].purpose
  /\ \A src \in Sources : rows'[src] = rows[src]

LEMMA LiveShrinks ==
  ASSUME TypeOK, SameRows, \A k \in Keys : gw[k] = "failed" => gw'[k] = "failed",
         NEW src \in Sources
  PROVE  SumOf(rows', ReservedOf(src)') <= SumOf(rows, ReservedOf(src))
<1>1. ReservedOf(src)' \in SUBSET ReservedOf(src) /\ ReservedOf(src) \in SUBSET Ids
  BY DEF ReservedOf, SameRows, Exists, Ids
<1>2. IsFiniteSet(ReservedOf(src)') /\ SumOf(rows, ReservedOf(src)') <= SumOf(rows, ReservedOf(src))
  BY <1>1, RowSums
<1>3. \A k \in ReservedOf(src)' : rows'[k].amount = rows[k].amount
  BY <1>1 DEF ReservedOf, SameRows
<1>4. SumOf(rows', ReservedOf(src)') = SumOf(rows, ReservedOf(src)')
  BY <1>2, <1>3, SumAgrees
<1> QED BY <1>2, <1>4

(* A step that inserts nothing and opens no insert keeps the headroom.     *)
LEMMA QuietHeadroom ==
  ASSUME IInv, TypeOK', Headroom, SameRows,
         \A k \in Keys : gw[k] = "failed" => gw'[k] = "failed",
         \A s \in Sessions, src \in Sources : Inserting(s, src)' =>
           /\ Inserting(s, src)
           /\ sess'[s].amount = sess[s].amount
           /\ lock[src] = s => lock'[src] = s
  PROVE  Headroom'
<1>1. \A src \in Sources : SumOf(rows, ReservedOf(src)) \in Nat /\ SumOf(rows', ReservedOf(src)') \in Nat
  <2>1. \A src \in Sources : ReservedOf(src) \in SUBSET Ids /\ ReservedOf(src)' \in SUBSET Ids
    BY DEF ReservedOf, Ids
  <2>2. \A src \in Sources : SumOf(rows, ReservedOf(src)) \in Nat
    BY <2>1, RowSums DEF IInv
  <2>3. ASSUME NEW src \in Sources PROVE SumOf(rows', ReservedOf(src)') \in Nat
    <3>1. IsFiniteSet(ReservedOf(src)') /\ \A r \in ReservedOf(src)' : rows'[r].amount \in Nat
      BY <2>1, FS_Subset DEF TypeOK, Row
    <3> QED BY <3>1, SumNat
  <2> QED BY <2>1, <2>2, <2>3
<1>2. \A src \in Sources : SumOf(rows', ReservedOf(src)') <= SumOf(rows, ReservedOf(src))
  BY LiveShrinks DEF IInv
<1>3. \A src \in Sources : rows'[src].amount = SourceAmount[src]
                           /\ SumOf(rows', ReservedOf(src)') <= SourceAmount[src]
  BY <1>1, <1>2 DEF Headroom, SameRows
<1>4. \A k \in Keys : Exists(k)' => rows'[k].purpose = "refund"
  BY DEF Headroom, SameRows, Exists
<1>5. ASSUME NEW s \in Sessions, NEW src \in Sources, Inserting(s, src)'
      PROVE  lock'[src] = s /\ SumOf(rows', ReservedOf(src)') + sess'[s].amount <= SourceAmount[src]
  <2>1. /\ sess[s].amount \in Nat /\ sess'[s].amount = sess[s].amount
        /\ lock'[src] = s
        /\ SumOf(rows, ReservedOf(src)) + sess[s].amount <= SourceAmount[src]
    BY <1>5 DEF Headroom, IInv, TypeOK, SessionState
  <2> QED BY <1>1, <1>2, <2>1
<1> QED BY <1>3, <1>4, <1>5 DEF Headroom

LEMMA FlushSameRows ==
  ASSUME IInv, NEW k \in Keys, NEW seen, NEW status, NEW gwStatus,
         Flush(k, seen, status, gwStatus)
  PROVE  SameRows
<1>1. k \in Ids /\ rows[k] \in Row /\ Keys \subseteq Ids /\ Sources \subseteq Ids
  BY DEF IInv, TypeOK, Ids
<1> DEFINE st == IF status = seen.status THEN rows[k].status ELSE status
           gs == IF gwStatus = seen.gwStatus THEN rows[k].gwStatus ELSE gwStatus
<1>2. rows' = [rows EXCEPT ![k] = [rows[k] EXCEPT !.status = st, !.gwStatus = gs]]
  BY <1>1 DEF Flush, IInv, TypeOK, Row
<1> HIDE DEF st, gs
<1>3. \A r \in Ids : /\ rows'[r].amount = rows[r].amount
                     /\ rows'[r].parent = rows[r].parent
                     /\ rows'[r].purpose = rows[r].purpose
                     /\ r # k => rows'[r] = rows[r]
  BY <1>1, <1>2 DEF IInv, TypeOK, Row
<1> QED BY <1>1, <1>3 DEF SameRows, Exists

LEMMA NextSameRows ==
  ASSUME IInv, Next, \A s \in Sessions : Insert(s) => Exists(sess[s].key)
  PROVE  SameRows
<1>1. CASE UNCHANGED rows
  BY <1>1 DEF SameRows, Exists
<1>2. ASSUME NEW s \in Sessions, ReconcileAnswer(s) \/ RecordRefusal(s) PROVE SameRows
  <2>1. sess[s].key \in Keys
    BY <1>2 DEF IInv, RequestsOK, RequestOK, ReconcileAnswer, RecordRefusal
  <2> QED BY <1>1, <1>2, <2>1, FlushSameRows DEF ReconcileAnswer, ReconcileRow, RecordRefusal
<1>3. ASSUME NEW k \in Keys, NEW outcome \in Outcomes, RefundWebhook(k, outcome) PROVE SameRows
  BY <1>3, FlushSameRows DEF RefundWebhook, ReconcileRow
<1>4. ASSUME NEW s \in Sessions, InsertManualRefund(s) PROVE SameRows
  <2>1. \A r \in Sources \cup Keys : rows'[r] = rows[r]
    BY <1>4 DEF InsertManualRefund, IInv, TypeOK, Ids
  <2> QED BY <2>1 DEF SameRows, Exists
<1>5. ASSUME NEW s \in Sessions, Insert(s) PROVE SameRows
  BY <1>1, <1>5 DEF Insert
<1> QED
  BY <1>1, <1>2, <1>3, <1>4, <1>5
  DEF Next, Lookup, Approve, Refresh, LookupAgain, Answered, TimedOut, Refused,
      ReadManualRefund, Abort, Settle

(* Only Approve opens an insert, and nobody takes the lock away from it.   *)
LEMMA InsertingQuiet ==
  ASSUME IInv, Next, NEW t \in Sessions, NEW src \in Sources,
         Inserting(t, src)', ~Approve(t)
  PROVE  /\ Inserting(t, src)
         /\ sess'[t].amount = sess[t].amount
         /\ lock[src] = t => lock'[src] = t
<1> DEFINE Quiet == /\ Inserting(t, src)
                    /\ sess'[t].amount = sess[t].amount
                    /\ lock[src] = t => lock'[src] = t
<1>0. TypeOK /\ Idle.pc = "idle"
  BY DEF IInv, Idle
<1>1. CASE UNCHANGED <<sess, lock>>
  BY <1>1 DEF Inserting
<1>2. ASSUME NEW s \in Sessions, Finish(s) PROVE Quiet
  BY <1>0, <1>2 DEF Finish, Unlocked, TypeOK, Inserting, Ids
<1>3. ASSUME NEW s \in Sessions, NEW pc, Goto(s, pc), pc # "insert",
             lock' = lock \/ lock' = Unlocked(s)
      PROVE  Quiet
  BY <1>0, <1>3 DEF Goto, Unlocked, TypeOK, SessionState, Inserting, Ids
<1>4. ASSUME NEW s \in Sessions, NEW k \in Keys, NEW src2 \in Sources,
             NEW amount \in RefundAmounts, Lookup(s, k, src2, amount)
      PROVE  Quiet
  BY <1>0, <1>4 DEF Lookup, TypeOK, SessionState, Inserting, Ids
<1>5. ASSUME NEW s \in Sessions, Approve(s) PROVE Quiet
  <2>1. s # t
    BY <1>5
  <2>2. sess'[t] = sess[t]
    BY <1>0, <1>5, <2>1 DEF Approve, Goto, TypeOK
  <2>3. lock[src] = t => lock'[src] = t
    BY <1>0, <1>5, <2>1 DEF Approve, Free, TypeOK, Ids
  <2> QED BY <2>2, <2>3 DEF Inserting
<1>6. ASSUME NEW s \in Sessions, Insert(s) PROVE Quiet
  BY <1>3, <1>6 DEF Insert
<1>7. ASSUME NEW s \in Sessions, Refresh(s) PROVE Quiet
  BY <1>0, <1>7 DEF Refresh, TypeOK, SessionState, Inserting
<1>8. ASSUME NEW s \in Sessions, LookupAgain(s) PROVE Quiet
  <2>1. CASE Finish(s)
    BY <1>2, <2>1
  <2>2. CASE /\ lock' = [lock EXCEPT ![sess[s].key] = s]
             /\ sess' = [sess EXCEPT ![s].pc = "call", ![s].val = rows[sess[s].key]]
    <3>1. sess[s].key \in Keys
      BY <1>8 DEF LookupAgain, IInv, RequestsOK, RequestOK
    <3> QED BY <1>0, <2>2, <3>1 DEF TypeOK, SessionState, Inserting, Ids
  <2> QED BY <1>8, <2>1, <2>2 DEF LookupAgain
<1>9. ASSUME NEW s \in Sessions, Answered(s) PROVE Quiet
  BY <1>0, <1>9 DEF Answered, TypeOK, SessionState, Inserting
<1>10. ASSUME NEW s \in Sessions, Refused(s) PROVE Quiet
  BY <1>3, <1>10 DEF Refused
<1>11. ASSUME NEW s \in Sessions,
              \/ TimedOut(s) \/ ReconcileAnswer(s) \/ RecordRefusal(s)
              \/ InsertManualRefund(s) \/ Abort(s)
       PROVE  Quiet
  BY <1>2, <1>11 DEF TimedOut, ReconcileAnswer, RecordRefusal, InsertManualRefund, Abort
<1>12. ASSUME NEW s \in Sessions, NEW amount \in RefundAmounts, ReadManualRefund(s, amount)
       PROVE  Quiet
  BY <1>0, <1>12 DEF ReadManualRefund, TypeOK, Inserting, Idle
<1> HIDE DEF Quiet
<1>13. ASSUME \/ \E k \in Keys, outcome \in Outcomes : RefundWebhook(k, outcome)
              \/ \E k \in Keys : Settle(k)
       PROVE  Quiet
  BY <1>1, <1>13 DEF RefundWebhook, Settle, Quiet
<1>14. Quiet
  BY <1>4, <1>5, <1>6, <1>7, <1>8, <1>9, <1>10, <1>11, <1>12, <1>13 DEF Next
<1> QED BY <1>14 DEF Quiet

(* A refusal of over-refunds: the amount approved fits what is reserved.   *)
LEMMA ApproveHeadroom ==
  ASSUME IInv, IInv', FailedIsFinal, Headroom, Next, NEW s \in Sessions, Approve(s)
  PROVE  Headroom'
<1> DEFINE src0 == sess[s].src
           amount == sess[s].amount
           reserved == {r \in Ledger : /\ IsRefund(rows[r])
                                       /\ rows[r].parent = src0
                                       /\ rows[r].status \in {"pending", "paid", "refunded"}}
<1>0. /\ TypeOK /\ src0 \in Sources /\ amount \in Nat /\ sess[s].pc = "approve"
      /\ sess'[s].amount = amount /\ lock'[src0] = s
      /\ UNCHANGED <<rows, gw>>
  BY DEF Approve, Goto, IInv, RequestsOK, RequestOK, TypeOK, SessionState, Ids
<1>1. amount <= rows[src0].amount - ReservedOn(rows, Ledger, src0)
  BY DEF Approve, GatewayRefundAllowed
<1>2. ReservedOn(rows, Ledger, src0) = SumOf(rows, reserved)
  BY DEF ReservedOn
<1>3. ReservedOf(src0) \in SUBSET reserved /\ reserved \in SUBSET Ids
  BY DEF ReservedOf, Ledger, Ids, IsRefund, Headroom, FailedIsFinal
<1>4. /\ SumOf(rows, ReservedOf(src0)) <= SumOf(rows, reserved)
      /\ SumOf(rows, reserved) \in Nat /\ SumOf(rows, ReservedOf(src0)) \in Nat
  BY <1>0, <1>3, RowSums
<1>5. rows[src0].amount = SourceAmount[src0] /\ SourceAmount[src0] \in Nat
  BY <1>0 DEF Headroom
<1> HIDE DEF reserved
<1>6. SumOf(rows, ReservedOf(src0)) + amount <= SourceAmount[src0]
  BY <1>0, <1>1, <1>2, <1>4, <1>5
<1>7. ASSUME NEW src \in Sources
      PROVE  ReservedOf(src)' = ReservedOf(src) /\ SumOf(rows', ReservedOf(src)') = SumOf(rows, ReservedOf(src))
  BY <1>0 DEF ReservedOf, Exists
<1>8. ASSUME NEW t \in Sessions, NEW src \in Sources, Inserting(t, src)'
      PROVE  lock'[src] = t /\ SumOf(rows', ReservedOf(src)') + sess'[t].amount <= SourceAmount[src]
  <2>1. CASE t = s
    <3>1. src = src0
      BY <1>8, <2>1 DEF Inserting, Approve, Goto, IInv, TypeOK, SessionState
    <3> QED BY <1>0, <1>6, <1>7, <2>1, <3>1
  <2>2. CASE t # s
    <3>1. ~Approve(t)
      BY <1>0, <1>8, <2>2 DEF Approve, Inserting, Goto, TypeOK
    <3>2. /\ Inserting(t, src) /\ sess'[t].amount = sess[t].amount
          /\ lock[src] = t => lock'[src] = t
      BY <1>8, <3>1, InsertingQuiet
    <3> QED BY <1>7, <3>2 DEF Headroom
  <2> QED BY <2>1, <2>2
<1> QED BY <1>0, <1>7, <1>8 DEF Headroom, Exists

(* The insert uses up the room that its lock kept.                         *)
LEMMA InsertHeadroom ==
  ASSUME IInv, IInv', Headroom, Next, NEW s \in Sessions, Insert(s), ~Exists(sess[s].key)
  PROVE  Headroom'
<1> DEFINE k == sess[s].key
           src0 == sess[s].src
           amount == sess[s].amount
           new == [purpose |-> "refund", status |-> "pending", amount |-> amount,
                   parent |-> src0, gwStatus |-> "pending"]
<1>0. /\ TypeOK /\ k \in Keys /\ src0 \in Sources /\ amount \in Nat
      /\ Inserting(s, src0) /\ gw[k] = "none"
      /\ rows' = [rows EXCEPT ![k] = new] /\ UNCHANGED gw
      /\ sess' = [sess EXCEPT ![s].pc = "refresh"]
  BY DEF Insert, Goto, IInv, RequestsOK, RequestOK, TypeOK, SessionState, GatewayOK, Inserting
<1>1. rows'[k] = new /\ \A r \in Ids \ {k} : rows'[r] = rows[r]
  BY <1>0 DEF TypeOK, Ids
<1>2. ASSUME NEW src \in Sources
      PROVE  ReservedOf(src)' = IF src = src0 THEN ReservedOf(src) \cup {k} ELSE ReservedOf(src)
  BY <1>0, <1>1 DEF ReservedOf, Exists, Ids
<1>3. ASSUME NEW src \in Sources
      PROVE  /\ ReservedOf(src) \in SUBSET Ids /\ k \notin ReservedOf(src) /\ IsFiniteSet(ReservedOf(src))
             /\ SumOf(rows', ReservedOf(src)) = SumOf(rows, ReservedOf(src))
             /\ SumOf(rows, ReservedOf(src)) \in Nat
  <2>1. ReservedOf(src) \in SUBSET Ids /\ k \notin ReservedOf(src)
    BY DEF ReservedOf, Ids
  <2>2. \A r \in ReservedOf(src) : rows'[r].amount = rows[r].amount
    BY <1>1, <2>1
  <2> QED BY <1>0, <2>1, <2>2, RowSums, SumAgrees
<1>4. SumOf(rows', ReservedOf(src0) \cup {k}) = amount + SumOf(rows, ReservedOf(src0))
  <2>1. \A r \in ReservedOf(src0) \cup {k} : rows'[r].amount \in Nat
    BY <1>0, <1>1, <1>3 DEF TypeOK, Row
  <2>2. SumOf(rows', ReservedOf(src0) \cup {k}) = rows'[k].amount + SumOf(rows', ReservedOf(src0))
    BY <1>0, <1>3, <2>1, SumPutIn
  <2>3. rows'[k].amount = amount
    BY <1>1
  <2>4. src0 \in Sources
    BY <1>0
  <2> HIDE DEF src0
  <2>5. SumOf(rows', ReservedOf(src0)) = SumOf(rows, ReservedOf(src0))
    BY <1>3, <2>4
  <2> QED BY <2>2, <2>3, <2>5
<1>5. ASSUME NEW src \in Sources
      PROVE  rows'[src].amount = SourceAmount[src] /\ SumOf(rows', ReservedOf(src)') <= SourceAmount[src]
  <2>1. rows'[src].amount = SourceAmount[src]
    BY <1>0, <1>1 DEF Headroom, Ids
  <2>2. CASE src = src0
    <3>1. SumOf(rows, ReservedOf(src0)) + amount <= SourceAmount[src0]
      BY <1>0 DEF Headroom
    <3>2. SumOf(rows', ReservedOf(src)') = amount + SumOf(rows, ReservedOf(src0))
      BY <1>0, <1>2, <1>4, <2>2
    <3>3. SumOf(rows, ReservedOf(src0)) \in Nat
      BY <1>0, <1>3
    <3> QED BY <1>0, <2>1, <2>2, <3>1, <3>2, <3>3
  <2>3. CASE src # src0
    BY <1>2, <1>3, <2>1, <2>3 DEF Headroom
  <2> QED BY <2>1, <2>2, <2>3
<1>6. ASSUME NEW t \in Sessions, NEW src \in Sources, Inserting(t, src)'
      PROVE  lock'[src] = t /\ SumOf(rows', ReservedOf(src)') + sess'[t].amount <= SourceAmount[src]
  <2>1. t # s
    BY <1>0, <1>6 DEF Inserting, TypeOK, SessionState
  <2>2. ~Approve(t)
    BY <1>0, <1>6, <2>1 DEF Approve, Inserting, TypeOK
  <2>3. /\ Inserting(t, src) /\ sess'[t].amount = sess[t].amount
        /\ lock[src] = t => lock'[src] = t
    BY <1>6, <2>2, InsertingQuiet
  <2>4. src # src0
    BY <1>0, <2>1, <2>3 DEF Headroom
  <2> QED BY <1>2, <1>3, <2>3, <2>4 DEF Headroom
<1>7. \A j \in Keys : Exists(j)' => rows'[j].purpose = "refund"
  BY <1>0, <1>1 DEF Headroom, Exists, Ids
<1> QED BY <1>5, <1>6, <1>7 DEF Headroom

LEMMA NextHeadroom ==
  ASSUME HttpErrors = {}
  PROVE  IInv /\ FailedIsFinal /\ Headroom /\ [Next]_vars => Headroom'
<1> SUFFICES ASSUME IInv, FailedIsFinal, Headroom, [Next]_vars PROVE Headroom'
  OBVIOUS
<1>1. IInv'
  BY NextIInv
<1>2. CASE UNCHANGED vars
  BY <1>2 DEF vars, Headroom, Inserting, ReservedOf, Exists
<1>3. CASE Next /\ \E s \in Sessions : Approve(s)
  BY <1>1, <1>3, ApproveHeadroom
<1>4. CASE Next /\ \E s \in Sessions : Insert(s) /\ ~Exists(sess[s].key)
  BY <1>1, <1>4, InsertHeadroom
<1>5. CASE /\ Next
           /\ \A s \in Sessions : ~Approve(s)
           /\ \A s \in Sessions : Insert(s) => Exists(sess[s].key)
  <2>1. SameRows /\ TypeOK'
    BY <1>1, <1>5, NextSameRows DEF IInv
  <2>2. \A k \in Keys : gw[k] = "failed" => gw'[k] = "failed"
    BY <1>5, GatewayFinal
  <2>3. \A t \in Sessions, src \in Sources : Inserting(t, src)' =>
          /\ Inserting(t, src) /\ sess'[t].amount = sess[t].amount
          /\ lock[src] = t => lock'[src] = t
    BY <1>5, InsertingQuiet
  <2> QED BY <2>1, <2>2, <2>3, QuietHeadroom
<1> QED BY <1>2, <1>3, <1>4, <1>5

(* However many requests run at once, whatever times out and in whatever   *)
(* order webhooks come, the gateway never takes or keeps more refunds of a *)
(* captured payment than the payment, as long as it answers no request     *)
(* with an HTTP error (with one, the errors run finds the counterexample). *)
THEOREM PaymentNotOverRefunded ==
  ASSUME HttpErrors = {}
  PROVE  Spec => []SourceNotOverRefunded
<1>1. IInv /\ Headroom => SourceNotOverRefunded
  <2> SUFFICES ASSUME IInv, Headroom, NEW src \in Sources
               PROVE  SumOf(rows, SentFrom(src)) <= SourceAmount[src]
    BY DEF SourceNotOverRefunded
  <2>1. SentFrom(src) \in SUBSET ReservedOf(src) /\ ReservedOf(src) \in SUBSET Ids /\ SentFrom(src) \in SUBSET Ids
    BY DEF SentFrom, ReservedOf, IInv, GatewayOK, Ids
  <2>2. /\ SumOf(rows, SentFrom(src)) <= SumOf(rows, ReservedOf(src))
        /\ SumOf(rows, SentFrom(src)) \in Nat /\ SumOf(rows, ReservedOf(src)) \in Nat
    BY <2>1, RowSums DEF IInv
  <2>3. SumOf(rows, ReservedOf(src)) <= SourceAmount[src] /\ SourceAmount[src] \in Nat
    BY DEF Headroom
  <2> QED BY <2>2, <2>3
<1>2. IInv /\ FailedIsFinal /\ Headroom /\ [Next]_vars => Headroom'
  BY NextHeadroom
<1> QED BY <1>1, <1>2, InitHeadroom, Invariance, FailedIsFinalAlways, PTL DEF Spec

-----------------------------------------------------------------------------
(* The refinement.  Two more facts about the rows and the answers: a row    *)
(* is pending before it exists, and an answer to a request that had seen    *)
(* its refund failed says "failed" too, so nobody takes that word back.     *)
Answers ==
  /\ \A k \in Keys : ~Exists(k) => rows[k].status = "pending"
  /\ \A s \in Sessions : sess[s].pc = "reconcile" /\ sess[s].val.status = "failed" =>
       sess[s].resp = "failed"

KInv == IInv /\ FailedIsFinal /\ Headroom /\ Answers

LEMMA InitAnswers == Init => Answers
<1> SUFFICES ASSUME Init PROVE Answers
  OBVIOUS
<1>1. Absent.status = "pending" /\ \A k \in Keys : rows[k] = Absent
  BY DEF Init, Ids, Absent
<1>2. \A s \in Sessions : sess[s].pc = "idle"
  BY DEF Init, Idle
<1> QED BY <1>1, <1>2 DEF Answers

(* Nothing brings a row into being but an insert.                          *)
LEMMA AbsentStays ==
  ASSUME IInv, Next, NEW k \in Keys, ~Exists(k)'
  PROVE  ~Exists(k) /\ rows'[k] = rows[k]
<1>0. k \in Ids /\ rows[k] \in Row /\ TypeOK
  BY DEF IInv, TypeOK, Ids
<1>1. CASE UNCHANGED rows
  BY <1>1 DEF Exists
<1>2. ASSUME NEW s \in Sessions, ReconcileAnswer(s) \/ RecordRefusal(s)
      PROVE  ~Exists(k) /\ rows'[k] = rows[k]
  <2>1. sess[s].key \in Keys /\ Exists(sess[s].key)
    BY <1>2 DEF IInv, RequestsOK, RequestOK, ReconcileAnswer, RecordRefusal
  <2>2. CASE UNCHANGED rows
    BY <1>1, <2>2
  <2>3. CASE \E status, gs : Flush(sess[s].key, sess[s].val, status, gs)
    <3>1. SameRows
      BY <2>1, <2>3, FlushSameRows
    <3>2. k # sess[s].key => rows'[k] = rows[k]
      BY <1>0, <2>3 DEF Flush, TypeOK
    <3> QED BY <2>1, <3>1, <3>2 DEF SameRows
  <2> QED BY <1>2, <2>2, <2>3 DEF ReconcileAnswer, ReconcileRow, RecordRefusal
<1>3. ASSUME NEW j \in Keys, NEW outcome \in Outcomes, RefundWebhook(j, outcome)
      PROVE  ~Exists(k) /\ rows'[k] = rows[k]
  <2>1. Exists(j) /\ Flush(j, rows[j], StatusAfter(rows[j], outcome), outcome)
    BY <1>3 DEF RefundWebhook, ReconcileRow
  <2>2. SameRows
    BY <2>1, FlushSameRows
  <2>3. k # j => rows'[k] = rows[k]
    BY <1>0, <2>1 DEF Flush, TypeOK
  <2> QED BY <2>1, <2>2, <2>3 DEF SameRows
<1>4. ASSUME NEW s \in Sessions, InsertManualRefund(s) PROVE ~Exists(k) /\ rows'[k] = rows[k]
  <2>1. rows'[k] = rows[k]
    BY <1>0, <1>4 DEF InsertManualRefund, TypeOK, Ids
  <2> QED BY <2>1 DEF Exists
<1>5. ASSUME NEW s \in Sessions, Insert(s), ~Exists(sess[s].key)
      PROVE  ~Exists(k) /\ rows'[k] = rows[k]
  BY <1>0, <1>5 DEF Insert, TypeOK, Exists
<1>6. ASSUME NEW s \in Sessions, Insert(s), Exists(sess[s].key) PROVE UNCHANGED rows
  BY <1>6 DEF Insert
<1> QED
  BY <1>1, <1>2, <1>3, <1>4, <1>5, <1>6
  DEF Next, Lookup, Approve, Refresh, LookupAgain, Answered, TimedOut, Refused,
      ReadManualRefund, Abort, Settle

LEMMA AnswersAgree ==
  ASSUME IInv, FailedIsFinal, Answers, Next, NEW t \in Sessions,
         sess'[t].pc = "reconcile", sess'[t].val.status = "failed"
  PROVE  sess'[t].resp = "failed"
<1>0. TypeOK /\ sess[t] \in SessionState /\ RequestOK(t)
  BY DEF IInv, TypeOK, RequestsOK
<1>1. CASE sess'[t] = sess[t]
  BY <1>1 DEF Answers
<1>2. CASE Answered(t)
  <2>1. PICK status \in Outcomes :
          /\ Accepted(sess[t].key, status)
          /\ sess' = [sess EXCEPT ![t].pc = "reconcile", ![t].resp = status]
    BY <1>2 DEF Answered
  <2>2. sess'[t].resp = status /\ sess'[t].val = sess[t].val /\ sess[t].pc = "call"
    BY <1>0, <1>2, <2>1 DEF TypeOK, SessionState, Answered
  <2>3. gw[sess[t].key] = "failed"
    BY <2>2 DEF FailedIsFinal
  <2> QED BY <2>1, <2>2, <2>3 DEF Accepted, Created
<1>3. CASE UNCHANGED sess
  BY <1>1, <1>3
<1>4. ASSUME NEW s \in Sessions, NEW v, sess' = [sess EXCEPT ![s] = v],
             s # t \/ v.pc # "reconcile"
      PROVE  sess'[t].resp = "failed"
  BY <1>0, <1>1, <1>4 DEF TypeOK
<1>5. ASSUME NEW s \in Sessions, Finish(s) PROVE sess'[t].resp = "failed"
  BY <1>4, <1>5 DEF Finish, Idle
<1>6. ASSUME NEW s \in Sessions, NEW pc, Goto(s, pc), pc # "reconcile"
      PROVE  sess'[t].resp = "failed"
  BY <1>0, <1>1, <1>6 DEF Goto, TypeOK, SessionState
<1>7. ASSUME NEW s \in Sessions, NEW k \in Keys, NEW src \in Sources,
             NEW n \in RefundAmounts, Lookup(s, k, src, n)
      PROVE  sess'[t].resp = "failed"
  BY <1>4, <1>7 DEF Lookup
<1>8. ASSUME NEW s \in Sessions, Refresh(s) \/ LookupAgain(s)
      PROVE  sess'[t].resp = "failed"
  BY <1>0, <1>1, <1>5, <1>8 DEF Refresh, LookupAgain, TypeOK, SessionState
<1>9. ASSUME NEW s \in Sessions, Answered(s) PROVE sess'[t].resp = "failed"
  BY <1>0, <1>1, <1>2, <1>9 DEF Answered, TypeOK
<1>10. ASSUME NEW s \in Sessions, NEW n \in RefundAmounts, ReadManualRefund(s, n)
       PROVE  sess'[t].resp = "failed"
  BY <1>4, <1>10 DEF ReadManualRefund, Idle
<1>11. ASSUME NEW s \in Sessions, Approve(s) \/ Insert(s) \/ Refused(s)
       PROVE  sess'[t].resp = "failed"
  BY <1>6, <1>11 DEF Approve, Insert, Refused
<1>12. ASSUME NEW s \in Sessions,
              \/ TimedOut(s) \/ ReconcileAnswer(s) \/ RecordRefusal(s)
              \/ InsertManualRefund(s) \/ Abort(s)
       PROVE  sess'[t].resp = "failed"
  BY <1>5, <1>12 DEF TimedOut, ReconcileAnswer, RecordRefusal, InsertManualRefund, Abort
<1> QED
  BY <1>3, <1>7, <1>8, <1>9, <1>10, <1>11, <1>12 DEF Next, RefundWebhook, Settle

LEMMA NextKInv ==
  ASSUME HttpErrors = {}
  PROVE  KInv /\ [Next]_vars => KInv'
<1> SUFFICES ASSUME KInv, [Next]_vars PROVE KInv'
  OBVIOUS
<1>1. IInv' /\ FailedIsFinal' /\ Headroom'
  BY NextIInv, NextFailedIsFinal, NextHeadroom DEF KInv
<1>2. CASE Next
  <2>1. ASSUME NEW k \in Keys, ~Exists(k)' PROVE rows'[k].status = "pending"
    <3>1. ~Exists(k) /\ rows'[k] = rows[k]
      BY <1>2, <2>1, AbsentStays DEF KInv
    <3> QED BY <3>1 DEF KInv, Answers
  <2>2. ASSUME NEW s \in Sessions, sess'[s].pc = "reconcile", sess'[s].val.status = "failed"
        PROVE  sess'[s].resp = "failed"
    BY <1>2, <2>2, AnswersAgree DEF KInv
  <2> QED BY <1>1, <2>1, <2>2 DEF KInv, Answers
<1>3. CASE UNCHANGED vars
  BY <1>1, <1>3 DEF vars, KInv, Answers, Exists
<1> QED BY <1>2, <1>3

(* The state of ReservedRefunds that the rows and the gateway stand for.    *)
LEMMA KeyFacts ==
  ASSUME KInv, NEW k \in Keys
  PROVE  /\ k \in Ids /\ rows[k] \in Row /\ rows[k].amount \in Nat
         /\ gw[k] \in Outcomes \cup {"none"}
         /\ gw[k] # "none" => Exists(k)
         /\ Exists(k) => rows[k].parent \in Sources
BY DEF KInv, IInv, TypeOK, GatewayOK, Ids, Row

LEMMA ReservedFacts ==
  ASSUME KInv, NEW src \in Sources
  PROVE  /\ ReservedOf(src) \in SUBSET Ids /\ IsFiniteSet(ReservedOf(src))
         /\ SumOf(rows, ReservedOf(src)) \in Nat /\ SourceAmount[src] \in Nat
         /\ SumOf(rows, ReservedOf(src)) <= SourceAmount[src]
<1>1. ReservedOf(src) \in SUBSET Ids
  BY DEF ReservedOf, Ids
<1> QED BY <1>1, RowSums DEF KInv, IInv, Headroom

LEMMA RowsTouchedKeepLeft ==
  ASSUME KInv, SameRows, UNCHANGED gw
  PROVE  UNCHANGED <<LeftOf, SourceOf, AmountOf, MoneyOf>>
         \/ \E k \in Keys : ~Exists(k) /\ rows'[k] # rows[k]
<1> SUFFICES ASSUME \A k \in Keys : ~Exists(k) => rows'[k] = rows[k]
             PROVE  UNCHANGED <<LeftOf, SourceOf, AmountOf, MoneyOf>>
  OBVIOUS
<1>1. ASSUME NEW src \in Sources
      PROVE  SumOf(rows', ReservedOf(src)') = SumOf(rows, ReservedOf(src))
  <2>1. ReservedOf(src)' = ReservedOf(src)
    BY DEF ReservedOf, SameRows
  <2>2. \A r \in ReservedOf(src) : rows'[r].amount = rows[r].amount
    BY DEF ReservedOf, SameRows
  <2> QED BY <2>1, <2>2, ReservedFacts, SumAgrees
<1>2. UNCHANGED LeftOf
  BY <1>1 DEF LeftOf
<1>3. UNCHANGED SourceOf /\ UNCHANGED AmountOf
  BY DEF SourceOf, AmountOf, SameRows
<1>4. UNCHANGED MoneyOf
  BY DEF MoneyOf, SameRows
<1> QED BY <1>2, <1>3, <1>4

(* A new row reserves its amount.                                          *)
LEMMA RowReserves ==
  ASSUME KInv, NEW k \in Keys, ~Exists(k), gw[k] = "none", rows[k].status = "pending",
         NEW src0 \in Sources, NEW n \in Nat,
         SumOf(rows, ReservedOf(src0)) + n <= SourceAmount[src0],
         NEW new, rows' = [rows EXCEPT ![k] = new], UNCHANGED gw,
         new.amount = n, new.parent = src0, new.status = "pending", new.purpose # "absent"
  PROVE  Kept!Next
<1>1. rows'[k] = new /\ \A r \in Ids \ {k} : rows'[r] = rows[r]
  BY DEF KInv, IInv, TypeOK, Ids
<1>3. \A j \in Keys \ {k} : rows'[j] = rows[j] /\ (Exists(j)' <=> Exists(j))
  BY <1>1 DEF Ids, Exists
<1>4. Exists(k)'
  BY <1>1 DEF Exists
<1>5. ASSUME NEW src \in Sources
      PROVE  ReservedOf(src)' = IF src = src0 THEN ReservedOf(src) \cup {k} ELSE ReservedOf(src)
  BY <1>1, <1>3, <1>4 DEF ReservedOf
<1>6. ASSUME NEW src \in Sources
      PROVE  /\ k \notin ReservedOf(src)
             /\ SumOf(rows', ReservedOf(src)) = SumOf(rows, ReservedOf(src))
  <2>1. k \notin ReservedOf(src)
    BY DEF ReservedOf
  <2>2. \A r \in ReservedOf(src) : rows'[r].amount = rows[r].amount
    BY <1>1, <2>1, ReservedFacts
  <2> QED BY <2>1, <2>2, ReservedFacts, SumAgrees
<1>7. SumOf(rows', ReservedOf(src0) \cup {k}) = n + SumOf(rows, ReservedOf(src0))
  <2>1. \A r \in ReservedOf(src0) : rows'[r].amount \in Nat
    <3>1. \A r \in ReservedOf(src0) : r \in Ids /\ r # k
      BY <1>6, ReservedFacts
    <3>2. \A r \in Ids : rows[r].amount \in Nat
      BY DEF KInv, IInv, TypeOK, Row
    <3> QED BY <1>1, <3>1, <3>2
  <2>2. IsFiniteSet(ReservedOf(src0)) /\ k \notin ReservedOf(src0)
    BY <1>6, ReservedFacts
  <2>3. rows'[k].amount = n
    BY <1>1
  <2>4. SumOf(rows', ReservedOf(src0) \cup {k}) = rows'[k].amount + SumOf(rows', ReservedOf(src0))
    <3>1. \A r \in ReservedOf(src0) \cup {k} : rows'[r].amount \in Nat
      BY <2>1, <2>3
    <3> HIDE DEF SumOf
    <3> QED BY <2>2, <3>1, SumPutIn
  <2> QED BY <1>6, <2>3, <2>4
<1>8. n <= LeftOf[src0] /\ n \in 0 .. SourceAmount[src0]
  BY ReservedFacts DEF KInv, Headroom, LeftOf
<1>9. LeftOf' = [LeftOf EXCEPT ![src0] = @ - n]
  <2>1. ASSUME NEW src \in Sources
        PROVE  SourceAmount[src] - SumOf(rows', ReservedOf(src)')
                 = IF src = src0 THEN LeftOf[src] - n ELSE LeftOf[src]
    <3>1. CASE src = src0
      <4>1. ReservedOf(src)' = ReservedOf(src) \cup {k}
        BY <1>5, <3>1
      <4>2. SumOf(rows', ReservedOf(src)') = n + SumOf(rows, ReservedOf(src))
        BY <1>7, <3>1, <4>1
      <4>3. SumOf(rows, ReservedOf(src)) \in Nat /\ SourceAmount[src] \in Nat
        BY ReservedFacts
      <4>4. LeftOf[src] = SourceAmount[src] - SumOf(rows, ReservedOf(src))
        BY DEF LeftOf
      <4> QED BY <3>1, <4>2, <4>3, <4>4
    <3>2. CASE src # src0
      BY <1>5, <1>6, <3>2 DEF LeftOf
    <3> QED BY <3>1, <3>2
  <2> QED BY <2>1 DEF LeftOf
<1>10. /\ SourceOf' = [SourceOf EXCEPT ![k] = src0]
       /\ AmountOf' = [AmountOf EXCEPT ![k] = n]
       /\ UNCHANGED WordOf
  <2>1. rows'[k].parent = src0 /\ rows'[k].amount = n /\ rows'[k].status = rows[k].status
    BY <1>1
  <2>2. SourceOf' = [SourceOf EXCEPT ![k] = src0]
    <3>1. \A j \in Keys : rows'[j].parent = IF j = k THEN src0 ELSE rows[j].parent
      BY <1>3, <2>1
    <3> QED BY <3>1 DEF SourceOf
  <2>3. AmountOf' = [AmountOf EXCEPT ![k] = n]
    <3>1. \A j \in Keys : rows'[j].amount = IF j = k THEN n ELSE rows[j].amount
      BY <1>3, <2>1
    <3> QED BY <3>1 DEF AmountOf
  <2>4. UNCHANGED WordOf
    BY <1>3, <1>4, <2>1 DEF WordOf
  <2> QED BY <2>2, <2>3, <2>4
<1>11. MoneyOf[k] = "free" /\ MoneyOf' = [MoneyOf EXCEPT ![k] = "reserved"]
  BY <1>3, <1>4 DEF MoneyOf
<1>12. Kept!Reserve(k, src0, n)
  BY <1>8, <1>9, <1>10, <1>11 DEF Kept!Reserve
<1> QED BY <1>8, <1>12 DEF Kept!Next

LEMMA InsertReserves ==
  ASSUME KInv, NEW s \in Sessions, Insert(s), ~Exists(sess[s].key)
  PROVE  Kept!Next
<1> DEFINE new == [purpose |-> "refund", status |-> "pending", amount |-> sess[s].amount,
                   parent |-> sess[s].src, gwStatus |-> "pending"]
<1>1. /\ sess[s].key \in Keys /\ sess[s].src \in Sources /\ sess[s].amount \in Nat
      /\ gw[sess[s].key] = "none" /\ rows[sess[s].key].status = "pending"
      /\ rows' = [rows EXCEPT ![sess[s].key] = new] /\ UNCHANGED gw
  BY DEF Insert, KInv, IInv, RequestsOK, RequestOK, TypeOK, SessionState, GatewayOK, Answers
<1>2. SumOf(rows, ReservedOf(sess[s].src)) + sess[s].amount <= SourceAmount[sess[s].src]
  BY <1>1 DEF KInv, Headroom, Inserting, Insert
<1>3. /\ new.amount = sess[s].amount /\ new.parent = sess[s].src
      /\ new.status = "pending" /\ new.purpose # "absent"
  OBVIOUS
<1> HIDE DEF new
<1> QED BY <1>1, <1>2, <1>3, RowReserves

(* The gateway moves the money of one refund, or takes note of it.         *)
LEMMA GatewayKeeps ==
  ASSUME KInv, NEW k \in Keys, Exists(k), gw[k] \in {"none", "pending"},
         NEW status \in Outcomes, gw' = [gw EXCEPT ![k] = status], UNCHANGED rows
  PROVE  [Kept!Next]_(Kept!vars)
<1>0. /\ gw'[k] = status /\ \A j \in Keys \ {k} : gw'[j] = gw[j]
      /\ MoneyOf[k] = "reserved" /\ UNCHANGED <<SourceOf, AmountOf, WordOf>>
  BY DEF KInv, IInv, TypeOK, MoneyOf, SourceOf, AmountOf, WordOf, Exists
<1>1. CASE status = "pending"
  <2>1. UNCHANGED MoneyOf
    BY <1>0, <1>1 DEF MoneyOf, Exists
  <2>2. \A src \in Sources : ReservedOf(src)' = ReservedOf(src)
    BY <1>0, <1>1 DEF ReservedOf, Exists
  <2>3. UNCHANGED LeftOf
    BY <2>2 DEF LeftOf
  <2> QED BY <1>0, <2>1, <2>3 DEF Kept!vars
<1>2. CASE status = "processed"
  <2>1. MoneyOf' = [MoneyOf EXCEPT ![k] = "returned"]
    BY <1>0, <1>2 DEF MoneyOf, Exists
  <2>2. \A src \in Sources : ReservedOf(src)' = ReservedOf(src)
    BY <1>0, <1>2 DEF ReservedOf, Exists
  <2>3. UNCHANGED LeftOf
    BY <2>2 DEF LeftOf
  <2>4. Kept!Return(k)
    BY <1>0, <2>1, <2>3 DEF Kept!Return
  <2> QED BY <2>4 DEF Kept!Next
<1>3. CASE status = "failed"
  <2> DEFINE src0 == rows[k].parent
             n == rows[k].amount
  <2>0. src0 \in Sources /\ n \in Nat /\ SourceOf[k] = src0 /\ AmountOf[k] = n
    BY KeyFacts DEF SourceOf, AmountOf
  <2>1. MoneyOf' = [MoneyOf EXCEPT ![k] = "refused"]
    BY <1>0, <1>3 DEF MoneyOf, Exists
  <2>2. \A src \in Sources : ReservedOf(src)' = ReservedOf(src) \ {k}
    BY <1>0, <1>3 DEF ReservedOf, Exists
  <2>3. \A src \in Sources : k \in ReservedOf(src) <=> src = src0
    BY <2>0 DEF ReservedOf
  <2>4. SumOf(rows, ReservedOf(src0)) = n + SumOf(rows, ReservedOf(src0) \ {k})
    <3>1. \A r \in ReservedOf(src0) : rows[r].amount \in Nat
      BY <2>0, ReservedFacts DEF KInv, IInv, TypeOK, Row
    <3> QED BY <2>0, <2>3, <3>1, ReservedFacts, SumTakeOut
  <2>5. SumOf(rows, ReservedOf(src0) \ {k}) \in Nat
    BY <2>0, ReservedFacts, RowSums DEF KInv, IInv
  <2>6. LeftOf' = [LeftOf EXCEPT ![src0] = @ + n]
    <3>1. ASSUME NEW src \in Sources
          PROVE  SourceAmount[src] - SumOf(rows, ReservedOf(src)')
                   = IF src = src0 THEN LeftOf[src] + n ELSE LeftOf[src]
      <4>0. ReservedOf(src)' = ReservedOf(src) \ {k}
        BY <1>0, <1>3 DEF ReservedOf, Exists
      <4>1. CASE src = src0
        <5>1. SumOf(rows, ReservedOf(src)) = n + SumOf(rows, ReservedOf(src)')
          BY <2>4, <4>0, <4>1
        <5>2. SumOf(rows, ReservedOf(src)') \in Nat /\ SourceAmount[src] \in Nat
          BY <2>5, <4>0, <4>1, ReservedFacts
        <5>3. LeftOf[src] = SourceAmount[src] - SumOf(rows, ReservedOf(src))
          BY DEF LeftOf
        <5> QED BY <2>0, <4>1, <5>1, <5>2, <5>3
      <4>2. CASE src # src0
        <5>1. k \notin ReservedOf(src)
          BY <2>3, <4>2
        <5>2. ReservedOf(src) \ {k} = ReservedOf(src)
          BY <5>1
        <5> QED BY <4>0, <4>2, <5>2 DEF LeftOf
      <4> QED BY <4>1, <4>2
    <3> QED BY <2>0, <3>1 DEF LeftOf
  <2>7. Kept!Refuse(k)
    BY <1>0, <2>0, <2>1, <2>6 DEF Kept!Refuse
  <2> QED BY <2>7 DEF Kept!Next
<1> QED BY <1>1, <1>2, <1>3 DEF Outcomes

(* The gateway's word reaches a row, and never but once it is paid.        *)
LEMMA FlushSays ==
  ASSUME KInv, NEW k \in Keys, Exists(k),
         NEW seen \in Row, seen.status \in {"pending", "paid", "failed"},
         seen.status = "paid" => gw[k] = "processed",
         seen.status = "failed" => gw[k] = "failed",
         NEW outcome \in Outcomes,
         outcome = "processed" => gw[k] = "processed",
         outcome = "failed" => gw[k] = "failed",
         seen.status = "failed" => outcome = "failed" \/ Reordered,
         ReconcileRow(k, seen, outcome), UNCHANGED <<gw, sent>>
  PROVE  [Kept!Next]_(Kept!vars)
<1>0. SameRows /\ \A j \in Keys \ {k} : rows'[j] = rows[j]
  BY FlushSameRows, HonestFlush DEF ReconcileRow, KInv
<1>1. UNCHANGED <<LeftOf, SourceOf, AmountOf, MoneyOf>>
  BY <1>0, RowsTouchedKeepLeft
<1> DEFINE status == StatusAfter(seen, outcome)
<1>2. rows'[k].status = IF status = seen.status THEN rows[k].status ELSE status
  BY KeyFacts DEF ReconcileRow, Flush, KInv, IInv, TypeOK, Row
<1>3. /\ status \in {"paid", "failed", "pending"}
      /\ status = "paid" <=> outcome = "processed" \/ seen.status = "paid"
      /\ status = "failed" => outcome = "failed"
      /\ outcome = "failed" /\ seen.status # "paid" => status = "failed"
  BY StatusAfterFacts
<1>4. /\ rows[k].status = "paid" => rows'[k].status = "paid"
  BY HonestFlush DEF KInv
<1>5. WordOf' = [WordOf EXCEPT ![k] = rows'[k].status] /\ WordOf[k] = rows[k].status
  BY <1>0 DEF WordOf
<1>6. CASE rows'[k].status = rows[k].status
  <2>1. UNCHANGED WordOf
    BY <1>5, <1>6 DEF WordOf
  <2> QED BY <1>1, <2>1 DEF Kept!vars
<1>7. CASE rows'[k].status # rows[k].status
  <2>1. rows[k].status # "paid" /\ rows'[k].status = status /\ status # seen.status
    BY <1>2, <1>4, <1>7
  <2>2. /\ status = "paid" => MoneyOf[k] = "returned"
        /\ status = "failed" => MoneyOf[k] = "refused"
        /\ status = "pending" => Reordered
    BY <1>3, <2>1 DEF MoneyOf
  <2>3. Kept!Say(k, status)
    BY <1>1, <1>3, <1>5, <2>1, <2>2 DEF Kept!Say
  <2> QED BY <1>3, <2>3 DEF Kept!Next
<1> QED BY <1>6, <1>7

(* Every step of the requests, the gateway and the webhooks is a step of   *)
(* ReservedRefunds, or none.                                               *)
LEMMA StepKeepsRefunds ==
  ASSUME HttpErrors = {}, KInv, [Next]_vars
  PROVE  [Kept!Next]_(Kept!vars)
<1>1. ASSUME \A k \in Keys : rows'[k] = rows[k], UNCHANGED gw
      PROVE  UNCHANGED Kept!vars
  <2>1. \A k \in Keys : Exists(k)' <=> Exists(k)
    BY <1>1 DEF Exists
  <2>2. ASSUME NEW src \in Sources
        PROVE  SumOf(rows', ReservedOf(src)') = SumOf(rows, ReservedOf(src))
    <3>1. ReservedOf(src)' = ReservedOf(src)
      BY <1>1, <2>1 DEF ReservedOf
    <3>2. \A r \in ReservedOf(src) : rows'[r].amount = rows[r].amount
      BY <1>1 DEF ReservedOf
    <3> QED BY <3>1, <3>2, ReservedFacts, SumAgrees
  <2>3. UNCHANGED LeftOf
    BY <2>2 DEF LeftOf
  <2>4. UNCHANGED <<SourceOf, AmountOf, MoneyOf, WordOf>>
    BY <1>1, <2>1 DEF SourceOf, AmountOf, MoneyOf, WordOf
  <2> QED BY <2>3, <2>4 DEF Kept!vars
<1>2. ASSUME NEW s \in Sessions, Insert(s) PROVE [Kept!Next]_(Kept!vars)
  <2>1. CASE Exists(sess[s].key)
    BY <1>1, <1>2, <2>1 DEF Insert
  <2>2. CASE ~Exists(sess[s].key)
    BY <1>2, <2>2, InsertReserves
  <2> QED BY <2>1, <2>2
<1>3. ASSUME NEW k \in Keys, Exists(k), NEW status \in Outcomes, Accepted(k, status), UNCHANGED rows
      PROVE  [Kept!Next]_(Kept!vars)
  BY <1>1, <1>3, GatewayKeeps DEF Accepted, Created
<1>4. ASSUME NEW s \in Sessions, Answered(s) \/ TimedOut(s) PROVE [Kept!Next]_(Kept!vars)
  <2>1. sess[s].key \in Keys /\ Exists(sess[s].key) /\ UNCHANGED rows
    BY <1>4 DEF Answered, TimedOut, KInv, IInv, RequestsOK, RequestOK
  <2> QED BY <1>3, <1>4, <2>1 DEF Answered, TimedOut
<1>5. ASSUME NEW s \in Sessions, Refused(s) \/ RecordRefusal(s) PROVE FALSE
  BY <1>5 DEF Refused, RecordRefusal, KInv, FailedIsFinal
<1>6. ASSUME NEW s \in Sessions, ReconcileAnswer(s) PROVE [Kept!Next]_(Kept!vars)
  <2>1. /\ sess[s].pc = "reconcile"
        /\ ReconcileRow(sess[s].key, sess[s].val, sess[s].resp) /\ UNCHANGED <<gw, sent>>
    BY <1>6 DEF ReconcileAnswer
  <2>2. /\ sess[s].key \in Keys /\ Exists(sess[s].key)
        /\ sess[s].val \in Row /\ sess[s].val.status \in {"pending", "paid", "failed"}
        /\ sess[s].val.status = "failed" => gw[sess[s].key] = "failed"
        /\ sess[s].resp \in Outcomes
        /\ sess[s].resp = "failed" => gw[sess[s].key] = "failed"
    BY <1>6, ReconcileIsHonest DEF KInv
  <2>3. /\ sess[s].val.status = "paid" => gw[sess[s].key] = "processed"
        /\ sess[s].resp = "processed" => gw[sess[s].key] = "processed"
        /\ sess[s].val.status = "failed" => sess[s].resp = "failed"
    BY <2>1 DEF KInv, IInv, RequestsOK, RequestOK, Answers
  <2> QED BY <2>1, <2>2, <2>3, FlushSays
<1>7. ASSUME NEW k \in Keys, NEW outcome \in Outcomes, RefundWebhook(k, outcome)
      PROVE  [Kept!Next]_(Kept!vars)
  <2>1. ReconcileRow(k, rows[k], outcome) /\ UNCHANGED <<gw, sent>>
        /\ outcome \in sent[k] /\ (Reordered \/ outcome = gw[k])
    BY <1>7 DEF RefundWebhook
  <2>2. /\ Exists(k) /\ rows[k] \in Row
        /\ rows[k].status \in {"pending", "paid", "failed"}
        /\ rows[k].status = "failed" => gw[k] = "failed"
        /\ outcome = "failed" => gw[k] = "failed"
    BY <1>7, ReconcileIsHonest DEF KInv
  <2>3. /\ rows[k].status = "paid" => gw[k] = "processed"
        /\ outcome = "processed" => gw[k] = "processed"
        /\ rows[k].status = "failed" => outcome = "failed" \/ Reordered
    BY <2>1, <2>2 DEF KInv, IInv, PaidRefundIsProcessed, GatewayOK
  <2> QED BY <2>1, <2>2, <2>3, FlushSays
<1>8. ASSUME NEW s \in Sessions, InsertManualRefund(s) PROVE UNCHANGED Kept!vars
  <2>1. \A k \in Keys : rows'[k] = rows[k]
    BY <1>8 DEF InsertManualRefund, KInv, IInv, TypeOK, Ids
  <2> QED BY <1>1, <1>8, <2>1 DEF InsertManualRefund
<1>9. ASSUME NEW k \in Keys, Settle(k) PROVE [Kept!Next]_(Kept!vars)
  <2>1. gw[k] = "pending" /\ Exists(k) /\ UNCHANGED rows
    BY <1>9 DEF Settle, KInv, IInv, GatewayOK
  <2>2. \E status \in Outcomes : gw' = [gw EXCEPT ![k] = status]
    BY <1>9 DEF Settle, Outcomes
  <2> QED BY <2>1, <2>2, GatewayKeeps
<1>10. CASE UNCHANGED <<rows, gw>>
  BY <1>1, <1>10
<1> QED
  BY <1>2, <1>4, <1>5, <1>6, <1>7, <1>8, <1>9, <1>10
  DEF Next, vars, Lookup, Approve, Refresh, LookupAgain, ReadManualRefund, Abort

(* As long as the gateway answers no request with an HTTP error, the        *)
(* endpoint, the webhooks and the gateway implement ReservedRefunds: what   *)
(* is set aside for refunds never exceeds a payment, money goes back once   *)
(* and from what was set aside, "paid" and "failed" are said of refunds the *)
(* gateway processed and failed, and "paid" is the last word.               *)
THEOREM RefundsImplementReserved ==
  ASSUME HttpErrors = {}
  PROVE  Spec => RefundsAreKept
<1>1. ASSUME Init PROVE Kept!Init
  <2>1. /\ \A k \in Keys : rows[k] = Absent /\ ~Exists(k) /\ gw[k] = "none"
        /\ Absent.parent = NoRow /\ Absent.amount = 0 /\ Absent.status = "pending"
    BY <1>1 DEF Init, Ids, Absent, Exists
  <2>2. \A src \in Sources : ReservedOf(src) = {}
    BY <2>1 DEF ReservedOf
  <2>3. \A src \in Sources : SumOf(rows, ReservedOf(src)) = 0 /\ SourceAmount[src] \in Nat
    BY <2>2, SumEmpty
  <2>4. LeftOf = [src \in Sources |-> SourceAmount[src]]
    BY <2>3 DEF LeftOf
  <2>5. /\ SourceOf = [k \in Keys |-> NoRow] /\ AmountOf = [k \in Keys |-> 0]
        /\ WordOf = [k \in Keys |-> "pending"] /\ MoneyOf = [k \in Keys |-> "free"]
    BY <2>1 DEF SourceOf, AmountOf, WordOf, MoneyOf
  <2> QED BY <2>4, <2>5 DEF Kept!Init
<1>2. Init => KInv
  BY InitIInv, InitFailedIsFinal, InitHeadroom, InitAnswers DEF KInv
<1>3. KInv /\ [Next]_vars => KInv'
  BY NextKInv
<1>4. KInv /\ [Next]_vars => [Kept!Next]_(Kept!vars)
  BY StepKeepsRefunds
<1> QED BY <1>1, <1>2, <1>3, <1>4, PTL DEF Spec, RefundsAreKept, Kept!Spec
=============================================================================
