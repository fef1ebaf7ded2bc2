------------------------------ MODULE MoneyDesk ------------------------------
(***************************************************************************)
(* Two pages about money.  The page of a payroll run generates its items,   *)
(* moves the run, deducts, recalculates and pays out                        *)
(* (features/payroll, features/finance).  The finance page confirms what    *)
(* clients say they paid and pays out a whole run                           *)
(* (app/(dashboard)/finance/page.tsx).                                      *)
(***************************************************************************)
EXTENDS ScreenHandlers

RunStatuses    == {"draft", "generated", "approved", "paid", "locked"}
PayoutStatuses == {"pending", "processing", "paid", "failed"}
Payouts        == {1, 2}                   \* bound on the payouts of an item
Purposes       == {"advance", "balance"}

(* `item' is the run's one item; its amounts stay out, but for a deduction. *)
PayrollRows ==
  [about : {"payroll"}, run : RunStatuses, item : {"none", "unpaid", "paid"}, stale : BOOLEAN,
   cut : BOOLEAN, payout : [Payouts -> PayoutStatuses \cup {"none"}]]

(* A payment of each purpose, and the run as the queue shows it; `fits' is  *)
(* whether the ledger would take the advance.                               *)
FinanceRows ==
  [about : {"finance"}, pay : [Purposes -> {"none", "pending", "paid", "failed"}],
   fits : BOOLEAN, run : RunStatuses, item : {"none", "unpaid", "paid"}]

MoneyRows == PayrollRows \cup FinanceRows

MoneyStarts ==
  {[about |-> "payroll", run |-> "draft", item |-> "none", stale |-> FALSE, cut |-> FALSE,
    payout |-> [n \in Payouts |-> "none"]]}
    \cup {[about |-> "finance", pay |-> [p \in Purposes |-> "pending"], fits |-> fits,
           run |-> run, item |-> IF run = "draft" THEN "none" ELSE "unpaid"] :
            fits \in BOOLEAN, run \in {"draft", "approved"}}

MoneyQueries(row) ==
  IF row.about = "payroll"
  THEN [detail |-> {"run", "item", "stale", "cut"}, payouts |-> {"payout"}]
  ELSE [payments |-> {"pay"}, queue |-> {"run", "item"}]

-----------------------------------------------------------------------------
(* The page of a run.                                                       *)
IsLocked(row) == row.run = "locked"

HandleGeneratePayroll == Handler("generate_run", "none", {"detail"}, TRUE)
HandleUpdateRun(to)   == Handler("run_status", to, {"detail"}, TRUE)
HandleDeduct          == Handler("deduct", "none", {"detail"}, TRUE)
HandleRecalculate     == Handler("recalculate", "none", {"detail"}, TRUE)

(* The amount must be positive; nothing holds it against the net amount     *)
(* shown above.  The run is fetched again, the list of payouts is not.      *)
HandleCreatePayout ==
  {Handler("payout", amount, {"detail"}, TRUE) : amount \in {"zero", "within", "above"} \ {"zero"}}

HandleUpdatePayout(n, to) == Handler("payout_status", [payout |-> n, to |-> to], {"payouts"}, TRUE)

RunOffers(row) ==
  {HandleUpdateRun(to) : to \in RunStatuses} \cup When(~IsLocked(row), {HandleGeneratePayroll})

ItemOffers(row) ==
  When(row.item # "none",
       HandleCreatePayout
         \cup When(~IsLocked(row), {HandleDeduct})
         \cup When(row.stale /\ row.item # "paid" /\ ~IsLocked(row), {HandleRecalculate}))

PayoutOffers(row) ==
  When(row.item # "none",
       {HandleUpdatePayout(n, to) : n \in {m \in Payouts : row.payout[m] # "none"}, to \in PayoutStatuses})

-----------------------------------------------------------------------------
(* The finance page.                                                        *)
HandleConfirm   == Handler("confirm", "advance", {"payments"}, TRUE)
HandleRejectPay == Handler("reject_pay", "advance", {"payments"}, TRUE)
TransferQuietly   == Handler("transfer", "none", {"payments"}, TRUE)   \* seeded fault: the queue is not refetched
HandleTransferAll == Handler("transfer", "none", {"queue"}, TRUE)

IncomingOffers(row) == When(row.pay["advance"] = "pending", {HandleConfirm, HandleRejectPay})

QueueOffers(row) == When(row.run \notin {"draft", "paid"}, {HandleTransferAll})

MoneyOffers(row) ==
  IF row.about = "payroll"
  THEN RunOffers(row) \cup ItemOffers(row) \cup PayoutOffers(row)
  ELSE IncomingOffers(row) \cup QueueOffers(row)

MoneyShows(row) ==
  IF row.about = "finance" THEN {"payments", "queue"}
  ELSE {"detail"} \cup When(row.item # "none", {"payouts"})

-----------------------------------------------------------------------------
(* The server.                                                              *)
FreePayouts(row) == {n \in Payouts : row.payout[n] = "none"}

MoneyAccepts(row, h) ==
  CASE h.op = "generate_run"  -> ~IsLocked(row) /\ row.item = "none"
    [] h.op = "run_status"    -> IsLocked(row) => h.arg = "locked"
    [] h.op = "deduct"        -> row.item # "none" /\ ~IsLocked(row)
    [] h.op = "recalculate"   -> row.stale /\ row.item # "paid" /\ ~IsLocked(row)
    [] h.op = "payout"        -> h.arg = "within" /\ FreePayouts(row) # {}
    [] h.op = "payout_status" -> TRUE
    [] h.op = "confirm"       -> row.pay[h.arg] = "paid" \/ row.fits
    [] h.op = "reject_pay"    -> TRUE
    [] h.op = "transfer"      -> row.run # "paid" /\ row.item # "none"

MoneyAfter(row, h) ==
  CASE h.op = "generate_run"  -> [row EXCEPT !.run = "generated", !.item = "unpaid"]
    [] h.op = "run_status"    -> [row EXCEPT !.run = h.arg]
    [] h.op = "deduct"        -> [row EXCEPT !.cut = TRUE]
    [] h.op = "recalculate"   -> [row EXCEPT !.stale = FALSE]
    [] h.op = "payout"        -> [row EXCEPT !.payout[CHOOSE n \in FreePayouts(row) : \A m \in FreePayouts(row) : n <= m] = "pending"]
    [] h.op = "payout_status" -> [row EXCEPT !.payout[h.arg.payout] = h.arg.to,
                                             !.item = IF h.arg.to = "paid" THEN "paid" ELSE @]
    [] h.op = "confirm"       -> [row EXCEPT !.pay[h.arg] = "paid"]
    [] h.op = "reject_pay"    -> [row EXCEPT !.pay[h.arg] = "failed"]
    [] h.op = "transfer"      -> [row EXCEPT !.run = "paid", !.item = "paid"]

(* A correction of attendance makes an item stale.  A client reports a      *)
(* payment, the gateway fills the ledger before it is confirmed, and the    *)
(* page of the run gives it any status or generates its item.               *)
MoneyMoves(row) ==
  IF row.about = "payroll"
  THEN When(row.item # "none" /\ ~IsLocked(row), {[row EXCEPT !.stale = TRUE]})
  ELSE {[row EXCEPT !.fits = FALSE]}
         \cup {[row EXCEPT !.pay[p] = "pending"] : p \in {q \in Purposes : row.pay[q] = "failed"}}
         \cup When(~IsLocked(row), {[row EXCEPT !.run = to] : to \in RunStatuses})
         \cup When(~IsLocked(row) /\ row.item = "none", {[row EXCEPT !.run = "generated", !.item = "unpaid"]})

-----------------------------------------------------------------------------
(* Offered without a look at what the server will check: a second           *)
(* generation, a way out of the lock, a payout above the net amount, an     *)
(* advance the ledger has no room for, a run without items.                 *)
MoneyLoose(row) == {"generate_run", "run_status", "payout", "confirm", "transfer"}

(* A new payout is missing from the list below the form, and an item paid   *)
(* by its payout's status still reads unpaid above it.                      *)
MoneyMissed(op) ==
  CASE op = "payout"        -> {"payouts"}
    [] op = "payout_status" -> {"detail"}
    [] OTHER                -> {}
=============================================================================
