------------------------------- MODULE Payroll -------------------------------
(***************************************************************************)
(* Paying workers for attendance: the attendance records of                *)
(* api/worker_attendance.py and api/admin_attendance.py, the payroll runs  *)
(* of api/admin_payroll.py and services/payroll_service.py, and the        *)
(* payouts of api/admin_finance.py and api/admin_worker_payments.py.       *)
(*                                                                         *)
(* No endpoint locks a row.  As in Staffing a request is two steps: the    *)
(* first reads, decides and leaves in the session the columns it changed   *)
(* and the rows it inserts, the second commits them onto the tables as     *)
(* they then are.  Correcting a record is two such transactions, the       *)
(* second of which marks the payroll items computed from the record.       *)
(***************************************************************************)
EXTENDS Integers, FiniteSets

CONSTANTS
  Asgs,           \* assignments get_active_assignments returns
  Rate,           \* Rate[a]: salary_amount, the daily rate of the worker
  Runs, Payouts,  \* rows the two tables may come to have
  LastDay,
  Periods,        \* pairs of period_start and period_end
  Corrections,    \* the attendance statuses corrections choose from
  Amounts,        \* amounts of deductions and of payouts entered by hand
  MaxDeducted,    \* bound on the sum of the deductions of an item
  Callers,        \* sessions of workers and administrators
  Calls           \* Calls[s]: the endpoints that caller s calls

Endpoints == {"attend", "review", "correct", "run", "generate", "deduct", "recalculate",
              "status", "payout", "paid", "record"}

Days == 1..LastDay

AttendanceStatuses == {"present", "absent", "half_day", "late", "approved", "corrected",
                       "no_show", "excused"}
RunStatuses        == {"draft", "generated", "approved", "paid", "locked"}
PayoutStatuses     == {"pending", "processing", "paid", "failed"}

ASSUME PayrollAssumption ==
  /\ LastDay \in Nat
  /\ Rate \in [Asgs -> Nat]
  /\ \A p \in Periods : p[1] \in Days /\ p[2] \in Days /\ p[1] <= p[2]
  /\ Corrections \subseteq AttendanceStatuses
  /\ Amounts \subseteq Nat /\ MaxDeducted \in Nat
  /\ Calls \in [Callers -> SUBSET Endpoints]

VARIABLES
  att,      \* attendance rows by <<assignment, day>>
  runs,     \* payroll_runs
  items,    \* payroll_items by <<run, assignment>>, which is unique
  deducted, \* per item, the sum of its worker_deductions rows
  payouts,  \* worker_payouts
  unit      \* units of work of the requests in flight

payrollVars == <<att, runs, items, deducted, payouts, unit>>

-----------------------------------------------------------------------------
(* services/payroll_service.py.  The three day counts of an item are kept  *)
(* as the records they tally, a function from days to statuses.            *)
Records(a, days) ==
  [d \in {e \in days : <<a, e>> \in DOMAIN att} |-> att[<<a, d>>].status]

Tally(basis, states) == Cardinality({d \in DOMAIN basis : basis[d] \in states})

PresentStatuses(strict) ==
  {"approved", "corrected"} \cup (IF strict THEN {} ELSE {"present", "late"})

(* int(round(n / 2)): Python rounds a half to the even neighbour.          *)
HalfRounded(n) == n \div 2 + (IF n % 4 = 3 THEN 1 ELSE 0)

GrossAmount(a, basis, strict) ==
  HalfRounded(2 * Rate[a] * Tally(basis, PresentStatuses(strict))
              + Rate[a] * Tally(basis, {"half_day"}))

NetAmount(gross, deductions) == IF deductions < gross THEN gross - deductions ELSE 0

(* platform_margin is left out: only reports read it.                      *)
BuildItem(a, basis, gross) ==
  [basis |-> basis, gross |-> gross, deductions |-> 0, net |-> gross,
   stale |-> FALSE, paid |-> FALSE]

Deducted(i)   == IF i \in DOMAIN deducted THEN deducted[i] ELSE 0
DaysOf(r)     == runs[r].from..runs[r].to
ItemsOf(r)    == {k \in DOMAIN items : k[1] = r}
PayoutsOf(k)  == {p \in DOMAIN payouts : payouts[p].item = k}
Covering(a, d) == {k \in DOMAIN items : k[2] = a /\ d \in DaysOf(k[1])}
Locked(r)     == runs[r].status = "locked"

-----------------------------------------------------------------------------
(* Units of work: per table, rows inserted and columns changed, by key.    *)
NoWrites == [att |-> <<>>, runs |-> <<>>, items |-> <<>>, deducted |-> <<>>, payouts |-> <<>>]

At(k, v) == [x \in {k} |-> v]

(* An attribute set to the value it was loaded with is not written.        *)
Changes(old, new) == [c \in {c \in DOMAIN old : old[c] # new[c]} |-> new[c]]

Idle == [pc |-> "idle", writes |-> NoWrites, corrected |-> <<>>]

Serve(s, endpoint) == unit[s].pc = "idle" /\ endpoint \in Calls[s]

Propose(s, writes) ==
  /\ unit' = [unit EXCEPT ![s].pc = "commit", ![s].writes = writes]
  /\ UNCHANGED <<att, runs, items, deducted, payouts>>

(* Keys come from sequences: a row in flight already has its own.          *)
NewRuns    == {r \in Runs \ DOMAIN runs : \A s \in Callers : r \notin DOMAIN unit[s].writes.runs}
NewPayouts == {p \in Payouts \ DOMAIN payouts :
                 \A s \in Callers : p \notin DOMAIN unit[s].writes.payouts}

PayrollInit ==
  /\ att = <<>> /\ runs = <<>> /\ items = <<>> /\ deducted = <<>> /\ payouts = <<>>
  /\ unit = [s \in Callers |-> Idle]

-----------------------------------------------------------------------------
(* Attendance: a check-in or a half-day report, at most one a day, which   *)
(* looks at no payroll run; the admin's review; and the correction.        *)
Attend(s, a, d, status) ==
  /\ Serve(s, "attend")
  /\ <<a, d>> \notin DOMAIN att
  /\ Propose(s, [NoWrites EXCEPT !.att = At(<<a, d>>, [status |-> status, approval |-> "pending"])])

CheckIn(s, a, d) == Attend(s, a, d, "present")
HalfDay(s, a, d) == Attend(s, a, d, "half_day")

Review(s, k, approval) ==
  /\ Serve(s, "review")
  /\ att[k].approval # approval
  /\ Propose(s, [NoWrites EXCEPT !.att = At(k, [approval |-> approval])])

Approve(s, k) == Review(s, k, "approved")
Reject(s, k)  == Review(s, k, "rejected")

Correct(s, k, status) ==
  /\ Serve(s, "correct")
  /\ \A i \in Covering(k[1], k[2]) : ~Locked(i[1])
  /\ unit' = [unit EXCEPT ![s] =
       [pc |-> "commit", corrected |-> k,
        writes |-> [NoWrites EXCEPT
          !.att = At(k, Changes(att[k], [att[k] EXCEPT !.status = status]))]]]
  /\ UNCHANGED <<att, runs, items, deducted, payouts>>

(* Seeded fault: "open payroll items" is read as the unpaid ones.          *)
UnpaidCovering(a, d) == {k \in Covering(a, d) : ~items[k].paid}

ToMark(a, d) == Covering(a, d)

(* The second transaction of a correction.                                 *)
MarkStale(s) ==
  LET k == unit[s].corrected
  IN
  /\ unit[s].pc = "mark"
  /\ unit' = [unit EXCEPT ![s].pc = "marked", ![s].writes =
       [NoWrites EXCEPT !.items =
          [i \in ToMark(k[1], k[2]) |-> Changes(items[i], [items[i] EXCEPT !.stale = TRUE])]]]
  /\ UNCHANGED <<att, runs, items, deducted, payouts>>

-----------------------------------------------------------------------------
(* Payroll runs.  Nothing keeps the periods of two runs apart.             *)
CreateRun(s, r, period, strict) ==
  /\ Serve(s, "run")
  /\ Propose(s, [NoWrites EXCEPT !.runs =
       At(r, [status |-> "draft", strict |-> strict, from |-> period[1], to |-> period[2],
              auto |-> FALSE])])

Generate(s, r) ==
  /\ Serve(s, "generate")
  /\ ~Locked(r)
  /\ ItemsOf(r) = {}
  /\ Propose(s, [NoWrites EXCEPT
       !.runs  = At(r, Changes(runs[r], [runs[r] EXCEPT !.status = "generated"])),
       !.items = [k \in {r} \X Asgs |->
                    LET basis == Records(k[2], DaysOf(r))
                    IN  BuildItem(k[2], basis, GrossAmount(k[2], basis, runs[r].strict))]])

(* recalculate_payroll_item, from the deductions a query returns; in the   *)
(* seeded fault the new one is not flushed before the query.               *)
RecalculatedUnflushed(i, added) ==
  [items[i] EXCEPT !.deductions = deducted[i], !.net = NetAmount(items[i].gross, deducted[i])]

Recalculated(i, added) ==
  LET total == deducted[i] + added
  IN  [items[i] EXCEPT !.deductions = total, !.net = NetAmount(items[i].gross, total)]

(* Paid items accept deductions too.                                       *)
AddDeduction(s, i, amount) ==
  /\ Serve(s, "deduct")
  /\ ~Locked(i[1])
  /\ deducted[i] + amount <= MaxDeducted
  /\ Propose(s, [NoWrites EXCEPT !.items = At(i, Changes(items[i], Recalculated(i, amount))),
                             !.deducted = At(i, amount)])

(* Seeded fault: a paid item is recalculated like any other.               *)
MayRecalculateStale(i) == items[i].stale /\ ~Locked(i[1])

MayRecalculate(i) == items[i].stale /\ ~items[i].paid /\ ~Locked(i[1])

RecalculateItem(s, i) ==
  LET basis == Records(i[2], DaysOf(i[1]))
      gross == GrossAmount(i[2], basis, runs[i[1]].strict)
  IN
  /\ Serve(s, "recalculate")
  /\ MayRecalculate(i)
  /\ Propose(s, [NoWrites EXCEPT !.items = At(i, Changes(items[i],
       [items[i] EXCEPT !.basis = basis, !.gross = gross, !.deductions = deducted[i],
                        !.net = NetAmount(gross, deducted[i]), !.stale = FALSE]))])

(* Any status may follow any other, except that "locked" stays.            *)
SetRunStatus(s, r, status) ==
  /\ Serve(s, "status")
  /\ Locked(r) => status = "locked"
  /\ Propose(s, [NoWrites EXCEPT !.runs = At(r, Changes(runs[r], [runs[r] EXCEPT !.status = status]))])

-----------------------------------------------------------------------------
(* Payouts.  The amount of one is compared with the net amount, not the    *)
(* sum of all.                                                             *)
CreatePayout(s, p, i, amount) ==
  /\ Serve(s, "payout")
  /\ amount <= items[i].net
  /\ Propose(s, [NoWrites EXCEPT !.payouts =
                At(p, [item |-> i, amount |-> amount, status |-> "pending"])])

SetPayoutStatus(s, p, status) ==
  LET i == payouts[p].item
  IN
  /\ Serve(s, "payout")
  /\ Propose(s, [NoWrites EXCEPT
       !.payouts = At(p, Changes(payouts[p], [payouts[p] EXCEPT !.status = status])),
       !.items   = IF status = "paid"
                   THEN At(i, Changes(items[i], [items[i] EXCEPT !.paid = TRUE])) ELSE <<>>])

(* Seeded fault: an item with nothing to pay gets no payout row.           *)
WorthPaying(r) == {i \in ItemsOf(r) : ~items[i].paid /\ items[i].net > 0}

ToPay(r) == {i \in ItemsOf(r) : ~items[i].paid}

(* POST /payroll-queue/{run}/mark-paid: a payout for every unpaid item,    *)
(* whatever payouts it has; a locked run is paid, and unlocked, as well.   *)
MarkRunPaid(s, r) ==
  /\ Serve(s, "paid")
  /\ runs[r].status # "paid"
  /\ ItemsOf(r) # {}
  /\ \E row \in [ToPay(r) -> NewPayouts] :
       /\ \A i, j \in ToPay(r) : i # j => row[i] # row[j]
       /\ Propose(s, [NoWrites EXCEPT
            !.runs    = At(r, [status |-> "paid"]),
            !.items   = [i \in {j \in ItemsOf(r) : ~items[j].paid} |-> [paid |-> TRUE]],
            !.payouts = [p \in {row[i] : i \in ToPay(r)} |->
                           LET i == CHOOSE j \in ToPay(r) : row[j] = p
                           IN  [item |-> i, amount |-> items[i].net, status |-> "paid"]]])

(* POST /requirements/{id}/worker-payments: a run of its own for the       *)
(* requirement, made by its first payment, with an item made from all the  *)
(* attendance of the assignment and overwritten by the amount paid.  Two   *)
(* runs of its own make the lookup raise; an item already there always has *)
(* its payout, so finding one refuses the payment.                         *)
RecordWorkerPayment(s, a, r, p, amount) ==
  LET own == {x \in DOMAIN runs : runs[x].auto}
      new == {r} \ own
  IN
  /\ Serve(s, "record")
  /\ IF own = {} THEN r \in NewRuns ELSE own = {r}
  /\ <<r, a>> \notin DOMAIN items
  /\ Propose(s, [NoWrites EXCEPT
       !.runs    = [x \in new |-> [status |-> "generated", strict |-> FALSE,
                                   from |-> 1, to |-> LastDay, auto |-> TRUE]],
       !.items   = At(<<r, a>>, [BuildItem(a, Records(a, Days), amount) EXCEPT !.paid = TRUE]),
       !.payouts = At(p, [item |-> <<r, a>>, amount |-> amount, status |-> "completed"])])

-----------------------------------------------------------------------------
(* The commit.  A row inserted twice breaks uq_attendance_assignment_date  *)
(* or uq_payroll_item_run_assignment, and its request dies.                *)
Collides(table, writes) ==
  \E k \in DOMAIN table \cap DOMAIN writes : DOMAIN writes[k] = DOMAIN table[k]

Overwritten(row, columns) ==
  [c \in DOMAIN row \cup DOMAIN columns |-> IF c \in DOMAIN columns THEN columns[c] ELSE row[c]]

Apply(table, writes) ==
  [k \in DOMAIN table \cup DOMAIN writes |->
     IF k \notin DOMAIN writes THEN table[k]
     ELSE IF k \notin DOMAIN table THEN writes[k]
     ELSE Overwritten(table[k], writes[k])]

CommitUnit(s) ==
  LET w == unit[s].writes
  IN
  /\ unit[s].pc \in {"commit", "marked"}
  /\ ~Collides(att, w.att) /\ ~Collides(items, w.items)
  /\ att'      = Apply(att, w.att)
  /\ runs'     = Apply(runs, w.runs)
  /\ items'    = Apply(items, w.items)
  /\ payouts'  = Apply(payouts, w.payouts)
  /\ deducted' = [i \in DOMAIN items' |->
                    Deducted(i) + IF i \in DOMAIN w.deducted THEN w.deducted[i] ELSE 0]
  /\ unit' = [unit EXCEPT ![s] =
       IF unit[s].pc = "commit" /\ unit[s].corrected # <<>>
       THEN [pc |-> "mark", corrected |-> unit[s].corrected, writes |-> NoWrites]
       ELSE Idle]

(* The request dies before its commit.  (A correction is taken to reach    *)
(* its second transaction; nothing in the code makes up for it otherwise.) *)
DropUnit(s) ==
  /\ unit[s].pc = "commit"
  /\ unit' = [unit EXCEPT ![s] = Idle]
  /\ UNCHANGED <<att, runs, items, deducted, payouts>>

PayrollNext ==
  \E s \in Callers :
    \/ \E a \in Asgs, d \in Days : CheckIn(s, a, d) \/ HalfDay(s, a, d)
    \/ \E k \in DOMAIN att :
         \/ Approve(s, k) \/ Reject(s, k)
         \/ \E status \in Corrections : Correct(s, k, status)
    \/ MarkStale(s)
    \/ \E r \in NewRuns, period \in Periods, strict \in BOOLEAN : CreateRun(s, r, period, strict)
    \/ \E r \in DOMAIN runs :
         \/ Generate(s, r)
         \/ \E status \in RunStatuses : SetRunStatus(s, r, status)
         \/ MarkRunPaid(s, r)
    \/ \E i \in DOMAIN items :
         \/ \E amount \in Amounts : AddDeduction(s, i, amount)
         \/ RecalculateItem(s, i)
         \/ \E p \in NewPayouts, amount \in Amounts : CreatePayout(s, p, i, amount)
    \/ \E p \in DOMAIN payouts, status \in PayoutStatuses : SetPayoutStatus(s, p, status)
    \/ \E a \in Asgs, r \in Runs, p \in NewPayouts, amount \in Amounts :
         RecordWorkerPayment(s, a, r, p, amount)
    \/ CommitUnit(s)
    \/ DropUnit(s)

PayrollSpec == PayrollInit /\ [][PayrollNext]_payrollVars

-----------------------------------------------------------------------------
PayrollTypeOK ==
  /\ DOMAIN att \subseteq Asgs \X Days
  /\ \A k \in DOMAIN att :
       att[k].status \in AttendanceStatuses /\ att[k].approval \in {"pending", "approved", "rejected"}
  /\ DOMAIN runs \subseteq Runs /\ \A r \in DOMAIN runs : runs[r].status \in RunStatuses
  /\ DOMAIN items \subseteq (DOMAIN runs) \X Asgs
  /\ \A i \in DOMAIN items :
       /\ items[i].gross \in Nat /\ items[i].net \in Nat /\ items[i].deductions \in Nat
       /\ items[i].stale \in BOOLEAN /\ items[i].paid \in BOOLEAN
  /\ deducted \in [DOMAIN items -> Nat]
  /\ DOMAIN payouts \subseteq Payouts /\ \A p \in DOMAIN payouts : payouts[p].item \in DOMAIN items
  /\ \A s \in Callers : unit[s].pc \in {"idle", "commit", "mark", "marked"}

(* "Mark any open payroll items for this assignment/period as stale": an   *)
(* item that carries no mark tallies the records it was computed from as   *)
(* they are now, unless a correction is between its two transactions.      *)
BeingMarked(a, d) == \E s \in Callers : unit[s].pc \in {"mark", "marked"} /\ unit[s].corrected = <<a, d>>

CorrectionReachesItems ==
  \A i \in DOMAIN items : ~items[i].stale =>
    \A d \in DOMAIN items[i].basis :
      items[i].basis[d] # att[<<i[2], d>>].status => BeingMarked(i[2], d)

(* The net amount of an item is its gross amount less all its deduction    *)
(* rows, and never below zero, through generation, recalculation and       *)
(* payments entered by hand.                                               *)
NetFollowsDeductions ==
  \A i \in DOMAIN items :
    /\ items[i].deductions = deducted[i]
    /\ items[i].net = NetAmount(items[i].gross, deducted[i])

(* "Cannot recalculate a paid payroll item": what a worker was paid for    *)
(* stays on record, whatever attendance is corrected afterwards.           *)
PaidGrossStands ==
  [][\A i \in DOMAIN items : items[i].paid =>
       items'[i].paid /\ items'[i].gross = items[i].gross /\ items'[i].basis = items[i].basis]_payrollVars

(* An item shown to the worker as paid has a payout to show for it.        *)
PaidItemHasPayout ==
  \A i \in DOMAIN items : items[i].paid => PayoutsOf(i) # {}
=============================================================================
