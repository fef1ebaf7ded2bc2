------------------------------ MODULE Invoices ------------------------------
(***************************************************************************)
(* GST invoices of completed requirements: a draft, then the issue, which  *)
(* takes the next number of the financial year (api/admin_invoice.py,      *)
(* services/gst_invoice_service.py, models/invoice.py).  A requirement has *)
(* at most one invoice that is not cancelled, and nothing cancels one.     *)
(***************************************************************************)
EXTENDS Quotes, FiniteSets

CONSTANTS
  Clerks,   \* requests of finance administrators
  YearOf    \* the financial year of each day

ASSUME InvoicesAssumption == YearOf \in [1..MaxDay -> Nat]

VARIABLES
  invoices, \* by requirement
  counter,  \* invoice_number_sequences.last_value, by year
  clerk     \* the requests under way, and with them the row locks

billVars == <<invoices, counter, clerk>>
vars     == <<quoteVars, billVars>>

Years   == {YearOf[d] : d \in 1..MaxDay}
Unbilled == [at |-> "none", year |-> 0, no |-> 0]
NoTask  == [pc |-> "idle", req |-> "none", year |-> 0, no |-> 0]

BillInit ==
  /\ invoices = [q \in Reqs |-> Unbilled]
  /\ counter = [y \in Years |-> 0]
  /\ clerk = [c \in Clerks |-> NoTask]

Take(c, task) == clerk' = [clerk EXCEPT ![c] = task]

-----------------------------------------------------------------------------
(* Seeded fault: a job still under way may be invoiced.                    *)
DraftBeforeTheEnd(c, q) ==
  /\ clerk[c].pc = "idle"
  /\ status[q] \in {"in_progress", "completed"} /\ Latest(q) > 0
  /\ invoices[q].at = "none"
  /\ Take(c, [NoTask EXCEPT !.pc = "draft", !.req = q])
  /\ UNCHANGED <<invoices, counter>>

GenerateInvoice(c, q) ==
  /\ clerk[c].pc = "idle"
  /\ status[q] = "completed" /\ Latest(q) > 0
  /\ invoices[q].at = "none"
  /\ Take(c, [NoTask EXCEPT !.pc = "draft", !.req = q])
  /\ UNCHANGED <<invoices, counter>>

(* uq_invoice_active_per_requirement refuses a second one.                 *)
InsertDraft(c) ==
  /\ clerk[c].pc = "draft" /\ invoices[clerk[c].req].at = "none"
  /\ invoices' = [invoices EXCEPT ![clerk[c].req].at = "draft"]
  /\ Take(c, NoTask)
  /\ UNCHANGED counter

(* The row of the invoice is locked until the end, and the date is taken.  *)
LockInvoice(c, q) ==
  /\ clerk[c].pc = "idle"
  /\ invoices[q].at = "draft"
  /\ \A d \in Clerks : clerk[d].pc \in {"locked", "numbered"} => clerk[d].req # q
  /\ Take(c, [NoTask EXCEPT !.pc = "locked", !.req = q, !.year = YearOf[today]])
  /\ UNCHANGED <<invoices, counter>>

CounterFree(year) == \A d \in Clerks : clerk[d].pc = "numbered" => clerk[d].year # year

(* Seeded fault: the counter is committed before the invoice.              *)
AllocateApart(c) ==
  /\ clerk[c].pc = "locked" /\ CounterFree(clerk[c].year)
  /\ Take(c, [clerk[c] EXCEPT !.pc = "numbered", !.no = counter[clerk[c].year] + 1])
  /\ counter' = [counter EXCEPT ![clerk[c].year] = @ + 1]
  /\ UNCHANGED invoices

(* The row of the year is locked until the end: the number is committed    *)
(* with the invoice.                                                       *)
AllocateNumber(c) ==
  /\ clerk[c].pc = "locked" /\ CounterFree(clerk[c].year)
  /\ Take(c, [clerk[c] EXCEPT !.pc = "numbered", !.no = counter[clerk[c].year] + 1])
  /\ UNCHANGED <<invoices, counter>>

IssueInvoice(c) ==
  LET t == clerk[c] IN
  /\ t.pc = "numbered"
  /\ invoices' = [invoices EXCEPT ![t.req] = [at |-> "issued", year |-> t.year, no |-> t.no]]
  /\ counter' = [counter EXCEPT ![t.year] = t.no]
  /\ Take(c, NoTask)

(* Rendering fails, the commit is refused, the process dies.               *)
DropTask(c) ==
  /\ clerk[c].pc # "idle"
  /\ Take(c, NoTask)
  /\ UNCHANGED <<invoices, counter>>

BillNext ==
  \E c \in Clerks :
    \/ \E q \in Reqs : GenerateInvoice(c, q) \/ LockInvoice(c, q)
    \/ InsertDraft(c) \/ AllocateNumber(c) \/ IssueInvoice(c) \/ DropTask(c)

BillingInit == Init /\ BillInit
BillingNext == (Next /\ UNCHANGED billVars) \/ (BillNext /\ UNCHANGED quoteVars)
BillingSpec == BillingInit /\ [][BillingNext]_vars

-----------------------------------------------------------------------------
BillTypeOK ==
  /\ invoices \in [Reqs -> [at : {"none", "draft", "issued"}, year : Years \cup {0}, no : Nat]]
  /\ counter \in [Years -> Nat]
  /\ clerk \in [Clerks -> [pc : {"idle", "draft", "locked", "numbered"}, req : Reqs \cup {"none"},
                           year : Years \cup {0}, no : Nat]]

(* The invoices issued in a financial year carry the numbers 1 to n, each  *)
(* once, however many are issued at once and whichever requests die on the *)
(* way ("consecutive financial-year number", docs/GST_INVOICE_CA_REVIEW.md *)
(* line 24; gst_invoice_service.py:159-180).                               *)
Issued(y) == {q \in Reqs : invoices[q].at = "issued" /\ invoices[q].year = y}

NumbersConsecutive ==
  \A y \in Years :
    /\ {invoices[q].no : q \in Issued(y)} = 1..counter[y]
    /\ \A p, q \in Issued(y) : invoices[p].no = invoices[q].no => p = q

(* The endpoints implement InvoiceBook (gst_invoice_service.py:159-180):   *)
(* however many issue at once and whichever die, an issue is an entry      *)
(* behind the last of its year, made once, and an entry stands.            *)
Numbers(y)  == {invoices[q].no : q \in Issued(y)}
Entries(y)  == [n \in Numbers(y) |-> CHOOSE q \in Issued(y) : invoices[q].no = n]
Drafted     == {q \in Reqs : invoices[q].at = "draft"}

Book == INSTANCE InvoiceBook
          WITH Jobs <- Reqs, drafts <- Drafted, book <- [y \in Years |-> Entries(y)]

BookIsKept == Book!Spec

(* "CANCELLED and REJECTED requirements must not generate invoices"        *)
(* (docs/BUSINESS_RULES.md:56): what is invoiced was completed, and stays. *)
BilledIsCompleted == \A q \in Reqs : invoices[q].at # "none" => status[q] = "completed"
=============================================================================
