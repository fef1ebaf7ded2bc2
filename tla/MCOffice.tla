------------------------------ MODULE MCOffice ------------------------------
(***************************************************************************)
(* Billing, an instance of Invoices: a request from its submission to its  *)
(* invoice, or the invoices of three that are done.  Or payroll, an        *)
(* instance of Payroll.  The two share no row, so a behaviour is of one or *)
(* the other, the tables of the other left as they begin.                  *)
(***************************************************************************)
EXTENDS Invoices, Payroll, TLC

CONSTANTS admin, client, job, q1, q2, q3, s1, s2

VARIABLE office

DeskServes ==
  (admin :> {"review", "quote", "reject", "cancel", "complete", "extend"}) @@
  (client :> {"decide", "withdraw"}) @@ (job :> {"expire"})

FromSubmission == (q1 :> "submitted") @@ (q2 :> "rejected") @@ (q3 :> "rejected")
FromCompletion == (q1 :> "completed") @@ (q2 :> "completed") @@ (q3 :> "completed")
MCStarts       == {FromSubmission, FromCompletion}

(* The last day opens another financial year.                              *)
MCYearOf == <<1, 1, 2>>

(* A daily rate of 3 makes a half day worth 1.5, which is rounded.         *)
MCRate    == [a \in Asgs |-> 3]
MCPeriods == {<<1, LastDay>>}

(* One finance administrator beside the workers and an administrator who   *)
(* reviews attendance.                                                     *)
OfficeCalls == (s1 :> (Endpoints \ {"attend", "review"})) @@
               (s2 :> {"attend", "review"})

OfficeInit ==
  /\ BillingInit /\ PayrollInit
  /\ office \in {"billing", "payroll"}
  /\ office = "payroll" => status = FromSubmission

OfficeNext ==
  /\ UNCHANGED office
  /\ \/ office = "billing" /\ BillingNext /\ UNCHANGED payrollVars
     \/ office = "payroll" /\ PayrollNext /\ UNCHANGED vars

OfficeSpec == OfficeInit /\ [][OfficeNext]_<<office, vars, payrollVars>>

(* Clerks are alike, and so are payouts.  One small group serves both: an   *)
(* exchange of two clerks goes with the exchange of the two payouts.       *)
Moves(f) == {x \in DOMAIN f : f[x] # x}

Symmetric ==
  UNION {{f @@ g : g \in {h \in Permutations(Payouts) : Moves(h) # {} <=> Cardinality(Moves(f)) = 2}} :
           f \in Permutations(Clerks)}
=============================================================================
