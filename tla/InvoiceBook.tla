---------------------------- MODULE InvoiceBook -----------------------------
(***************************************************************************)
(* What the invoices of a financial year promise, without requests, locks, *)
(* counters or failures: one book a year, in which an issue is an entry    *)
(* behind the last and nothing is ever struck out, and a job billed once.  *)
(***************************************************************************)
EXTENDS Sequences, Naturals

CONSTANTS Jobs, Years

VARIABLES
  drafts,  \* the jobs with a draft
  book     \* by year, the jobs invoiced in the order of their numbers

vars == <<drafts, book>>

Init ==
  /\ drafts = {}
  /\ book = [y \in Years |-> << >>]

Entered(j) == \E y \in Years : \E n \in DOMAIN book[y] : book[y][n] = j

Draft(j) ==
  /\ j \notin drafts /\ ~Entered(j)
  /\ drafts' = drafts \cup {j}
  /\ UNCHANGED book

Issue(j, y) ==
  /\ j \in drafts
  /\ drafts' = drafts \ {j}
  /\ book' = [book EXCEPT ![y] = Append(@, j)]

Next == \E j \in Jobs : Draft(j) \/ \E y \in Years : Issue(j, y)

Spec == Init /\ [][Next]_vars
=============================================================================
