--------------------------- MODULE ScreenHandlers ---------------------------
(***************************************************************************)
(* What the screens of the three apps have in common.  A screen shows       *)
(* cached copies of the server's rows, one per query, and offers handlers:  *)
(* a handler sends one request, on success refetches some queries, and on   *)
(* failure tells the user or says nothing.  A desk is a set of operators:   *)
(* what a screen offers for a copy of its rows, what the server accepts of  *)
(* that, and what it then does.  Screens runs the desks.                    *)
(***************************************************************************)
EXTENDS Naturals, FiniteSets

(* One call of a handler: its operation, what the user entered, the queries *)
(* its success refetches, and whether its failure is told.  Few refetch     *)
(* after a failure too.                                                     *)
Handler(op, arg, refetch, told) ==
  [op |-> op, arg |-> arg, refetch |-> refetch, told |-> told, always |-> FALSE]

HandlerAlways(op, arg, refetch) ==
  [Handler(op, arg, refetch, TRUE) EXCEPT !.always = TRUE]

NoHandler == Handler("none", "none", {}, FALSE)

When(condition, offers) == IF condition THEN offers ELSE {}

Part(row, fields) == [f \in fields |-> row[f]]

Replaced(row, patch) == patch            \* seeded fault: the patch is taken for the row
Patched(row, patch) ==
  [f \in DOMAIN row |-> IF f \in DOMAIN patch THEN patch[f] ELSE row[f]]
=============================================================================
