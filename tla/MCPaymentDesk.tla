--------------------------- MODULE MCPaymentDesk ----------------------------
(***************************************************************************)
(* An instance of ClientPayments: an admin and a creating client beside    *)
(* the gateway's two ways in, or one person at a time at the office, who   *)
(* may be the client submitting a reference.                               *)
(***************************************************************************)
EXTENDS ClientPayments, TLC

CONSTANTS s1, s2

VARIABLE alone   \* is it one person at a time?

MCQuote == [total |-> 2, advance |-> 1, collects |-> TRUE]

Charges == {"advance", "balance", "adjustment"}

OfficeServes == (s1 :> {"reference", "manual", "status"}) @@ (s2 :> {})
MixedServes  == (s1 :> {"order", "manual", "status"}) @@ (s2 :> {"webhook", "verify"})

Mixed == INSTANCE ClientPayments
           WITH Serves <- MixedServes, Refs <- {}, ManualAmounts <- {1}, ManualPurposes <- {"adjustment"}

(* Two rows suffice for every race of two requests.                        *)
TwoRows == \E r \in Rows : rows[r] = NoPayment

DeskInit == Init /\ alone \in BOOLEAN

DeskNext ==
  \/ alone /\ Next /\ UNCHANGED alone
  \/ ~alone /\ Mixed!Next /\ TwoRows' /\ UNCHANGED alone

DeskSpec == DeskInit /\ [][DeskNext]_<<vars, alone>>

(* Any sequence of references, manual records and status changes made one  *)
(* at a time keeps what is paid within the quote.                          *)
PaidOneAtATime == alone => PaidWithinQuote

Symmetric == Permutations(Rows) \cup Permutations(PayIds) \cup Permutations(Refs)
=============================================================================
