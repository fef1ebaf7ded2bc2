-------------------------- MODULE ReservedRefunds ---------------------------
(***************************************************************************)
(* What refunds of captured payments promise, without requests, locks,     *)
(* stale rows or webhooks: the money of a refund is set aside, from what   *)
(* is left of one payment, before any of it goes back; it goes back at     *)
(* most once; and what the ledger says of the refund has happened.         *)
(***************************************************************************)
EXTENDS Integers

CONSTANTS
  Refunds, Payments,
  Captured,   \* Captured[p]: what was captured
  NoPayment,
  Retold      \* TRUE: a failed refund may be called pending again

VARIABLES
  left,    \* what is left of each payment
  from,    \* the payment each refund goes back to
  amount,  \* how much of it
  money,   \* "free", "reserved", "returned" or "refused"
  word     \* what the ledger says of each refund

vars == <<left, from, amount, money, word>>

Init ==
  /\ left = [p \in Payments |-> Captured[p]]
  /\ from = [r \in Refunds |-> NoPayment]
  /\ amount = [r \in Refunds |-> 0]
  /\ money = [r \in Refunds |-> "free"]
  /\ word = [r \in Refunds |-> "pending"]

Reserve(r, p, n) ==
  /\ money[r] = "free"
  /\ n <= left[p]
  /\ left' = [left EXCEPT ![p] = @ - n]
  /\ from' = [from EXCEPT ![r] = p]
  /\ amount' = [amount EXCEPT ![r] = n]
  /\ money' = [money EXCEPT ![r] = "reserved"]
  /\ UNCHANGED word

Return(r) ==
  /\ money[r] = "reserved"
  /\ money' = [money EXCEPT ![r] = "returned"]
  /\ UNCHANGED <<left, from, amount, word>>

Refuse(r) ==
  /\ money[r] = "reserved"
  /\ money' = [money EXCEPT ![r] = "refused"]
  /\ left' = [left EXCEPT ![from[r]] = @ + amount[r]]
  /\ UNCHANGED <<from, amount, word>>

(* "paid" is the ledger's last word.                                       *)
Say(r, w) ==
  /\ word[r] # "paid"
  /\ \/ w = "paid" /\ money[r] = "returned"
     \/ w = "failed" /\ money[r] = "refused"
     \/ w = "pending" /\ Retold
  /\ word' = [word EXCEPT ![r] = w]
  /\ UNCHANGED <<left, from, amount, money>>

Next ==
  \E r \in Refunds :
    \/ \E p \in Payments : \E n \in 0 .. Captured[p] : Reserve(r, p, n)
    \/ Return(r)
    \/ Refuse(r)
    \/ \E w \in {"pending", "paid", "failed"} : Say(r, w)

Spec == Init /\ [][Next]_vars
=============================================================================
