----------------------------- MODULE SettleOnce -----------------------------
(***************************************************************************)
(* What the capture path promises, without requests, snapshots or retries: *)
(* a charge is credited at most once, with a captured payment made for it, *)
(* and a credit is never withdrawn or exchanged.                           *)
(***************************************************************************)
CONSTANTS Charges, PayIds, NoCharge, NoPay

VARIABLES
  madeFor,   \* the charge each gateway payment was made for
  captured,  \* the payments the gateway captured
  credit     \* the payment each charge is credited with

vars == <<madeFor, captured, credit>>

Init ==
  /\ madeFor = [p \in PayIds |-> NoCharge]
  /\ captured = {}
  /\ credit = [c \in Charges |-> NoPay]

Pay(p, c) ==
  /\ madeFor[p] = NoCharge
  /\ madeFor' = [madeFor EXCEPT ![p] = c]
  /\ UNCHANGED <<captured, credit>>

CapturePayment(p) ==
  /\ madeFor[p] # NoCharge
  /\ \A q \in captured : madeFor[q] # madeFor[p]
  /\ captured' = captured \cup {p}
  /\ UNCHANGED <<madeFor, credit>>

Credit(c, p) ==
  /\ credit[c] = NoPay
  /\ p \in captured
  /\ madeFor[p] = c
  /\ credit' = [credit EXCEPT ![c] = p]
  /\ UNCHANGED <<madeFor, captured>>

Next ==
  \/ \E p \in PayIds, c \in Charges : Pay(p, c) \/ Credit(c, p)
  \/ \E p \in PayIds : CapturePayment(p)

Spec == Init /\ [][Next]_vars
=============================================================================
