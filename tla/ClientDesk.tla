----------------------------- MODULE ClientDesk -----------------------------
(***************************************************************************)
(* The client's phone: a request with its quote                             *)
(* (client/screens/RequestDetailScreen.tsx), its invoice and the checkout   *)
(* (InvoiceDetailScreen.tsx), the form that creates a request               *)
(* (CreateRequestScreen.tsx), the profile (ClientProfileScreen.tsx), the    *)
(* privacy requests (shared/screens/PrivacySettingsScreen.tsx), and what a  *)
(* client says of a job (RateRequirementScreen.tsx, DisputeScreen.tsx,      *)
(* RaiseComplaintScreen.tsx).                                               *)
(***************************************************************************)
EXTENDS ScreenHandlers

L == INSTANCE LedgerRules

Total == 2                                \* rupees of the quote

(* `late' says who counts the quote as past its last day: nobody, the       *)
(* server's business date "here", or the phone's UTC date as well.  `paid'  *)
(* are the settled charges and `back' the settled refunds.  The checkout is *)
(* for `asked' rupees: an order made, a charge captured, or a manual        *)
(* payment waiting for an admin.                                            *)
RequestRows ==
  [about : {"request"}, screen : {"request", "advance", "full"},
   status : {"submitted", "under_review", "quoted", "approved", "workers_assigned",
             "in_progress", "completed", "rejected", "cancelled"},
   quote : {"none", "sent", "approved", "rejected", "expired"}, kind : {"main", "extension"},
   late : {"no", "here", "both"}, paid : Nat, back : Nat,
   checkout : {"none", "order", "captured", "manual"}, asked : Nat]

FormRows    == [about : {"form"}, created : Nat]
ProfileRows == [about : {"profile"}, name : 1..2, city : 1..2]
ConsentRows == [about : {"consent"}, kind : {"deletion", "export"}, erased : BOOLEAN,
                state : {"none", "pending", "in_review", "completed", "rejected"}]
OpinionRows == [about : {"opinion"}, status : {"in_progress", "completed"}, stars : 0..2, disputes : Nat, complaints : Nat]

ClientRows == RequestRows \cup FormRows \cup ProfileRows \cup ConsentRows \cup OpinionRows

NewRequest(screen, status) ==
  [about |-> "request", screen |-> screen, status |-> status, quote |-> "none", kind |-> "main", late |-> "no",
   paid |-> 0, back |-> 0, checkout |-> "none", asked |-> 0]

Approved(screen, status, paid) ==
  [NewRequest(screen, status) EXCEPT !.quote = "approved", !.paid = paid]

ClientStarts ==
  {NewRequest("request", "submitted"), [NewRequest("request", "quoted") EXCEPT !.quote = "sent"],
   [NewRequest("request", "quoted") EXCEPT !.quote = "sent", !.late = "here"],
   [NewRequest("request", "in_progress") EXCEPT !.quote = "sent", !.kind = "extension", !.paid = 1],
   Approved("advance", "approved", 0), Approved("full", "in_progress", 1)}
    \cup {[about |-> "form", created |-> 0], [about |-> "profile", name |-> 1, city |-> 1],
          [about |-> "opinion", status |-> "in_progress", stars |-> 0, disputes |-> 0, complaints |-> 0]}
    \cup {[about |-> "consent", kind |-> k, erased |-> FALSE, state |-> "none"] : k \in {"deletion", "export"}}

(* The invoice screens are handed the quote when they open and load only    *)
(* the payments.                                                            *)
ClientQueries(row) ==
  CASE row.about = "request" ->
         IF row.screen = "request" THEN [detail |-> {"status", "quote", "kind", "late"}, payments |-> {"paid", "back"}]
                                   ELSE [payments |-> {"paid", "back"}, checkout |-> {"checkout", "asked"}]
    [] row.about = "form"    -> [requests |-> {"created"}]
    [] row.about = "profile" -> [profile |-> {"name", "city"}]
    [] row.about = "consent" -> [requests |-> {"state"}]
    [] row.about = "opinion" -> [detail |-> {"status"}]

ClientShows(row) == IF row.about = "form" THEN {} ELSE DOMAIN ClientQueries(row)

-----------------------------------------------------------------------------
(* The request's screen.                                                    *)
ExpiredShown(row) == row.late = "both"

DecideQuote(action) == Handler(action, "none", {"detail", "payments"}, TRUE)
CancelRequest       == Handler("cancel", "none", {"detail", "payments"}, TRUE)

RequestOffers(row) ==
  When(row.quote = "sent" /\ ~ExpiredShown(row), {DecideQuote("approve"), DecideQuote("reject")})
    \cup When(row.status \in {"submitted", "quoted"}, {CancelRequest})

(* The invoice.  What the phone counts as paid is every settled row, and a  *)
(* refund's row settles as "paid" too.                                      *)
PhonePaid(row)  == row.paid + row.back
FullyPaid(row)  == PhonePaid(row) >= Total

HandlePayNow == Handler("pay", "none", {"checkout"}, TRUE)
Checkout     == Handler("charge", "none", {"checkout"}, TRUE)
Verify       == Handler("verify", "none", {"payments", "checkout"}, TRUE)

CheckoutOffers(row) ==
  When(~FullyPaid(row), {HandlePayNow})
    \cup When(row.checkout = "order", {Checkout})
    \cup When(row.checkout = "captured", {Verify})

(* The other forms.  The request's has lower bounds only; the profile's     *)
(* keeps every field as it was when the screen opened; a privacy request    *)
(* can be made unless one is open or an export is there to share.           *)
SubmitRequest == {Handler("create", size, {}, TRUE) : size \in {"fits", "too_large"}}

SaveProfile(row) ==
  {Handler("edit", [name |-> n, city |-> c], {"profile"}, TRUE) : n \in 1..2, c \in 1..2}

OpenConsent(row)   == row.state \in {"pending", "in_review"}
CreateRequest(row) == Handler("ask", row.kind, {"requests"}, TRUE)

ConsentOffers(row) ==
  When(~OpenConsent(row) /\ ~(row.kind = "export" /\ row.state = "completed"), {CreateRequest(row)})

RateRequirement == {Handler("rate", stars, {}, TRUE) : stars \in 1..2}
RaiseDispute    == Handler("dispute", "none", {}, TRUE)
RaiseComplaint  == Handler("complain", "none", {}, TRUE)

OpinionOffers(row) ==
  {RaiseComplaint} \cup When(row.status = "completed", RateRequirement \cup {RaiseDispute})

ClientOffers(row) ==
  CASE row.about = "request" -> IF row.screen = "request" THEN RequestOffers(row) ELSE CheckoutOffers(row)
    [] row.about = "form"    -> SubmitRequest
    [] row.about = "profile" -> SaveProfile(row)
    [] row.about = "consent" -> ConsentOffers(row)
    [] row.about = "opinion" -> OpinionOffers(row)

-----------------------------------------------------------------------------
(* The server.  It derives what is to be paid itself, and answers with the  *)
(* order there already is for that amount.                                  *)
Quote(row) == [total |-> Total, advance |-> IF row.kind = "main" THEN 1 ELSE 0, collects |-> TRUE]
NetPaid(row) == L!NonNegative(row.paid - row.back)
Intents(row) == IF row.quote = "none" THEN {} ELSE L!PaymentIntents(Quote(row), row.status, NetPaid(row))

CanDecide(row, from) == row.quote = "sent" /\ (row.kind = "extension" \/ row.status = from)

ClientAccepts(row, h) ==
  CASE h.op = "approve"  -> CanDecide(row, "quoted") /\ row.late = "no"
    [] h.op = "reject"   -> CanDecide(row, "quoted")
    [] h.op = "cancel"   -> row.status \in {"submitted", "quoted"}
    [] h.op = "pay"      -> \E i \in Intents(row) : ~(row.checkout = "manual" /\ row.asked = i.amount)
    [] h.op = "charge"   -> row.checkout = "order"
    [] h.op = "verify"   -> row.checkout # "order"
    [] h.op = "create"   -> h.arg = "fits"
    [] h.op = "ask"      -> ~OpenConsent(row) /\ ~row.erased
    [] h.op = "dispute"  -> row.status = "completed"
    [] h.op \in {"edit", "rate", "complain"} -> TRUE

SettledCharge(row) ==
  [row EXCEPT !.checkout = "none", !.asked = 0, !.paid = @ + row.asked]

Ordered(row) ==
  LET i == CHOOSE j \in Intents(row) : TRUE
  IN  IF row.checkout = "none" \/ row.asked # i.amount THEN [row EXCEPT !.checkout = "order", !.asked = i.amount] ELSE row

Decision(row, to, status) ==
  [row EXCEPT !.quote = to, !.status = IF row.kind = "main" THEN status ELSE @]

ClientAfter(row, h) ==
  CASE h.op = "approve"  -> Decision(row, "approved", "approved")
    [] h.op = "reject"   -> Decision(row, "rejected", "under_review")
    [] h.op = "cancel"   -> [row EXCEPT !.status = "cancelled"]
    [] h.op = "pay"      -> Ordered(row)
    [] h.op = "charge"   -> [row EXCEPT !.checkout = "captured"]
    [] h.op = "verify"   -> IF row.checkout = "captured" THEN SettledCharge(row) ELSE row
    [] h.op = "create"   -> [row EXCEPT !.created = @ + 1]
    [] h.op = "edit"     -> Patched(row, h.arg)
    [] h.op = "ask"      -> [row EXCEPT !.state = "pending"]
    [] h.op = "rate"     -> [row EXCEPT !.stars = h.arg]
    [] h.op = "dispute"  -> [row EXCEPT !.disputes = @ + 1]
    [] h.op = "complain" -> [row EXCEPT !.complaints = @ + 1]

(* An approval after the quote's last day is refused, and expires it.       *)
ExpireQuote(row) == Decision(row, "expired", IF row.status = "quoted" THEN "under_review" ELSE row.status)

ClientRefused(row, h) ==
  IF h.op = "approve" /\ row.quote = "sent" /\ row.late # "no" THEN ExpireQuote(row) ELSE row

(* The admins, the workers and midnight; the gateway's webhook; a manual    *)
(* payment and a refund an admin records.                                   *)
RequestMoves(row) ==
  When(row.status = "submitted", {[row EXCEPT !.status = "under_review"]})
    \cup When(row.status = "under_review", {[row EXCEPT !.status = "quoted", !.quote = "sent", !.late = "no"]})
    \cup When(row.status \in {"submitted", "quoted", "approved", "in_progress"}, {[row EXCEPT !.status = "cancelled"]})
    \cup When(row.quote = "sent", {[row EXCEPT !.late = IF @ = "no" THEN "here" ELSE "both"]})
    \cup When(row.quote = "sent" /\ row.late # "no", {ExpireQuote(row)})
    \cup When(row.status = "approved" /\ NetPaid(row) >= Quote(row).advance, {[row EXCEPT !.status = "workers_assigned"]})
    \cup When(row.status = "workers_assigned", {[row EXCEPT !.status = "in_progress"]})
    \cup When(row.status = "in_progress",
              {[row EXCEPT !.status = "completed"]}
                \cup When(row.quote # "sent", {[row EXCEPT !.quote = "sent", !.kind = "extension", !.late = "no"]}))
    \cup When(row.checkout = "captured", {SettledCharge(row)})
    \cup When(row.checkout = "none",
              {[row EXCEPT !.checkout = "manual", !.asked = i.amount] : i \in Intents(row)})
    \cup When(row.checkout = "manual", {SettledCharge(row), [row EXCEPT !.checkout = "none", !.asked = 0]})
    \cup When(NetPaid(row) > 0, {[row EXCEPT !.back = @ + 1]})

ConsentMoves(row) ==
  CASE row.state = "pending"   -> {[row EXCEPT !.state = "in_review"]}
    [] row.state = "in_review" -> {[row EXCEPT !.state = "rejected"],
                                   [row EXCEPT !.state = "completed", !.erased = (row.kind = "deletion")]}
    [] OTHER                   -> {}

ClientMoves(row) ==
  CASE row.about = "request" -> RequestMoves(row)
    [] row.about = "consent" -> ConsentMoves(row)
    [] row.about = "opinion" -> {[row EXCEPT !.status = "completed"]}
    [] OTHER                 -> {}

-----------------------------------------------------------------------------
(* Refused though the screen shows all there is to know of it: an approval  *)
(* between midnight in India and midnight UTC of the quote's last day; a    *)
(* decision on the quote of a request cancelled since; a payment the status *)
(* no longer allows, of an advance that is covered, or while a manual one   *)
(* waits; a request of an erased account.                                   *)
Decidable(row) == CanDecide(row, "quoted")
ClientLoose(row) ==
  CASE row.about = "request" ->
         When(row.late = "here" \/ ~Decidable(row), {"approve"}) \cup When(~Decidable(row), {"reject"})
           \cup When(Intents(row) = {} \/ row.checkout = "manual", {"pay"})
    [] row.about = "consent" -> When(row.erased, {"ask"})
    [] OTHER                 -> {}

TooLarge(h) == h.op = "create" /\ h.arg = "too_large"

(* Loads that fail without a word, and what the screen shows then.          *)
ClientQuiet(row) ==
  CASE row.about = "request" -> {"payments"}
    [] row.about = "profile" -> {"profile"}
    [] OTHER                 -> {}

ClientBlank(row) == IF row.about = "request" /\ row.screen = "request" THEN [paid |-> 0, back |-> 0] ELSE << >>

ClientReloads(row) ==
  CASE row.about = "request" -> ClientShows(row) \ {"checkout"}
    [] row.about = "opinion" -> {}
    [] OTHER                 -> ClientShows(row)
=============================================================================
