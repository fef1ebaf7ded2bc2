--------------------------- MODULE RequirementDesk ---------------------------
(***************************************************************************)
(* The admin's page of one requirement: review, quote, reject, cancel,      *)
(* extend and complete it, issue its invoice, and pay its workers           *)
(* (features/requirements/requirement-detail-view.tsx), with the list it is *)
(* opened from.                                                             *)
(***************************************************************************)
EXTENDS ScreenHandlers

(* `quote' and `advance' are those of the latest quote of any kind; `crew'  *)
(* is one worker's assignments to the job that are neither declined,        *)
(* cancelled nor replaced, a later day's numbered higher, `settled' those   *)
(* with a payout.                                                           *)
JobStatuses == {"submitted", "under_review", "quoted", "approved", "workers_assigned",
                "in_progress", "completed", "rejected", "cancelled"}
Days == {1, 2}

JobRows == [status : JobStatuses, quote : {"none", "sent", "approved", "rejected", "expired"},
            extension : BOOLEAN, advance : BOOLEAN, paid : {"nothing", "part", "advance"},
            unapproved : BOOLEAN, invoice : {"none", "draft", "issued"},
            crew : SUBSET Days, settled : SUBSET Days]

NewJob == [status |-> "submitted", quote |-> "none", extension |-> FALSE, advance |-> FALSE,
           paid |-> "nothing", unapproved |-> FALSE, invoice |-> "none", crew |-> {}, settled |-> {}]

Quoted == [NewJob EXCEPT !.quote = "sent", !.advance = TRUE, !.status = "quoted"]
Working(status, crew) == [Quoted EXCEPT !.status = status, !.quote = "approved", !.crew = crew]

JobStarts ==
  {NewJob, Quoted, [Quoted EXCEPT !.advance = FALSE], Working("approved", {}),
   [Working("workers_assigned", {1}) EXCEPT !.paid = "advance"],
   [Working("in_progress", {1, 2}) EXCEPT !.paid = "advance", !.unapproved = TRUE]}

JobQueries ==
  [detail |-> {"status", "quote", "extension", "advance"}, payments |-> {"paid"},
   invoices |-> {"invoice"}, cards |-> {"crew", "settled"}]

-----------------------------------------------------------------------------
(* The page.                                                                *)
Assignable == {"approved", "workers_assigned"}
Reasons    == {"blank", "short", "long"}

Stage(job) ==
  CASE job.status \in {"submitted", "under_review", "quoted"}              -> "early"
    [] job.status \in {"approved", "workers_assigned", "in_progress"}      -> "mid"
    [] job.status = "completed"                                            -> "end"
    [] OTHER                                                               -> "over"

SectionsShown(job) ==
  {"details"}
    \cup When(Stage(job) # "over", {"quote"})
    \cup When(Stage(job) = "early", {"interests"})
    \cup When(Stage(job) \in {"mid", "end"}, {"assignments", "calendar"})
    \cup When(Stage(job) = "end", {"invoices"})
    \cup When(job.status \in {"workers_assigned", "in_progress", "completed"}, {"payments"})

(* Any confirmed payment counts as the advance here.                        *)
HasPaid(job)          == job.paid # "nothing"
CanAssignWorkers(job) == job.status \in Assignable /\ (job.advance => HasPaid(job))

(* The handlers.  A reason or a number that fails the form's own check is   *)
(* answered on the page and sends nothing.                                  *)
HandleMarkUnderReview == Handler("review", "none", {"detail"}, FALSE)
HandleMarkComplete    == Handler("complete", "none", {"detail"}, FALSE)

RejectDialog    == Reasons \ {"blank"}
CancelDialog    == Reasons \ {"blank", "short"}
ExtensionDialog == {n \in [days : 0..1, rate : 0..1] : n.days >= 1 /\ n.rate >= 1}
QuoteForm       == {n \in [rate : 0..1, advance : BOOLEAN] : n.rate > 0}

HandleReject           == {Handler("reject", reason, {"detail"}, TRUE) : reason \in RejectDialog}
HandleCancel           == {Handler("cancel", reason, {"detail"}, TRUE) : reason \in CancelDialog}
HandleRequestExtension == {Handler("extend", numbers, {"detail"}, TRUE) : numbers \in ExtensionDialog}
HandleSubmitQuote      == {Handler("quote", terms, {"detail"}, TRUE) : terms \in QuoteForm}

OpensAnyQuote(job) ==                          \* seeded fault: the quote there is forgotten
  job.status = "under_review"

QuoteFormOpens(job) ==
  job.status = "under_review" /\ job.quote \in {"none", "rejected", "expired"}

HeaderOffers(job) ==
  When(job.status = "submitted", {HandleMarkUnderReview})
    \cup When(job.status = "in_progress", {HandleMarkComplete})

MenuOffers(job) ==
  When(job.status \in {"in_progress", "workers_assigned"}, HandleRequestExtension)
    \cup When(job.status \in {"under_review", "quoted"}, HandleReject)
    \cup When(job.status \notin {"completed", "rejected", "cancelled"}, HandleCancel)

QuoteOffers(job) == When(QuoteFormOpens(job), HandleSubmitQuote)

HandleGenerate == Handler("generate", "none", {"invoices"}, TRUE)
HandleIssue    == Handler("issue", "none", {"invoices"}, TRUE)

InvoiceOffers(job) ==
  When("invoices" \in SectionsShown(job),
       When(job.invoice = "none", {HandleGenerate}) \cup When(job.invoice = "draft", {HandleIssue}))

(* A worker's card stands for the latest assignment, and is paid when any   *)
(* of the worker's assignments is.                                          *)
Card(job) == CHOOSE a \in job.crew : \A b \in job.crew : b <= a

RecordPayment(a) == Handler("pay", a, {"cards"}, TRUE)

PaymentOffers(job) ==
  When("payments" \in SectionsShown(job) /\ job.crew # {} /\ job.crew \cap job.settled = {},
       {RecordPayment(Card(job))})

JobOffers(job) ==
  HeaderOffers(job) \cup MenuOffers(job) \cup QuoteOffers(job) \cup InvoiceOffers(job) \cup PaymentOffers(job)

JobShows(job) ==
  {"detail", "payments"}
    \cup When("invoices" \in SectionsShown(job), {"invoices"})
    \cup When("payments" \in SectionsShown(job), {"cards"})

-----------------------------------------------------------------------------
(* The server.                                                              *)
Moves ==
  [submitted      |-> {"under_review", "rejected", "cancelled"},
   under_review   |-> {"quoted", "rejected", "cancelled"},
   quoted         |-> {"approved", "rejected", "under_review", "cancelled"},
   approved       |-> {"workers_assigned", "cancelled"},
   workers_assigned |-> {"in_progress", "approved", "cancelled"},
   in_progress    |-> {"completed", "cancelled"},
   completed |-> {}, rejected |-> {}, cancelled |-> {}]

JobAccepts(job, h) ==
  CASE h.op = "review"   -> "under_review" \in Moves[job.status]
    [] h.op = "quote"    -> "quoted" \in Moves[job.status] /\ job.quote \in {"none", "rejected", "expired"} /\ h.arg.rate >= 1
    [] h.op = "reject"   -> "rejected" \in Moves[job.status] /\ h.arg # "blank"
    [] h.op = "cancel"   -> "cancelled" \in Moves[job.status] /\ h.arg = "long"
    [] h.op = "complete" -> "completed" \in Moves[job.status] /\ ~job.unapproved
    [] h.op = "extend"   -> /\ job.status \in {"in_progress", "workers_assigned"}
                            /\ ~(job.extension /\ job.quote = "sent")
                            /\ h.arg.days >= 1 /\ h.arg.rate >= 1
    [] h.op = "generate" -> job.status = "completed" /\ job.quote # "none" /\ job.invoice = "none"
    [] h.op = "issue"    -> job.invoice = "draft"
    [] h.op = "pay"      -> h.arg \in job.crew /\ h.arg \notin job.settled

JobAfter(job, h) ==
  CASE h.op = "review"   -> [job EXCEPT !.status = "under_review"]
    [] h.op = "quote"    -> [job EXCEPT !.status = "quoted", !.quote = "sent", !.extension = FALSE, !.advance = h.arg.advance]
    [] h.op = "reject"   -> [job EXCEPT !.status = "rejected"]
    [] h.op = "cancel"   -> [job EXCEPT !.status = "cancelled", !.crew = {}]
    [] h.op = "complete" -> [job EXCEPT !.status = "completed"]
    [] h.op = "extend"   -> [job EXCEPT !.quote = "sent", !.extension = TRUE, !.advance = FALSE]
    [] h.op = "generate" -> [job EXCEPT !.invoice = "draft"]
    [] h.op = "issue"    -> [job EXCEPT !.invoice = "issued"]
    [] h.op = "pay"      -> [job EXCEPT !.settled = @ \cup {h.arg}]

(* What the client, the workers, the scheduler and the money desk do.       *)
Decided(job, answer) ==
  CASE job.extension        -> {[job EXCEPT !.quote = answer]}
    [] answer = "approved"  -> When("approved" \in Moves[job.status], {[job EXCEPT !.quote = answer, !.status = answer]})
    [] OTHER                -> When("under_review" \in Moves[job.status], {[job EXCEPT !.quote = answer, !.status = "under_review"]})

Expired(job) ==
  {[job EXCEPT !.quote = "expired",
               !.status = IF "under_review" \in Moves[job.status] THEN "under_review" ELSE job.status]}

JobMoves(job) ==
  When(job.quote = "sent", (UNION {Decided(job, a) : a \in {"approved", "rejected"}}) \cup Expired(job))
    \cup When(Stage(job) \in {"mid", "end"}, {[job EXCEPT !.paid = p] : p \in {"part", "advance"}})
    \cup When(job.status \in {"workers_assigned", "in_progress"}, {[job EXCEPT !.crew = c] : c \in (SUBSET Days) \ {{}}})
    \cup When(job.status = "workers_assigned", {[job EXCEPT !.status = "in_progress", !.unapproved = TRUE]})
    \cup When(job.unapproved, {[job EXCEPT !.unapproved = FALSE]})

-----------------------------------------------------------------------------
(* Offered without a look at what the server will check: to complete a job  *)
(* with attendance to approve, to extend it while an extension waits.       *)
JobLoose(job) == {"complete", "extend"}

JobSilent == {"review", "complete"}

(* Sections that go on showing what they had when their load fails, without *)
(* a word: the payments, the invoices and the workers' cards.               *)
JobQuiet == {"payments", "invoices", "cards"}
=============================================================================
