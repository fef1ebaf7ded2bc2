---------------------------- MODULE ScreensProofs ----------------------------
(***************************************************************************)
(* Proofs about the screens and the browser's session, for any number of   *)
(* requests of a page and moves of others, and of tokens and page loads.   *)
(* The lemmas of each desk say what its handlers are, that the server's    *)
(* rows and a page's copies stay of the kind they were, which queries a    *)
(* request served leaves alone, and that what a current copy offers the    *)
(* server accepts.  Tables put the desks together, the invariant of a page *)
(* rests on them, and the session's invariant is beside it.                *)
(***************************************************************************)
EXTENDS MCScreens, FiniteSetTheorems, TLAPS

-----------------------------------------------------------------------------
(* Handlers and copies in general.                                         *)
IsHandler(h) ==
  h = [op |-> h.op, arg |-> h.arg, refetch |-> h.refetch, told |-> h.told, always |-> h.always]

LEMMA PartsAgree ==
  ASSUME NEW row, NEW copy, NEW queries,
         \A q \in DOMAIN queries : Part(copy, queries[q]) = Part(row, queries[q])
  PROVE  \A q \in DOMAIN queries : \A f \in queries[q] : copy[f] = row[f]
<1> SUFFICES ASSUME NEW q \in DOMAIN queries, NEW f \in queries[q] PROVE copy[f] = row[f]
  OBVIOUS
<1>1. Part(copy, queries[q])[f] = copy[f] /\ Part(row, queries[q])[f] = row[f]
  BY DEF Part
<1> QED BY <1>1

-----------------------------------------------------------------------------
(* The page of a requirement.                                              *)
JobHandler(h) ==
  /\ IsHandler(h)
  /\ \/ h.op \in {"review", "complete"} /\ h.refetch = {"detail"} /\ ~h.told
     \/ h.op \in {"reject", "cancel", "extend"} /\ h.refetch = {"detail"} /\ h.told
     \/ h.op = "quote" /\ h.refetch = {"detail"} /\ h.told /\ h.arg.advance \in BOOLEAN
     \/ h.op \in {"generate", "issue"} /\ h.refetch = {"invoices"} /\ h.told
     \/ h.op = "pay" /\ h.refetch = {"cards"} /\ h.told

LEMMA JobHandlers ==
  ASSUME NEW copy \in JobRows, NEW h \in JobOffers(copy)
  PROVE  JobHandler(h)
BY DEF JobOffers, HeaderOffers, MenuOffers, QuoteOffers, InvoiceOffers, PaymentOffers, When,
       HandleMarkUnderReview, HandleMarkComplete, HandleRequestExtension, HandleReject, HandleCancel,
       HandleSubmitQuote, HandleGenerate, HandleIssue, RecordPayment, QuoteForm, Handler,
       JobHandler, IsHandler

(* Past the review a requirement has a quote.                              *)
QuoteMade(job) == job.quote = "none" => job.status \in {"submitted", "under_review", "rejected", "cancelled"}

LEMMA JobMovesAre ==
  \A s \in JobStatuses :
    /\ "under_review" \in Moves[s] <=> s \in {"submitted", "quoted"}
    /\ "quoted" \in Moves[s] <=> s = "under_review"
    /\ "approved" \in Moves[s] <=> s \in {"quoted", "workers_assigned"}
    /\ "completed" \in Moves[s] <=> s = "in_progress"
    /\ "rejected" \in Moves[s] <=> s \in {"submitted", "under_review", "quoted"}
    /\ "cancelled" \in Moves[s] <=> s \notin {"completed", "rejected", "cancelled"}
BY DEF Moves, JobStatuses

LEMMA JobServes ==
  ASSUME NEW job \in JobRows, NEW h, JobHandler(h), JobAccepts(job, h)
  PROVE  /\ JobAfter(job, h) \in JobRows
         /\ QuoteMade(job) => QuoteMade(JobAfter(job, h))
         /\ job.status = "cancelled" \/ h.op = "cancel" => JobAfter(job, h).status = "cancelled"
         /\ \A q \in DOMAIN JobQueries \ h.refetch :
              q # "cards" \/ h.op # "cancel"
                => \A f \in JobQueries[q] : JobAfter(job, h)[f] = job[f]
<1>1. CASE h.op = "review"
  <2>1. h.refetch = {"detail"}
    BY <1>1 DEF JobHandler
  <2> QED BY <1>1, <2>1 DEF JobAfter, JobAccepts, JobRows, JobStatuses, JobQueries, Moves, QuoteMade
<1>2. CASE h.op = "complete"
  <2>1. h.refetch = {"detail"}
    BY <1>2 DEF JobHandler
  <2> QED BY <1>2, <2>1 DEF JobAfter, JobAccepts, JobRows, JobStatuses, JobQueries, Moves, QuoteMade
<1>3. CASE h.op = "reject"
  <2>1. h.refetch = {"detail"}
    BY <1>3 DEF JobHandler
  <2> QED BY <1>3, <2>1 DEF JobAfter, JobAccepts, JobRows, JobStatuses, JobQueries, Moves, QuoteMade
<1>4. CASE h.op = "cancel"
  <2>1. h.refetch = {"detail"}
    BY <1>4 DEF JobHandler
  <2>2. JobAfter(job, h) \in JobRows
    BY <1>4, <2>1 DEF JobAfter, JobRows, JobStatuses
  <2>3. /\ QuoteMade(job) => QuoteMade(JobAfter(job, h))
        /\ job.status = "cancelled" \/ h.op = "cancel" => JobAfter(job, h).status = "cancelled"
    BY <1>4, <2>1 DEF JobAfter, JobAccepts, JobRows, Moves, QuoteMade
  <2>4. /\ JobAfter(job, h).paid = job.paid
        /\ JobAfter(job, h).invoice = job.invoice
        /\ JobAfter(job, h).unapproved = job.unapproved
    BY <1>4, <2>1 DEF JobAfter, JobRows
  <2>5. \A q \in DOMAIN JobQueries \ h.refetch :
          q # "cards" \/ h.op # "cancel" => \A f \in JobQueries[q] : JobAfter(job, h)[f] = job[f]
    BY <1>4, <2>1, <2>4 DEF JobQueries
  <2> QED BY <2>2, <2>3, <2>5
<1>5. CASE h.op = "extend"
  <2>1. h.refetch = {"detail"}
    BY <1>5 DEF JobHandler
  <2>2. JobAfter(job, h) \in JobRows
    BY <1>5, <2>1 DEF JobAfter, JobRows, JobStatuses
  <2>3. /\ QuoteMade(job) => QuoteMade(JobAfter(job, h))
        /\ job.status = "cancelled" \/ h.op = "cancel" => JobAfter(job, h).status = "cancelled"
    BY <1>5, <2>1 DEF JobAfter, JobAccepts, JobRows, Moves, QuoteMade
  <2>4. /\ JobAfter(job, h).paid = job.paid
        /\ JobAfter(job, h).invoice = job.invoice
        /\ JobAfter(job, h).crew = job.crew
        /\ JobAfter(job, h).settled = job.settled
    BY <1>5, <2>1 DEF JobAfter, JobRows
  <2>5. \A q \in DOMAIN JobQueries \ h.refetch :
          q # "cards" \/ h.op # "cancel" => \A f \in JobQueries[q] : JobAfter(job, h)[f] = job[f]
    BY <1>5, <2>1, <2>4 DEF JobQueries
  <2> QED BY <2>2, <2>3, <2>5
<1>6. CASE h.op = "quote"
  <2>1. h.refetch = {"detail"} /\ h.arg.advance \in BOOLEAN
    BY <1>6 DEF JobHandler
  <2>2. JobAfter(job, h) \in JobRows
    BY <1>6, <2>1 DEF JobAfter, JobRows, JobStatuses
  <2>3. /\ QuoteMade(job) => QuoteMade(JobAfter(job, h))
        /\ job.status = "cancelled" \/ h.op = "cancel" => JobAfter(job, h).status = "cancelled"
    <3>1. job.status # "cancelled" /\ JobAfter(job, h).quote = "sent"
      BY <1>6, JobMovesAre DEF JobAfter, JobAccepts, JobRows
    <3> QED BY <1>6, <3>1 DEF QuoteMade
  <2>4. /\ JobAfter(job, h).paid = job.paid
        /\ JobAfter(job, h).invoice = job.invoice
        /\ JobAfter(job, h).crew = job.crew
        /\ JobAfter(job, h).settled = job.settled
    BY <1>6, <2>1 DEF JobAfter, JobRows
  <2>5. \A q \in DOMAIN JobQueries \ h.refetch :
          q # "cards" \/ h.op # "cancel" => \A f \in JobQueries[q] : JobAfter(job, h)[f] = job[f]
    BY <1>6, <2>1, <2>4 DEF JobQueries
  <2> QED BY <2>2, <2>3, <2>5
<1>7. CASE h.op = "generate"
  <2>1. h.refetch = {"invoices"}
    BY <1>7 DEF JobHandler
  <2> QED BY <1>7, <2>1 DEF JobAfter, JobAccepts, JobRows, JobStatuses, JobQueries, Moves, QuoteMade
<1>8. CASE h.op = "issue"
  <2>1. h.refetch = {"invoices"}
    BY <1>8 DEF JobHandler
  <2> QED BY <1>8, <2>1 DEF JobAfter, JobAccepts, JobRows, JobStatuses, JobQueries, Moves, QuoteMade
<1>9. CASE h.op = "pay"
  <2>1. h.refetch = {"cards"}
    BY <1>9 DEF JobHandler
  <2> QED BY <1>9, <2>1 DEF JobAfter, JobAccepts, JobRows, JobStatuses, JobQueries, Moves, QuoteMade
<1> QED BY <1>1, <1>2, <1>3, <1>4, <1>5, <1>6, <1>7, <1>8, <1>9 DEF JobHandler

LEMMA JobMoved ==
  ASSUME NEW job \in JobRows, NEW after \in JobMoves(job)
  PROVE  /\ after \in JobRows
         /\ QuoteMade(job) => QuoteMade(after)
         /\ job.status = "cancelled" => after.status = "cancelled"
<1>0. job.status \in JobStatuses
  BY DEF JobRows
<1>1. ASSUME job.quote = "sent", NEW a \in {"approved", "rejected"}, after \in Decided(job, a)
      PROVE  \/ after = [job EXCEPT !.quote = a] /\ job.extension
             \/ /\ job.status \in {"submitted", "quoted", "workers_assigned"}
                /\ \/ after = [job EXCEPT !.quote = a, !.status = a] /\ a = "approved"
                   \/ after = [job EXCEPT !.quote = a, !.status = "under_review"]
  BY <1>1, <1>0, JobMovesAre DEF Decided, When
<1>2. ASSUME NEW a \in {"approved", "rejected", "expired"}, after = [job EXCEPT !.quote = a]
      PROVE  after \in JobRows /\ after.status = job.status /\ after.quote # "none"
  BY <1>2 DEF JobRows
<1>3. ASSUME NEW a \in {"approved", "rejected", "expired"}, NEW to \in JobStatuses,
             after = [job EXCEPT !.quote = a, !.status = to]
      PROVE  after \in JobRows /\ after.status = to /\ after.quote # "none"
  BY <1>3 DEF JobRows
<1>4. CASE after \in When(job.quote = "sent", (UNION {Decided(job, a) : a \in {"approved", "rejected"}}) \cup Expired(job))
  <2>1. job.quote = "sent" /\ after \in (UNION {Decided(job, a) : a \in {"approved", "rejected"}}) \cup Expired(job)
    BY <1>4 DEF When
  <2>2. CASE after \in UNION {Decided(job, a) : a \in {"approved", "rejected"}}
    <3>1. PICK a \in {"approved", "rejected"} : after \in Decided(job, a)
      BY <2>2
    <3> QED BY <1>1, <1>2, <1>3, <2>1, <3>1 DEF QuoteMade, JobStatuses
  <2>3. CASE after \in Expired(job)
    <3>1. PICK to \in JobStatuses : /\ after = [job EXCEPT !.quote = "expired", !.status = to]
                                    /\ to = job.status \/ job.status # "cancelled"
      BY <1>0, <2>3, JobMovesAre DEF Expired, JobStatuses
    <3> QED BY <1>3, <3>1 DEF QuoteMade
  <2> QED BY <2>1, <2>2, <2>3
<1>5. CASE after \in When(Stage(job) \in {"mid", "end"}, {[job EXCEPT !.paid = p] : p \in {"part", "advance"}})
  <2>1. PICK p \in {"part", "advance"} : after = [job EXCEPT !.paid = p]
    BY <1>5 DEF When
  <2> QED BY <2>1 DEF JobRows, QuoteMade
<1>6. CASE after \in When(job.status \in {"workers_assigned", "in_progress"}, {[job EXCEPT !.crew = c] : c \in (SUBSET Days) \ {{}}})
  <2>1. PICK c \in SUBSET Days : after = [job EXCEPT !.crew = c]
    BY <1>6 DEF When
  <2> QED BY <2>1 DEF JobRows, QuoteMade
<1>7. CASE after \in When(job.status = "workers_assigned", {[job EXCEPT !.status = "in_progress", !.unapproved = TRUE]})
  <2>1. job.status = "workers_assigned" /\ after = [job EXCEPT !.status = "in_progress", !.unapproved = TRUE]
    BY <1>7 DEF When
  <2> QED BY <2>1 DEF JobRows, JobStatuses, QuoteMade
<1>8. CASE after \in When(job.unapproved, {[job EXCEPT !.unapproved = FALSE]})
  <2>1. after = [job EXCEPT !.unapproved = FALSE]
    BY <1>8 DEF When
  <2> QED BY <2>1 DEF JobRows, QuoteMade
<1> QED BY <1>4, <1>5, <1>6, <1>7, <1>8 DEF JobMoves

LEMMA JobPatched ==
  ASSUME NEW seen \in JobRows, NEW job \in JobRows, NEW q \in DOMAIN JobQueries
  PROVE  /\ Patched(seen, Part(job, JobQueries[q])) \in JobRows
         /\ Patched(seen, Part(job, JobQueries[q])).status = IF q = "detail" THEN job.status ELSE seen.status
BY DEF Patched, Part, JobQueries, JobRows, JobStatuses

LEMMA JobOpened == ASSUME NEW job \in JobStarts PROVE job \in JobRows /\ QuoteMade(job)
<1>1. NewJob \in JobRows /\ QuoteMade(NewJob)
  BY DEF JobRows, JobStatuses, NewJob, Days, QuoteMade
<1>2. Quoted \in JobRows /\ Quoted.quote = "sent"
  BY <1>1 DEF JobRows, JobStatuses, Quoted
<1>3. [Quoted EXCEPT !.advance = FALSE] \in JobRows /\ [Quoted EXCEPT !.advance = FALSE].quote = "sent"
  BY <1>2 DEF JobRows, JobStatuses
<1>4. ASSUME NEW status \in JobStatuses, NEW crew \in SUBSET Days
      PROVE  Working(status, crew) \in JobRows /\ Working(status, crew).quote = "approved"
  BY <1>2 DEF JobRows, JobStatuses, Working
<1>5. ASSUME NEW working \in JobRows, NEW new, working.quote = "approved",
             \/ new = [working EXCEPT !.paid = "advance"]
             \/ new = [working EXCEPT !.paid = "advance", !.unapproved = TRUE]
      PROVE  new \in JobRows /\ new.quote = "approved"
  BY <1>5 DEF JobRows, JobStatuses
<1>6. /\ Working("approved", {}) \in JobRows /\ Working("workers_assigned", {1}) \in JobRows
      /\ Working("in_progress", {1, 2}) \in JobRows
      /\ Working("approved", {}).quote = "approved" /\ Working("workers_assigned", {1}).quote = "approved"
      /\ Working("in_progress", {1, 2}).quote = "approved"
  BY <1>4 DEF JobStatuses, Days
<1> QED BY <1>1, <1>2, <1>3, <1>5, <1>6 DEF JobStarts, QuoteMade

(* What the page offers of a current copy is accepted.                     *)
LEMMA JobOffered ==
  ASSUME NEW job \in JobRows, NEW copy \in JobRows, QuoteMade(job), NEW h \in JobOffers(copy),
         \A q \in DOMAIN JobQueries : Part(copy, JobQueries[q]) = Part(job, JobQueries[q])
  PROVE  h.op \in JobLoose(job) \/ JobAccepts(job, h)
<1>1. /\ copy.status = job.status /\ copy.quote = job.quote /\ copy.invoice = job.invoice
      /\ copy.crew = job.crew /\ copy.settled = job.settled
  <2>1. \A q \in DOMAIN JobQueries : \A f \in JobQueries[q] : copy[f] = job[f]
    BY PartsAgree
  <2> QED BY <2>1 DEF JobQueries
<1>2. CASE h \in HeaderOffers(copy) \cup MenuOffers(copy)
  <2>1. \/ h.op = "review" /\ job.status = "submitted"
        \/ h.op \in JobLoose(job)
        \/ h.op = "reject" /\ h.arg # "blank" /\ job.status \in {"under_review", "quoted"}
        \/ h.op = "cancel" /\ h.arg = "long" /\ job.status \notin {"completed", "rejected", "cancelled"}
    BY <1>1, <1>2 DEF HeaderOffers, MenuOffers, When, HandleMarkUnderReview, HandleMarkComplete,
         HandleRequestExtension, HandleReject, HandleCancel, Handler, JobLoose,
         RejectDialog, CancelDialog, Reasons
  <2>2. job.status \in JobStatuses
    BY DEF JobRows
  <2> QED BY <2>1, <2>2, JobMovesAre DEF JobAccepts
<1>3. CASE h \in QuoteOffers(copy)
  <2>1. /\ h.op = "quote" /\ h.arg.rate \in 0..1 /\ h.arg.rate > 0
        /\ job.status = "under_review" /\ job.quote \in {"none", "rejected", "expired"}
    BY <1>1, <1>3 DEF QuoteOffers, When, HandleSubmitQuote, QuoteForm, Handler, QuoteFormOpens
  <2> QED BY <2>1 DEF JobAccepts, Moves
<1>4. CASE h \in InvoiceOffers(copy)
  <2>1. \/ h.op = "generate" /\ job.invoice = "none"
        \/ h.op = "issue" /\ job.invoice = "draft"
    BY <1>1, <1>4 DEF InvoiceOffers, When, HandleGenerate, HandleIssue, Handler
  <2>2. job.status = "completed"
    BY <1>1, <1>4 DEF InvoiceOffers, When, SectionsShown, Stage, JobRows, JobStatuses
  <2>3. job.quote # "none"
    BY <2>2 DEF QuoteMade
  <2> QED BY <2>1, <2>2, <2>3 DEF JobAccepts
<1>5. CASE h \in PaymentOffers(copy)
  <2>1. /\ h.op = "pay" /\ h.arg = Card(copy) /\ copy.crew # {} /\ copy.crew \cap copy.settled = {}
    BY <1>5 DEF PaymentOffers, When, RecordPayment, Handler
  <2>2. Card(copy) \in copy.crew
    <3>1. \E a \in copy.crew : \A b \in copy.crew : b <= a
      BY <2>1 DEF JobRows, Days
    <3> QED BY <3>1 DEF Card
  <2> QED BY <1>1, <2>1, <2>2 DEF JobAccepts
<1> QED BY <1>2, <1>3, <1>4, <1>5 DEF JobOffers
-----------------------------------------------------------------------------
(* The calendar and the list of assignments.                               *)
BoardHandler(h) ==
  /\ IsHandler(h) /\ h.told
  /\ \/ /\ h.op = "assign" /\ h.refetch = {"board", "matches"}
        /\ h.arg.worker \in Staff /\ h.arg.days \in SUBSET WorkDays
     \/ /\ h.op = "status" /\ h.refetch = {"board"}
        /\ h.arg.post[1] \in Staff /\ h.arg.post[2] \in WorkDays /\ h.arg.to \in Open \cup Freeing
     \/ /\ h.op = "replace" /\ h.refetch = {"board", "matches"}
        /\ h.arg.post[1] \in Staff /\ h.arg.post[2] \in WorkDays /\ h.arg.worker \in Staff

LEMMA BoardHandlers ==
  ASSUME NEW copy \in BoardRows, NEW h \in BoardOffers(copy)
  PROVE  BoardHandler(h)
<1>1. CASE h \in CalendarOffers(copy)
  <2>1. PICK days \in SUBSET WorkDays, w \in Staff : h = HandleAssignWorker(w, days)
    <3>1. PICK days \in (SUBSET WorkDays) \ {{}} :
            h \in {HandleAssignWorker(w, days) : w \in UNION {CalendarPanel(copy, focus) : focus \in days}}
      BY <1>1 DEF CalendarOffers
    <3>2. PICK w \in UNION {CalendarPanel(copy, focus) : focus \in days} : h = HandleAssignWorker(w, days)
      BY <3>1
    <3>3. \A focus \in days : CalendarPanel(copy, focus) \subseteq Staff
      BY DEF CalendarPanel, When, BoardRows
    <3> QED BY <3>2, <3>3
  <2> QED BY <2>1 DEF HandleAssignWorker, HandlerAlways, Handler, BoardHandler, IsHandler
<1>2. CASE h \in ListOffers(copy)
  <2>1. PICK p \in Staff \X WorkDays : h \in RowOffers(copy, p)
    BY <1>2 DEF ListOffers, Posts
  <2>2. CASE \E to \in Open \cup Freeing : h = HandleChange(p, to)
    BY <2>2 DEF HandleChange, Handler, BoardHandler, IsHandler
  <2>3. CASE h \in UNION {HandleReplaceSubmit(p, w) : w \in ReplaceDialog(copy)}
    <3>1. PICK w \in Staff : h \in HandleReplaceSubmit(p, w)
      BY <2>3 DEF ReplaceDialog, BoardRows
    <3>2. PICK r : h = Handler("replace", [post |-> p, worker |-> w, reason |-> r], {"board", "matches"}, TRUE)
      BY <3>1 DEF HandleReplaceSubmit
    <3> QED BY <3>2 DEF Handler, BoardHandler, IsHandler
  <2> QED BY <2>1, <2>2, <2>3 DEF RowOffers, When
<1> QED BY <1>1, <1>2 DEF BoardOffers

LEMMA DayAssigned ==
  ASSUME NEW board \in BoardRows, NEW w \in Staff, NEW d \in WorkDays
  PROVE  AssignDay(board, w, d) \in BoardRows
BY DEF AssignDay, BoardRows, Open

LEMMA DaysAssigned ==
  ASSUME NEW board \in BoardRows, NEW w \in Staff, NEW days \in SUBSET WorkDays
  PROVE  AssignDays(board, w, days) \in BoardRows
BY DayAssigned DEF AssignDays, WorkDays

LEMMA StatusWritten ==
  ASSUME NEW board \in BoardRows, NEW w \in Staff, NEW d \in WorkDays, NEW to \in Open \cup Freeing
  PROVE  StatusAfter(board, w, d, to) \in BoardRows
<1> DEFINE moved == [board EXCEPT !.post[w][d] = to, !.free = IF to \in Freeing THEN @ \cup {w} ELSE @]
<1>1. moved \in BoardRows
  BY DEF BoardRows
<1>2. [moved EXCEPT !.status = "approved"] \in BoardRows
  BY <1>1 DEF BoardRows
<1> QED BY <1>1, <1>2 DEF StatusAfter

LEMMA BoardServes ==
  ASSUME NEW board \in BoardRows, NEW h, BoardHandler(h)
  PROVE  /\ BoardAfter(board, h) \in BoardRows
         /\ BoardRefused(board, h) \in BoardRows
         /\ \A q \in DOMAIN BoardQueries \ (h.refetch \cup BoardMissed(h.op) \cup {"matches"}) :
              \A f \in BoardQueries[q] : BoardAfter(board, h)[f] = board[f]
<1>1. CASE h.op = "assign"
  <2>1. h.refetch = {"board", "matches"} /\ h.arg.worker \in Staff /\ h.arg.days \in SUBSET WorkDays
    BY <1>1 DEF BoardHandler
  <2> QED BY <1>1, <2>1, DaysAssigned DEF BoardAfter, BoardRefused, BoardQueries, BoardMissed, When
<1>2. CASE h.op = "status"
  <2>1. h.refetch = {"board"} /\ h.arg.post[1] \in Staff /\ h.arg.post[2] \in WorkDays /\ h.arg.to \in Open \cup Freeing
    BY <1>2 DEF BoardHandler
  <2> QED BY <1>2, <2>1, StatusWritten DEF BoardAfter, BoardRefused, BoardQueries, BoardMissed, When
<1>3. CASE h.op = "replace"
  <2>1. h.refetch = {"board", "matches"} /\ h.arg.post[1] \in Staff /\ h.arg.post[2] \in WorkDays /\ h.arg.worker \in Staff
    BY <1>3 DEF BoardHandler
  <2>2. BoardAfter(board, h) \in BoardRows
    BY <1>3, <2>1 DEF BoardAfter, BoardRows, Open, Excluded, Freeing
  <2>3. BoardAfter(board, h).status = board.status /\ BoardAfter(board, h).unpaid = board.unpaid
    BY <1>3, <2>1 DEF BoardAfter, BoardRows
  <2> QED BY <1>3, <2>1, <2>2, <2>3 DEF BoardRefused, BoardQueries
<1> QED BY <1>1, <1>2, <1>3 DEF BoardHandler

LEMMA BoardMoved ==
  ASSUME NEW board \in BoardRows, NEW after \in BoardMoves(board)
  PROVE  after \in BoardRows
<1> DEFINE Replies == UNION {{StatusAfter(board, p[1], p[2], to) : to \in {"accepted", "declined"}} :
                          p \in {q \in Posts(board) : board.post[q[1]][q[2]] = "assigned"}}
           Begun    == {[board EXCEPT !.post[p[1]][p[2]] = "active", !.status = "in_progress"] :
                          p \in {q \in Posts(board) : board.post[q[1]][q[2]] = "accepted"}}
           Freed    == {[board EXCEPT !.free = @ \cup {w}] : w \in Staff}
           Paid     == {[board EXCEPT !.unpaid = FALSE]}
<1>0. BoardMoves(board) = Replies \cup Begun \cup Freed \cup Paid
  BY DEF BoardMoves
<1>1. Posts(board) \subseteq Staff \X WorkDays
  BY DEF Posts
<1>2. ASSUME after \in Replies PROVE after \in BoardRows
  <2>1. PICK p \in Posts(board), to \in {"accepted", "declined"} : after = StatusAfter(board, p[1], p[2], to)
    BY <1>2
  <2> QED BY <1>1, <2>1, StatusWritten DEF Open, Freeing, Excluded
<1>3. ASSUME after \in Begun PROVE after \in BoardRows
  <2>1. PICK p \in Posts(board) : after = [board EXCEPT !.post[p[1]][p[2]] = "active", !.status = "in_progress"]
    BY <1>3
  <2>2. p[1] \in Staff /\ p[2] \in WorkDays
    BY <1>1
  <2> QED BY <2>1, <2>2 DEF BoardRows, Open
<1>4. ASSUME after \in Freed PROVE after \in BoardRows
  BY <1>4 DEF BoardRows
<1>5. ASSUME after \in Paid PROVE after \in BoardRows
  BY <1>5 DEF BoardRows
<1> HIDE DEF Replies, Begun, Freed, Paid
<1> QED BY <1>0, <1>2, <1>3, <1>4, <1>5

LEMMA BoardPatched ==
  ASSUME NEW seen \in BoardRows, NEW board \in BoardRows, NEW q \in DOMAIN BoardQueries
  PROVE  Patched(seen, Part(board, BoardQueries[q])) \in BoardRows
BY DEF Patched, Part, BoardQueries, BoardRows

LEMMA BoardOpened == ASSUME NEW board \in BoardStarts PROVE board \in BoardRows
<1>1. Empty \in BoardRows
  BY DEF Empty, NoPosts, BoardRows
<1>2. CASE board = [Empty EXCEPT !.unpaid = TRUE]
  BY <1>1, <1>2 DEF BoardRows
<1>3. CASE board = [Empty EXCEPT !.status = "workers_assigned", !.post["w1"][1] = "accepted", !.free = {"w2"}]
  BY <1>1, <1>3 DEF BoardRows, Staff, WorkDays, Open
<1>4. CASE board = [Empty EXCEPT !.status = "workers_assigned", !.post["w1"] = <<"assigned", "accepted">>, !.free = {"w1", "w2"}]
  <2>1. <<"assigned", "accepted">> \in [WorkDays -> Open \cup Freeing \cup {"none"}]
    BY DEF WorkDays, Open
  <2> QED BY <1>1, <1>4, <2>1 DEF BoardRows, Staff
<1> QED BY <1>1, <1>2, <1>3, <1>4 DEF BoardStarts

LEMMA BoardOffered ==
  ASSUME NEW board \in BoardRows, NEW copy \in BoardRows, NEW h \in BoardOffers(copy),
         \A q \in DOMAIN BoardQueries : Part(copy, BoardQueries[q]) = Part(board, BoardQueries[q])
  PROVE  h.op \in BoardLoose(board) \/ LeftTwice(board, h) \/ BoardAccepts(board, h)
<1>1. copy.post = board.post /\ copy.free = board.free
  <2>1. \A q \in DOMAIN BoardQueries : \A f \in BoardQueries[q] : copy[f] = board[f]
    BY PartsAgree
  <2> QED BY <2>1 DEF BoardQueries
<1>2. CASE h \in CalendarOffers(copy)
  <2>1. PICK days \in (SUBSET WorkDays) \ {{}} :
          h \in {HandleAssignWorker(w, days) : w \in UNION {CalendarPanel(copy, focus) : focus \in days}}
    BY <1>2 DEF CalendarOffers
  <2>2. PICK w : h = HandleAssignWorker(w, days)
    BY <2>1
  <2> QED BY <2>2 DEF HandleAssignWorker, HandlerAlways, Handler, BoardLoose
<1>3. CASE h \in ListOffers(copy)
  <2>1. PICK p \in Posts(copy) : h \in RowOffers(copy, p)
    BY <1>3 DEF ListOffers
  <2>2. CASE \E to : h = HandleChange(p, to)
    BY <2>2 DEF HandleChange, Handler, BoardLoose
  <2>3. CASE h \in When(copy.post[p[1]][p[2]] \in Open, UNION {HandleReplaceSubmit(p, w) : w \in ReplaceDialog(copy)})
    <3>1. copy.post[p[1]][p[2]] \in Open /\ h \in UNION {HandleReplaceSubmit(p, w) : w \in ReplaceDialog(copy)}
      BY <2>3 DEF When
    <3>2. PICK w \in ReplaceDialog(copy) : h \in HandleReplaceSubmit(p, w)
      BY <3>1
    <3>3. h.op = "replace" /\ h.arg.post = p /\ h.arg.worker = w
      BY <3>2 DEF HandleReplaceSubmit, Handler
    <3>4. w \in board.free /\ OpenDays(board, w) = {}
      BY <1>1, <3>2 DEF ReplaceDialog, OpenDays
    <3>5. Cardinality({d \in WorkDays : board.post[w][d] # "none"}) \in Nat
      <4>1. IsFiniteSet({}) /\ IsFiniteSet({} \cup {1}) /\ IsFiniteSet(({} \cup {1}) \cup {2})
        BY FS_EmptySet, FS_AddElement
      <4>2. WorkDays = ({} \cup {1}) \cup {2}
        BY DEF WorkDays
      <4>3. IsFiniteSet({d \in WorkDays : board.post[w][d] # "none"})
        BY <4>1, <4>2, FS_Subset
      <4> QED BY <4>3, FS_CardinalityType
    <3> QED BY <1>1, <3>1, <3>3, <3>4, <3>5 DEF BoardAccepts, ReplaceTaken, LeftTwice
  <2> QED BY <2>1, <2>2, <2>3 DEF RowOffers
<1> QED BY <1>2, <1>3 DEF BoardOffers
-----------------------------------------------------------------------------
(* The pages of a payroll run and of finance.                              *)
PayrollHandler(h) ==
  \/ h.op \in {"generate_run", "deduct", "recalculate", "payout"} /\ h.refetch = {"detail"}
  \/ h.op = "run_status" /\ h.arg \in RunStatuses /\ h.refetch = {"detail"}
  \/ /\ h.op = "payout_status" /\ h.refetch = {"payouts"}
     /\ h.arg.payout \in Payouts /\ h.arg.to \in PayoutStatuses

FinanceHandler(h) ==
  \/ h.op \in {"confirm", "reject_pay"} /\ h.arg = "advance" /\ h.refetch = {"payments"}
  \/ h.op = "transfer" /\ h.refetch = {"queue"}

MoneyHandler(row, h) ==
  /\ IsHandler(h) /\ h.told
  /\ IF row.about = "payroll" THEN PayrollHandler(h) ELSE FinanceHandler(h)

LEMMA MoneyHandlers ==
  ASSUME NEW row \in MoneyRows, NEW copy \in MoneyRows, row.about = copy.about, NEW h \in MoneyOffers(copy)
  PROVE  MoneyHandler(row, h)
<1>1. CASE row.about = "payroll"
  <2>1. IsHandler(h) /\ h.told /\ PayrollHandler(h)
    <3>1. CASE h \in RunOffers(copy)
      BY <3>1 DEF RunOffers, HandleUpdateRun, HandleGeneratePayroll, When, Handler, IsHandler, PayrollHandler
    <3>2. CASE h \in ItemOffers(copy)
      BY <3>2 DEF ItemOffers, HandleCreatePayout, HandleDeduct, HandleRecalculate, When, Handler, IsHandler, PayrollHandler
    <3>3. CASE h \in PayoutOffers(copy)
      <4>1. PICK n \in Payouts, to \in PayoutStatuses : h = HandleUpdatePayout(n, to)
        BY <3>3 DEF PayoutOffers, When
      <4> QED BY <4>1 DEF HandleUpdatePayout, Handler, IsHandler, PayrollHandler
    <3> QED BY <1>1, <3>1, <3>2, <3>3 DEF MoneyOffers
  <2> QED BY <1>1, <2>1 DEF MoneyHandler
<1>2. CASE row.about # "payroll"
  <2>1. h \in IncomingOffers(copy) \cup QueueOffers(copy)
    BY <1>2 DEF MoneyOffers
  <2>2. IsHandler(h) /\ h.told /\ FinanceHandler(h)
    BY <2>1 DEF IncomingOffers, QueueOffers, HandleConfirm, HandleRejectPay, HandleTransferAll, When, Handler,
                IsHandler, FinanceHandler
  <2> QED BY <1>2, <2>2 DEF MoneyHandler
<1> QED BY <1>1, <1>2

LEMMA MoneyServes ==
  ASSUME NEW row \in MoneyRows, NEW h, MoneyHandler(row, h), MoneyAccepts(row, h)
  PROVE  /\ MoneyAfter(row, h) \in MoneyRows
         /\ MoneyAfter(row, h).about = row.about
         /\ \A q \in DOMAIN MoneyQueries(row) \ (h.refetch \cup MoneyMissed(h.op)) :
              \A f \in MoneyQueries(row)[q] : MoneyAfter(row, h)[f] = row[f]
<1>1. CASE row.about = "payroll"
  <2>0. row \in PayrollRows /\ MoneyQueries(row) = [detail |-> {"run", "item", "stale", "cut"}, payouts |-> {"payout"}]
    BY <1>1 DEF MoneyRows, FinanceRows, MoneyQueries
  <2> DEFINE after == MoneyAfter(row, h)
  <2> SUFFICES /\ after \in PayrollRows
               /\ "detail" \notin h.refetch \cup MoneyMissed(h.op) =>
                    /\ after.run = row.run /\ after.item = row.item
                    /\ after.stale = row.stale /\ after.cut = row.cut
               /\ "payouts" \notin h.refetch \cup MoneyMissed(h.op) => after.payout = row.payout
    BY <1>1, <2>0 DEF MoneyRows, PayrollRows
  <2>1. CASE h.op = "generate_run"
    BY <1>1, <2>0, <2>1 DEF MoneyHandler, PayrollHandler, MoneyAfter, PayrollRows, RunStatuses
  <2>2. CASE h.op = "run_status"
    BY <1>1, <2>0, <2>2 DEF MoneyHandler, PayrollHandler, MoneyAfter, PayrollRows
  <2>3. CASE h.op \in {"deduct", "recalculate"}
    BY <1>1, <2>0, <2>3 DEF MoneyHandler, PayrollHandler, MoneyAfter, PayrollRows
  <2>4. CASE h.op = "payout"
    <3> DEFINE first == CHOOSE n \in FreePayouts(row) : \A m \in FreePayouts(row) : n <= m
    <3>1. first \in Payouts
      <4>1. FreePayouts(row) # {} /\ FreePayouts(row) \subseteq Payouts
        BY <2>4 DEF MoneyAccepts, FreePayouts
      <4>2. \E n \in FreePayouts(row) : \A m \in FreePayouts(row) : n <= m
        BY <4>1 DEF Payouts
      <4> QED BY <4>1, <4>2
    <3>2. after = [row EXCEPT !.payout[first] = "pending"]
      BY <2>4 DEF MoneyAfter
    <3>3. h.refetch = {"detail"} /\ MoneyMissed(h.op) = {"payouts"}
      BY <1>1, <2>4 DEF MoneyHandler, PayrollHandler, MoneyMissed
    <3> HIDE DEF first, after
    <3> QED BY <2>0, <3>1, <3>2, <3>3 DEF PayrollRows, PayoutStatuses
  <2>5. CASE h.op = "payout_status"
    <3>1. /\ h.refetch = {"payouts"} /\ MoneyMissed(h.op) = {"detail"}
          /\ h.arg.payout \in Payouts /\ h.arg.to \in PayoutStatuses
      BY <1>1, <2>5 DEF MoneyHandler, PayrollHandler, MoneyMissed
    <3> QED BY <2>0, <2>5, <3>1 DEF MoneyAfter, PayrollRows, PayoutStatuses
  <2> QED BY <1>1, <2>1, <2>2, <2>3, <2>4, <2>5 DEF MoneyHandler, PayrollHandler
<1>2. CASE row.about # "payroll"
  <2>0. row \in FinanceRows /\ MoneyQueries(row) = [payments |-> {"pay"}, queue |-> {"run", "item"}]
    BY <1>2 DEF MoneyRows, PayrollRows, MoneyQueries
  <2> DEFINE after == MoneyAfter(row, h)
  <2> SUFFICES /\ after \in FinanceRows
               /\ "payments" \notin h.refetch => after.pay = row.pay
               /\ "queue" \notin h.refetch => after.run = row.run /\ after.item = row.item
    BY <1>2, <2>0 DEF MoneyRows, FinanceRows
  <2>1. CASE h.op = "confirm"
    BY <1>2, <2>0, <2>1 DEF MoneyHandler, FinanceHandler, MoneyAfter, FinanceRows, Purposes
  <2>2. CASE h.op = "reject_pay"
    BY <1>2, <2>0, <2>2 DEF MoneyHandler, FinanceHandler, MoneyAfter, FinanceRows, Purposes
  <2>3. CASE h.op = "transfer"
    BY <1>2, <2>0, <2>3 DEF MoneyHandler, FinanceHandler, MoneyAfter, FinanceRows, RunStatuses
  <2> QED BY <1>2, <2>1, <2>2, <2>3 DEF MoneyHandler, FinanceHandler
<1> QED BY <1>1, <1>2

LEMMA MoneyMoved ==
  ASSUME NEW row \in MoneyRows, NEW after \in MoneyMoves(row)
  PROVE  after \in MoneyRows /\ after.about = row.about
<1>1. CASE row.about = "payroll"
  <2>1. row \in PayrollRows /\ after = [row EXCEPT !.stale = TRUE]
    BY <1>1 DEF MoneyRows, FinanceRows, MoneyMoves, When
  <2> QED BY <1>1, <2>1 DEF MoneyRows, PayrollRows
<1>2. CASE row.about # "payroll"
  <2>0. row \in FinanceRows
    BY <1>2 DEF MoneyRows, PayrollRows
  <2>1. CASE after = [row EXCEPT !.fits = FALSE]
    BY <2>0, <2>1 DEF MoneyRows, FinanceRows
  <2>2. CASE after \in {[row EXCEPT !.pay[p] = "pending"] : p \in {q \in Purposes : row.pay[q] = "failed"}}
    <3>1. PICK p \in Purposes : after = [row EXCEPT !.pay[p] = "pending"]
      BY <2>2
    <3> QED BY <2>0, <3>1 DEF MoneyRows, FinanceRows
  <2>3. CASE after \in When(~IsLocked(row), {[row EXCEPT !.run = to] : to \in RunStatuses})
    <3>1. PICK to \in RunStatuses : after = [row EXCEPT !.run = to]
      BY <2>3 DEF When
    <3> QED BY <2>0, <3>1 DEF MoneyRows, FinanceRows
  <2>4. CASE after \in When(~IsLocked(row) /\ row.item = "none", {[row EXCEPT !.run = "generated", !.item = "unpaid"]})
    <3>1. after = [row EXCEPT !.run = "generated", !.item = "unpaid"]
      BY <2>4 DEF When
    <3> QED BY <2>0, <3>1 DEF MoneyRows, FinanceRows, RunStatuses
  <2> QED BY <1>2, <2>1, <2>2, <2>3, <2>4 DEF MoneyMoves
<1> QED BY <1>1, <1>2

LEMMA MoneyPatched ==
  ASSUME NEW seen \in MoneyRows, NEW row \in MoneyRows, seen.about = row.about, NEW q \in DOMAIN MoneyQueries(row)
  PROVE  /\ Patched(seen, Part(row, MoneyQueries(row)[q])) \in MoneyRows
         /\ Patched(seen, Part(row, MoneyQueries(row)[q])).about = row.about
<1>1. CASE row.about = "payroll"
  <2>1. row \in PayrollRows /\ seen \in PayrollRows
    BY <1>1 DEF MoneyRows, FinanceRows
  <2> QED BY <1>1, <2>1 DEF Patched, Part, MoneyQueries, MoneyRows, PayrollRows
<1>2. CASE row.about # "payroll"
  <2>1. row \in FinanceRows /\ seen \in FinanceRows
    BY <1>2 DEF MoneyRows, PayrollRows
  <2> QED BY <1>2, <2>1 DEF Patched, Part, MoneyQueries, MoneyRows, FinanceRows
<1> QED BY <1>1, <1>2

LEMMA MoneyOpened == ASSUME NEW row \in MoneyStarts PROVE row \in MoneyRows
<1>1. CASE row.about = "payroll"
  <2>1. row = [about |-> "payroll", run |-> "draft", item |-> "none", stale |-> FALSE, cut |-> FALSE,
               payout |-> [n \in Payouts |-> "none"]]
    BY <1>1 DEF MoneyStarts
  <2>2. [n \in Payouts |-> "none"] \in [Payouts -> PayoutStatuses \cup {"none"}]
    OBVIOUS
  <2> QED BY <2>1, <2>2 DEF MoneyRows, PayrollRows, RunStatuses
<1>2. CASE row.about # "payroll"
  BY <1>2 DEF MoneyStarts, MoneyRows, FinanceRows, RunStatuses
<1> QED BY <1>1, <1>2

LEMMA MoneyOffered ==
  ASSUME NEW row \in MoneyRows, NEW copy \in MoneyRows, row.about = copy.about, NEW h \in MoneyOffers(copy),
         \A q \in DOMAIN MoneyQueries(row) : Part(copy, MoneyQueries(row)[q]) = Part(row, MoneyQueries(row)[q])
  PROVE  h.op \in MoneyLoose(row) \/ MoneyAccepts(row, h)
<1>0. \A q \in DOMAIN MoneyQueries(row) : \A f \in MoneyQueries(row)[q] : copy[f] = row[f]
  BY PartsAgree
<1>1. CASE row.about = "payroll"
  <2>1. copy.run = row.run /\ copy.item = row.item /\ copy.stale = row.stale
    BY <1>0, <1>1 DEF MoneyQueries
  <2>2. CASE h \in RunOffers(copy)
    BY <2>2 DEF RunOffers, HandleUpdateRun, HandleGeneratePayroll, When, Handler, MoneyLoose
  <2>3. CASE h \in ItemOffers(copy)
    <3>1. \/ h.op = "payout"
          \/ h.op = "deduct" /\ row.item # "none" /\ row.run # "locked"
          \/ h.op = "recalculate" /\ row.stale /\ row.item # "paid" /\ row.run # "locked"
      BY <2>1, <2>3 DEF ItemOffers, HandleCreatePayout, HandleDeduct, HandleRecalculate, When, Handler, IsLocked
    <3> QED BY <3>1 DEF MoneyLoose, MoneyAccepts, IsLocked
  <2>4. CASE h \in PayoutOffers(copy)
    <3>1. h.op = "payout_status"
      BY <2>4 DEF PayoutOffers, HandleUpdatePayout, When, Handler
    <3> QED BY <3>1 DEF MoneyAccepts
  <2> QED BY <1>1, <2>2, <2>3, <2>4 DEF MoneyOffers
<1>2. CASE row.about # "payroll"
  <2>1. h \in IncomingOffers(copy) \cup QueueOffers(copy)
    BY <1>2 DEF MoneyOffers
  <2>2. h.op \in {"confirm", "reject_pay", "transfer"}
    BY <2>1 DEF IncomingOffers, QueueOffers, HandleConfirm, HandleRejectPay, HandleTransferAll, When, Handler
  <2> QED BY <2>2 DEF MoneyLoose, MoneyAccepts
<1> QED BY <1>1, <1>2
-----------------------------------------------------------------------------
(* The queue of workers, the clients, the admins.                          *)
WorkerReviewHandler(h) ==
  \/ h.op = "approve" /\ h.refetch = {"panel"} /\ ~h.told
  \/ h.op = "reject_worker" /\ h.refetch \subseteq {"panel"} /\ ~h.told
  \/ h.op = "availability" /\ h.refetch \subseteq {"panel"} /\ h.arg \in BOOLEAN /\ ~h.told
  \/ h.op = "edit_worker" /\ h.refetch = {"worker"} /\ h.told
     /\ \E c \in Details : \E p \in Details \cup {"taken"} : h.arg = [city |-> c, phone |-> p]

ClientsHandler(h) ==
  \/ h.op \in {"create_client", "deactivate"} /\ h.refetch = {"clients"} /\ h.told
  \/ h.op = "edit_client" /\ h.refetch = {"clients"} /\ h.told
     /\ \E n \in Details : \E g \in Details : h.arg = [name |-> n, gst |-> g]
  \/ h.op = "bar" /\ h.refetch = {"barred"} /\ h.told
  \/ h.op = "unbar" /\ h.refetch = {"barred"} /\ ~h.told

AdminsHandler(h) ==
  \/ h.op = "create_admin" /\ h.refetch = {"admins"} /\ h.told
  \/ h.op = "scope" /\ h.refetch = {"scope"} /\ h.told
  \/ h.op = "unscope" /\ h.refetch = {"scope"} /\ ~h.told

PeopleHandler(row, h) ==
  /\ IsHandler(h)
  /\ CASE row.about = "worker" -> WorkerReviewHandler(h)
       [] row.about = "client" -> ClientsHandler(h)
       [] row.about = "admin"  -> AdminsHandler(h)

LEMMA PeopleKinds ==
  ASSUME NEW row \in PeopleRows
  PROVE  \/ row.about = "worker" /\ row \in WorkerRecords
         \/ row.about = "client" /\ row \in ClientRecords
         \/ row.about = "admin" /\ row \in AdminRows
BY DEF PeopleRows, WorkerRecords, ClientRecords, AdminRows

LEMMA PeopleHandlers ==
  ASSUME NEW row \in PeopleRows, NEW copy \in PeopleRows, row.about = copy.about, NEW h \in PeopleOffers(copy)
  PROVE  PeopleHandler(row, h)
<1>1. CASE row.about = "worker"
  <2> SUFFICES IsHandler(h) /\ WorkerReviewHandler(h)
    BY <1>1 DEF PeopleHandler
  <2>1. CASE h \in WorkerReviewPanel(copy)
    <3>1. CASE h = HandleApprove
      BY <3>1 DEF HandleApprove, Handler, IsHandler, WorkerReviewHandler
    <3>2. CASE h \in HandleRejectWorker
      <4>1. PICK reason \in {"long", "short"}, clicked \in BOOLEAN :
              h = Handler("reject_worker", reason, ListRefetch(clicked), FALSE)
        BY <3>2 DEF HandleRejectWorker, Handler
      <4> QED BY <4>1 DEF Handler, IsHandler, WorkerReviewHandler, ListRefetch
    <3>3. CASE copy.step = "approved" /\ h \in ToggleAvailability(~copy.free)
      <4>1. PICK clicked \in BOOLEAN : h = Handler("availability", ~copy.free, ListRefetch(clicked), FALSE)
        BY <3>3 DEF ToggleAvailability
      <4> QED BY <4>1 DEF Handler, IsHandler, WorkerReviewHandler, ListRefetch
    <3> QED BY <2>1, <3>1, <3>2, <3>3 DEF WorkerReviewPanel, When
  <2>2. CASE h \in HandleSave(copy)
    <3>1. copy.phone \in Details
      BY <1>1, PeopleKinds DEF WorkerRecords
    <3>2. PICK c \in Details, p \in Details \cup {"taken"} :
            h = Handler("edit_worker", [city |-> c, phone |-> p], {"worker"}, TRUE)
      BY <2>2, <3>1 DEF HandleSave, Handler, Details
    <3> QED BY <3>2 DEF Handler, IsHandler, WorkerReviewHandler
  <2> QED BY <1>1, <2>1, <2>2 DEF PeopleOffers
<1>2. CASE row.about = "client"
  <2>1. CASE h \in HandleEditClient
    <3>1. PICK n \in Details, g \in Details : h = Handler("edit_client", [name |-> n, gst |-> g], {"clients"}, TRUE)
      BY <2>1 DEF HandleEditClient, Handler
    <3> QED BY <1>2, <3>1 DEF Handler, IsHandler, ClientsHandler, PeopleHandler
  <2>2. CASE h = HandleCreateClient \/ h = HandleDeactivate \/ h = HandleUnbar \/ h \in HandleBar
    BY <1>2, <2>2 DEF HandleCreateClient, HandleDeactivate, HandleUnbar, HandleBar, Handler, IsHandler,
       ClientsHandler, PeopleHandler
  <2> QED BY <1>2, <2>1, <2>2 DEF PeopleOffers, ClientsPage, BlacklistSection, When
<1>3. CASE row.about = "admin"
  BY <1>3 DEF PeopleOffers, AdminUserRow, When, HandleAdd, HandleRemove, HandleCreateAdmin, Handler, IsHandler,
     AdminsHandler, PeopleHandler
<1> QED BY <1>1, <1>2, <1>3, PeopleKinds

LEMMA PeopleServes ==
  ASSUME NEW row \in PeopleRows, NEW h, PeopleHandler(row, h), PeopleAccepts(row, h)
  PROVE  /\ PeopleAfter(row, h) \in PeopleRows
         /\ PeopleAfter(row, h).about = row.about
         /\ \A q \in DOMAIN PeopleQueries(row) \ (h.refetch \cup PeopleMissed(h.op)) :
              \A f \in PeopleQueries(row)[q] : PeopleAfter(row, h)[f] = row[f]
<1> DEFINE after == PeopleAfter(row, h)
<1>1. CASE row.about = "worker"
  <2>0. row \in WorkerRecords /\ WorkerReviewHandler(h)
        /\ PeopleQueries(row) = [panel |-> {"step", "verdict", "free"}, worker |-> {"city", "phone"}]
    BY <1>1, PeopleKinds DEF PeopleQueries, PeopleHandler
  <2> SUFFICES /\ after \in WorkerRecords
               /\ "panel" \notin h.refetch \cup PeopleMissed(h.op) =>
                    after.step = row.step /\ after.verdict = row.verdict /\ after.free = row.free
               /\ "worker" \notin h.refetch \cup PeopleMissed(h.op) =>
                    after.city = row.city /\ after.phone = row.phone
    BY <1>1, <2>0 DEF PeopleRows, WorkerRecords
  <2>1. CASE h.op = "approve"
    BY <2>0, <2>1 DEF WorkerReviewHandler, PeopleAfter, WorkerRecords
  <2>2. CASE h.op = "reject_worker"
    BY <2>0, <2>2 DEF WorkerReviewHandler, PeopleAfter, PeopleMissed, When, WorkerRecords
  <2>3. CASE h.op = "availability"
    BY <2>0, <2>3 DEF WorkerReviewHandler, PeopleAfter, PeopleMissed, When, WorkerRecords
  <2>4. CASE h.op = "edit_worker"
    <3>1. PICK c \in Details, p \in Details \cup {"taken"} : h.arg = [city |-> c, phone |-> p]
      BY <2>0, <2>4 DEF WorkerReviewHandler
    <3>2. p # "taken"
      BY <2>4, <3>1 DEF PeopleAccepts
    <3>3. after = Patched(row, [city |-> c, phone |-> p]) /\ h.refetch = {"worker"}
      BY <2>0, <2>4, <3>1 DEF PeopleAfter, WorkerReviewHandler
    <3> QED BY <2>0, <3>1, <3>2, <3>3 DEF WorkerRecords, Patched
  <2> QED BY <2>0, <2>1, <2>2, <2>3, <2>4 DEF WorkerReviewHandler
<1>2. CASE row.about = "client"
  <2>0. row \in ClientRecords /\ ClientsHandler(h)
        /\ PeopleQueries(row) = [clients |-> {"account", "name", "gst"}, barred |-> {"barred"}]
    BY <1>2, PeopleKinds DEF PeopleQueries, PeopleHandler
  <2> SUFFICES /\ after \in ClientRecords
               /\ "clients" \notin h.refetch =>
                    after.account = row.account /\ after.name = row.name /\ after.gst = row.gst
               /\ "barred" \notin h.refetch => after.barred = row.barred
    BY <1>2, <2>0 DEF PeopleRows, ClientRecords
  <2>1. CASE h.op \in {"create_client", "deactivate"}
    BY <2>0, <2>1 DEF ClientsHandler, PeopleAfter, ClientRecords
  <2>2. CASE h.op = "edit_client"
    <3>1. PICK n \in Details, g \in Details : h.arg = [name |-> n, gst |-> g]
      BY <2>0, <2>2 DEF ClientsHandler
    <3>3. after = Patched(row, [name |-> n, gst |-> g]) /\ h.refetch = {"clients"}
      BY <2>0, <2>2, <3>1 DEF PeopleAfter, ClientsHandler
    <3> QED BY <2>0, <3>1, <3>3 DEF ClientRecords, Patched
  <2>3. CASE h.op \in {"bar", "unbar"}
    BY <2>0, <2>3 DEF ClientsHandler, PeopleAfter, ClientRecords
  <2> QED BY <2>0, <2>1, <2>2, <2>3 DEF ClientsHandler
<1>3. CASE row.about = "admin"
  <2>0. row \in AdminRows /\ AdminsHandler(h)
        /\ PeopleQueries(row) = [admins |-> {"listed"}, scope |-> {"scoped"}, choices |-> {"client"}]
    BY <1>3, PeopleKinds DEF PeopleQueries, PeopleHandler
  <2> SUFFICES /\ after \in AdminRows
               /\ "admins" \notin h.refetch => after.listed = row.listed
               /\ "scope" \notin h.refetch => after.scoped = row.scoped
               /\ after.client = row.client
    BY <1>3, <2>0 DEF PeopleRows, AdminRows
  <2>1. CASE h.op = "create_admin"
    BY <2>0, <2>1 DEF AdminsHandler, PeopleAfter, AdminRows
  <2>2. CASE h.op \in {"scope", "unscope"}
    BY <2>0, <2>2 DEF AdminsHandler, PeopleAfter, AdminRows
  <2> QED BY <2>0, <2>1, <2>2 DEF AdminsHandler
<1> QED BY <1>1, <1>2, <1>3, PeopleKinds

LEMMA PeopleMoved ==
  ASSUME NEW row \in PeopleRows, NEW after \in PeopleMoves(row)
  PROVE  after \in PeopleRows /\ after.about = row.about
<1>1. CASE row.about = "worker"
  <2>1. row \in WorkerRecords
    BY <1>1, PeopleKinds
  <2>2. \/ after = [row EXCEPT !.step = "profile_submitted", !.verdict = "under_review"]
        \/ after = [row EXCEPT !.free = ~@]
    BY <1>1 DEF PeopleMoves, When
  <2> QED BY <2>1, <2>2 DEF PeopleRows, WorkerRecords
<1>2. CASE row.about = "client"
  <2>1. row \in ClientRecords
    BY <1>2, PeopleKinds
  <2>2. after = [row EXCEPT !.taken = TRUE]
    BY <1>2 DEF PeopleMoves, When
  <2> QED BY <2>1, <2>2 DEF PeopleRows, ClientRecords
<1>3. CASE row.about = "admin"
  <2>1. row \in AdminRows
    BY <1>3, PeopleKinds
  <2>2. after = [row EXCEPT !.client = "off"]
    BY <1>3 DEF PeopleMoves
  <2> QED BY <2>1, <2>2 DEF PeopleRows, AdminRows
<1> QED BY <1>1, <1>2, <1>3, PeopleKinds

LEMMA PeoplePatched ==
  ASSUME NEW seen \in PeopleRows, NEW row \in PeopleRows, seen.about = row.about, NEW q \in DOMAIN PeopleQueries(row)
  PROVE  /\ Patched(seen, Part(row, PeopleQueries(row)[q])) \in PeopleRows
         /\ Patched(seen, Part(row, PeopleQueries(row)[q])).about = row.about
<1>1. CASE row.about = "worker"
  <2>1. row \in WorkerRecords /\ seen \in WorkerRecords
    BY <1>1, PeopleKinds
  <2> QED BY <1>1, <2>1 DEF Patched, Part, PeopleQueries, PeopleRows, WorkerRecords
<1>2. CASE row.about = "client"
  <2>1. row \in ClientRecords /\ seen \in ClientRecords
    BY <1>2, PeopleKinds
  <2> QED BY <1>2, <2>1 DEF Patched, Part, PeopleQueries, PeopleRows, ClientRecords
<1>3. CASE row.about = "admin"
  <2>1. row \in AdminRows /\ seen \in AdminRows
    BY <1>3, PeopleKinds
  <2> QED BY <1>3, <2>1 DEF Patched, Part, PeopleQueries, PeopleRows, AdminRows
<1> QED BY <1>1, <1>2, <1>3, PeopleKinds

LEMMA PeopleOpened == ASSUME NEW row \in PeopleStarts PROVE row \in PeopleRows
<1>1. CASE \E account \in {"none", "active"} :
             row = [about |-> "client", account |-> account, taken |-> FALSE, name |-> "a", gst |-> "a", barred |-> FALSE]
  BY <1>1 DEF PeopleRows, ClientRecords, Details
<1>2. CASE \E listed \in BOOLEAN : row = [about |-> "admin", listed |-> listed, scoped |-> FALSE, client |-> "active"]
  BY <1>2 DEF PeopleRows, AdminRows
<1>3. CASE row = [about |-> "worker", step |-> "profile_submitted", verdict |-> "under_review", free |-> TRUE,
                  city |-> "a", phone |-> "a"]
  BY <1>3 DEF PeopleRows, WorkerRecords, Details
<1> QED BY <1>1, <1>2, <1>3 DEF PeopleStarts

LEMMA PeopleOffered ==
  ASSUME NEW row \in PeopleRows, NEW copy \in PeopleRows, row.about = copy.about, NEW h \in PeopleOffers(copy),
         \A q \in DOMAIN PeopleQueries(row) : Part(copy, PeopleQueries(row)[q]) = Part(row, PeopleQueries(row)[q])
  PROVE  h.op \in PeopleLoose(row) \/ PeopleAccepts(row, h)
<1>0. \A q \in DOMAIN PeopleQueries(row) : \A f \in PeopleQueries(row)[q] : copy[f] = row[f]
  BY PartsAgree
<1>1. CASE row.about = "worker"
  <2>1. copy.step = row.step
    BY <1>0, <1>1 DEF PeopleQueries
  <2>2. \/ h.op \in {"approve", "reject_worker"} /\ row.step = "profile_submitted"
        \/ h.op \in {"availability", "edit_worker"}
    BY <1>1, <2>1 DEF PeopleOffers, WorkerReviewPanel, HandleSave, HandleApprove, HandleRejectWorker,
       ToggleAvailability, CanReview, When, Handler
  <2> QED BY <2>2 DEF PeopleLoose, PeopleAccepts
<1>2. CASE row.about = "client"
  <2>1. copy.account = row.account /\ copy.barred = row.barred
    BY <1>0, <1>2 DEF PeopleQueries
  <2>2. \/ h.op = "edit_client" /\ row.account # "none"
        \/ h.op \in {"create_client", "bar"}
        \/ h.op = "deactivate" /\ row.account = "active"
        \/ h.op = "unbar" /\ row.barred
    BY <1>2, <2>1 DEF PeopleOffers, ClientsPage, BlacklistSection, HandleCreateClient, HandleEditClient,
       HandleDeactivate, HandleBar, HandleUnbar, When, Handler
  <2> QED BY <2>2 DEF PeopleLoose, PeopleAccepts
<1>3. CASE row.about = "admin"
  <2>1. copy.scoped = row.scoped /\ copy.client = row.client
    BY <1>0, <1>3 DEF PeopleQueries
  <2>2. \/ h.op = "scope" /\ ~row.scoped
        \/ h.op = "unscope" /\ row.scoped
        \/ h.op = "create_admin"
    BY <1>3, <2>1 DEF PeopleOffers, AdminUserRow, AvailableClients, HandleAdd, HandleRemove, HandleCreateAdmin,
       When, Handler
  <2> QED BY <2>2 DEF PeopleLoose, PeopleAccepts
<1> QED BY <1>1, <1>2, <1>3, PeopleKinds
-----------------------------------------------------------------------------
(* Attendance, complaints, disputes, privacy requests and SLA policies.    *)
AttendanceHandler(h) ==
  /\ h.refetch = {"records"}
  /\ \/ h.op \in {"approve_day", "reject_day", "close_shift"}
     \/ h.op = "correct" /\ h.arg \in Marks

ComplaintHandler(h) ==
  /\ h.refetch = {"complaint"}
  /\ \/ h.op = "complaint" /\ h.arg \in {"under_review", "resolved", "closed"}
     \/ h.op = "replacement" /\ h.arg \in Standbys
     \/ h.op = "replacement_status" /\ h.arg.worker \in Standbys /\ h.arg.to \in Sendings

DisputeHandler(h) ==
  /\ h.refetch = {"dispute"}
  /\ \/ h.op \in {"review_dispute", "close_dispute"}
     \/ h.op = "resolve_dispute" /\ h.arg \in Credits

PrivacyHandler(h) ==
  h.refetch = {"requests"} /\ h.op = "privacy" /\ h.arg \in Outcomes \cup {"in_review"}

SlaHandler(h) ==
  /\ h.refetch = {"policies"} /\ h.op = "sla"
  /\ \E a \in 1..2 : \E b \in 1..2 : h.arg = [response |-> a, resolution |-> b]

CareHandler(row, h) ==
  /\ IsHandler(h) /\ h.told
  /\ CASE row.about = "attendance" -> AttendanceHandler(h)
       [] row.about = "complaint"  -> ComplaintHandler(h)
       [] row.about = "dispute"    -> DisputeHandler(h)
       [] row.about = "privacy"    -> PrivacyHandler(h)
       [] row.about = "sla"        -> SlaHandler(h)

LEMMA CareKinds ==
  ASSUME NEW row \in CareRows
  PROVE  \/ row.about = "attendance" /\ row \in AttendanceRows
         \/ row.about = "complaint" /\ row \in ComplaintRows
         \/ row.about = "dispute" /\ row \in DisputeRows
         \/ row.about = "privacy" /\ row \in PrivacyRows
         \/ row.about = "sla" /\ row \in SlaRows
BY DEF CareRows, AttendanceRows, ComplaintRows, DisputeRows, PrivacyRows, SlaRows

LEMMA CareHandlers ==
  ASSUME NEW row \in CareRows, NEW copy \in CareRows, row.about = copy.about, NEW h \in CareOffers(copy)
  PROVE  CareHandler(row, h)
<1>1. CASE row.about = "attendance"
  <2>1. IsHandler(h) /\ h.told /\ AttendanceHandler(h)
    <3>1. h \in AttendanceOffers(copy) \cup AttendanceList(copy)
      BY <1>1 DEF CareOffers
    <3> QED BY <3>1 DEF AttendanceOffers, AttendanceList, HandleApproveDay, HandleRejectDay, HandleCloseShift,
         HandleCorrect, VerifyAttendance, When, Handler, IsHandler, AttendanceHandler, Marks
  <2> QED BY <1>1, <2>1 DEF CareHandler
<1>2. CASE row.about = "complaint"
  <2> SUFFICES IsHandler(h) /\ h.told /\ ComplaintHandler(h)
    BY <1>2 DEF CareHandler
  <2>0. copy \in ComplaintRows
    BY <1>2, CareKinds
  <2>1. CASE h \in UpdateStatus
    BY <2>1 DEF UpdateStatus, Handler, IsHandler, ComplaintHandler
  <2>2. CASE h \in ReplacementForm(copy)
    BY <2>0, <2>2 DEF ReplacementForm, HandleReplacement, ComplaintRows, Handler, IsHandler, ComplaintHandler
  <2>3. CASE h \in ReplacementsPage(copy)
    <3>1. PICK w \in Standbys, to \in Sendings : h = HandleUpdate(w, to)
      BY <2>3 DEF ReplacementsPage
    <3> QED BY <3>1 DEF HandleUpdate, Handler, IsHandler, ComplaintHandler
  <2> QED BY <1>2, <2>1, <2>2, <2>3 DEF CareOffers
<1>3. CASE row.about = "dispute"
  <2>1. IsHandler(h) /\ h.told /\ DisputeHandler(h)
    BY <1>3 DEF CareOffers, DisputeOffers, HandleReview, HandleClose, HandleResolve, When, Handler, IsHandler,
       DisputeHandler
  <2> QED BY <1>3, <2>1 DEF CareHandler
<1>4. CASE row.about = "privacy"
  <2>1. IsHandler(h) /\ h.told /\ PrivacyHandler(h)
    BY <1>4 DEF CareOffers, PrivacyOffers, HandleOutcome, When, Handler, IsHandler, PrivacyHandler
  <2> QED BY <1>4, <2>1 DEF CareHandler
<1>5. CASE row.about = "sla"
  <2>1. PICK a \in 1..2, b \in 1..2 : h = Handler("sla", [response |-> a, resolution |-> b], {"policies"}, TRUE)
    BY <1>5 DEF CareOffers, SlaRow, Handler
  <2>2. IsHandler(h) /\ h.told /\ SlaHandler(h)
    BY <2>1 DEF Handler, IsHandler, SlaHandler
  <2> QED BY <1>5, <2>2 DEF CareHandler
<1> QED BY <1>1, <1>2, <1>3, <1>4, <1>5, CareKinds

LEMMA CareServes ==
  ASSUME NEW row \in CareRows, NEW h, CareHandler(row, h)
  PROVE  /\ CareAfter(row, h) \in CareRows
         /\ CareAfter(row, h).about = row.about
         /\ \A q \in DOMAIN CareQueries(row) \ (h.refetch \cup CareMissed(h.op)) :
              \A f \in CareQueries(row)[q] : CareAfter(row, h)[f] = row[f]
<1> DEFINE after == CareAfter(row, h)
<1>1. CASE row.about = "attendance"
  <2>0. row \in AttendanceRows /\ AttendanceHandler(h)
    BY <1>1, CareKinds DEF CareHandler
  <2>1. after \in AttendanceRows
    BY <1>1, <2>0 DEF AttendanceHandler, AttendanceRows, CareAfter, AttendanceAfter
  <2>2. DOMAIN CareQueries(row) \ h.refetch = {}
    BY <1>1, <2>0 DEF CareQueries, AttendanceHandler
  <2> QED BY <1>1, <2>1, <2>2 DEF CareRows, AttendanceRows
<1>2. CASE row.about = "complaint"
  <2>0. row \in ComplaintRows /\ ComplaintHandler(h)
        /\ CareQueries(row) = [complaint |-> {"status", "sent"}, matches |-> {"fit"}]
    BY <1>2, CareKinds DEF CareQueries, CareHandler
  <2>1. after \in ComplaintRows /\ (h.op # "replacement" => after.fit = row.fit)
    <3>1. CASE h.op = "complaint"
      BY <1>2, <2>0, <3>1 DEF ComplaintHandler, ComplaintRows, CareAfter, ComplaintAfter
    <3>2. CASE h.op = "replacement"
      BY <1>2, <2>0, <3>2 DEF ComplaintHandler, ComplaintRows, CareAfter, ComplaintAfter, Sendings
    <3>3. CASE h.op = "replacement_status"
      BY <1>2, <2>0, <3>3 DEF ComplaintHandler, ComplaintRows, CareAfter, ComplaintAfter
    <3> QED BY <2>0, <3>1, <3>2, <3>3 DEF ComplaintHandler
  <2>2. h.op = "replacement" => CareMissed(h.op) = {"matches"}
    BY DEF CareMissed, When
  <2>3. h.refetch = {"complaint"}
    BY <2>0 DEF ComplaintHandler
  <2> HIDE DEF after
  <2>4. after \in CareRows /\ after.about = row.about
    BY <1>2, <2>1 DEF CareRows, ComplaintRows
  <2> QED BY <2>0, <2>1, <2>2, <2>3, <2>4 DEF after
<1>3. CASE row.about = "dispute"
  <2>0. row \in DisputeRows /\ DisputeHandler(h)
    BY <1>3, CareKinds DEF CareHandler
  <2>1. after \in DisputeRows
    BY <1>3, <2>0 DEF DisputeHandler, DisputeRows, CareAfter, DisputeAfter
  <2>2. DOMAIN CareQueries(row) \ h.refetch = {}
    BY <1>3, <2>0 DEF CareQueries, DisputeHandler
  <2> QED BY <1>3, <2>1, <2>2 DEF CareRows, DisputeRows
<1>4. CASE row.about = "privacy"
  <2>0. row \in PrivacyRows /\ PrivacyHandler(h)
    BY <1>4, CareKinds DEF CareHandler
  <2>1. after \in PrivacyRows
    BY <1>4, <2>0 DEF PrivacyHandler, PrivacyRows, CareAfter, PrivacyAfter, Outcomes
  <2>2. DOMAIN CareQueries(row) \ h.refetch = {}
    BY <1>4, <2>0 DEF CareQueries, PrivacyHandler
  <2> QED BY <1>4, <2>1, <2>2 DEF CareRows, PrivacyRows
<1>5. CASE row.about = "sla"
  <2>0. row \in SlaRows /\ SlaHandler(h)
    BY <1>5, CareKinds DEF CareHandler
  <2>1. after \in SlaRows
    <3>1. PICK a \in 1..2, b \in 1..2 : h.arg = [response |-> a, resolution |-> b]
      BY <2>0 DEF SlaHandler
    <3>2. after = Patched(row, [response |-> a, resolution |-> b])
      BY <1>5, <3>1 DEF CareAfter, SlaAfter
    <3> QED BY <2>0, <3>2 DEF Patched, SlaRows
  <2>2. DOMAIN CareQueries(row) \ h.refetch = {}
    BY <1>5, <2>0 DEF CareQueries, SlaHandler
  <2> QED BY <1>5, <2>1, <2>2 DEF CareRows, SlaRows
<1> QED BY <1>1, <1>2, <1>3, <1>4, <1>5, CareKinds

LEMMA CareMoved ==
  ASSUME NEW row \in CareRows, NEW after \in CareMoves(row)
  PROVE  after \in CareRows /\ after.about = row.about
<1>1. CASE row.about = "attendance"
  <2>1. row \in AttendanceRows
    BY <1>1, CareKinds
  <2>2. \/ after = [row EXCEPT !.shift = IF @ = "absent" THEN "open" ELSE "closed"]
        \/ after = [row EXCEPT !.locked = TRUE]
    BY <1>1 DEF CareMoves, AttendanceMoves
  <2> QED BY <2>1, <2>2 DEF CareRows, AttendanceRows
<1>2. CASE row.about = "complaint"
  <2>1. row \in ComplaintRows
    BY <1>2, CareKinds
  <2>2. PICK w \in Standbys : after = [row EXCEPT !.fit = @ \cup {w}] \/ after = [row EXCEPT !.fit = @ \ {w}]
    BY <1>2 DEF CareMoves, MatchesMove
  <2> QED BY <2>1, <2>2 DEF CareRows, ComplaintRows
<1> QED BY <1>1, <1>2 DEF CareMoves

LEMMA CarePatched ==
  ASSUME NEW seen \in CareRows, NEW row \in CareRows, seen.about = row.about, NEW q \in DOMAIN CareQueries(row)
  PROVE  /\ Patched(seen, Part(row, CareQueries(row)[q])) \in CareRows
         /\ Patched(seen, Part(row, CareQueries(row)[q])).about = row.about
<1>1. CASE row.about = "attendance"
  <2>1. row \in AttendanceRows /\ seen \in AttendanceRows
    BY <1>1, CareKinds
  <2> QED BY <1>1, <2>1 DEF Patched, Part, CareQueries, CareRows, AttendanceRows
<1>2. CASE row.about = "complaint"
  <2>1. row \in ComplaintRows /\ seen \in ComplaintRows
    BY <1>2, CareKinds
  <2> QED BY <1>2, <2>1 DEF Patched, Part, CareQueries, CareRows, ComplaintRows
<1>3. CASE row.about = "dispute"
  <2>1. row \in DisputeRows /\ seen \in DisputeRows
    BY <1>3, CareKinds
  <2> QED BY <1>3, <2>1 DEF Patched, Part, CareQueries, CareRows, DisputeRows
<1>4. CASE row.about = "privacy"
  <2>1. row \in PrivacyRows /\ seen \in PrivacyRows
    BY <1>4, CareKinds
  <2> QED BY <1>4, <2>1 DEF Patched, Part, CareQueries, CareRows, PrivacyRows
<1>5. CASE row.about = "sla"
  <2>1. row \in SlaRows /\ seen \in SlaRows
    BY <1>5, CareKinds
  <2> QED BY <1>5, <2>1 DEF Patched, Part, CareQueries, CareRows, SlaRows
<1> QED BY <1>1, <1>2, <1>3, <1>4, <1>5, CareKinds

LEMMA CareOpened == ASSUME NEW row \in CareStarts PROVE row \in CareRows
<1>1. CASE \E s \in {"absent", "open"} :
             row = [about |-> "attendance", mark |-> "present", approval |-> "pending", shift |-> s, locked |-> FALSE]
  BY <1>1 DEF CareRows, AttendanceRows, Marks
<1>2. CASE \E r \in {{}, {"w2"}} :
             row = [about |-> "complaint", status |-> "open", sent |-> [w \in Standbys |-> "none"],
                    fit |-> Standbys, refused |-> r]
  BY <1>2 DEF CareRows, ComplaintRows, Standbys
<1>3. CASE row = [about |-> "dispute", status |-> "open", credit |-> 0]
  BY <1>3 DEF CareRows, DisputeRows, Credits
<1>4. CASE \E k \in {"deletion", "export"} : row = [about |-> "privacy", kind |-> k, status |-> "pending", erased |-> FALSE]
  BY <1>4 DEF CareRows, PrivacyRows
<1>5. CASE row = [about |-> "sla", response |-> 1, resolution |-> 2]
  BY <1>5 DEF CareRows, SlaRows
<1> QED BY <1>1, <1>2, <1>3, <1>4, <1>5 DEF CareStarts

LEMMA CareOffered ==
  ASSUME NEW row \in CareRows, NEW copy \in CareRows, row.about = copy.about, NEW h \in CareOffers(copy),
         \A q \in DOMAIN CareQueries(row) : Part(copy, CareQueries(row)[q]) = Part(row, CareQueries(row)[q])
  PROVE  h.op \in CareLoose(row) \/ CareAccepts(row, h)
<1>0. \A q \in DOMAIN CareQueries(row) : \A f \in CareQueries(row)[q] : copy[f] = row[f]
  BY PartsAgree
<1>1. CASE row.about = "attendance"
  <2>1. copy.approval = row.approval /\ copy.shift = row.shift
    BY <1>0, <1>1 DEF CareQueries
  <2>2. \/ h.op = "correct"
        \/ h.op \in {"approve_day", "reject_day"} /\ row.approval = "pending"
        \/ h.op = "close_shift" /\ row.shift = "open"
    BY <1>1, <2>1 DEF CareOffers, AttendanceOffers, AttendanceList, HandleApproveDay, HandleRejectDay,
       HandleCloseShift, HandleCorrect, VerifyAttendance, When, Handler
  <2> QED BY <1>1, <2>2 DEF CareLoose, CareAccepts, AttendanceTakes
<1>2. CASE row.about = "complaint"
  <2>1. h.op \in {"complaint", "replacement", "replacement_status"}
    BY <1>1, <1>2, CareHandlers DEF CareHandler, ComplaintHandler
  <2> QED BY <1>2, <2>1 DEF CareLoose, CareAccepts, ComplaintTakes
<1>3. CASE row.about = "dispute"
  <2>1. copy.status = row.status
    BY <1>0, <1>3 DEF CareQueries
  <2>2. \/ h.op = "review_dispute" /\ row.status = "open"
        \/ h.op \in {"close_dispute", "resolve_dispute"} /\ row.status \in {"open", "under_review"}
    BY <1>3, <2>1 DEF CareOffers, DisputeOffers, CanResolveOrClose, HandleReview, HandleClose, HandleResolve, When,
       Handler
  <2> QED BY <1>3, <2>2 DEF CareAccepts, DisputeTakes
<1>4. CASE row.about = "privacy"
  <2>1. copy.status = row.status
    BY <1>0, <1>4 DEF CareQueries
  <2>2. h.op = "privacy" /\ row.status \in {"pending", "in_review"}
    BY <1>4, <2>1 DEF CareOffers, PrivacyOffers, HandleOutcome, When, Handler
  <2> QED BY <1>4, <2>2 DEF CareAccepts, PrivacyTakes, Outcomes
<1>5. CASE row.about = "sla"
  BY <1>5 DEF CareAccepts
<1> QED BY <1>1, <1>2, <1>3, <1>4, <1>5, CareKinds
-----------------------------------------------------------------------------
(* The worker's phone.  Rows of one kind are of one screen too.            *)
WorkerKin(row, copy) ==
  row.about = copy.about /\ (row.about # "opening" => row.screen = copy.screen)

WorkerHandler(row, h) ==
  /\ IsHandler(h) /\ h.told
  /\ CASE row.about = "shift" ->
            h.op \in {"accept", "decline", "check_in", "check_out"} /\ h.refetch = {"assignments", "attendance"}
       [] row.about = "opening" -> h.op \in {"express", "withdraw"} /\ h.refetch = {"jobs"}
       [] row.about = "availability" ->
            IF row.screen = "profile"
            THEN h.op = "free" /\ h.arg \in BOOLEAN /\ h.refetch = {"profile"}
            ELSE \/ h.op = "prefer" /\ h.arg \in SUBSET Weekdays /\ h.refetch = {"profile"}
                 \/ h.op = "mark" /\ h.arg \in DateStatuses /\ h.refetch = {"records"}

LEMMA WorkerKinds ==
  ASSUME NEW row \in WorkerRows
  PROVE  \/ row.about = "shift" /\ row \in ShiftRows
         \/ row.about = "opening" /\ row \in OpeningRows
         \/ row.about = "availability" /\ row \in AvailabilityRows
BY DEF WorkerRows, ShiftRows, OpeningRows, AvailabilityRows

LEMMA WorkerHandlers ==
  ASSUME NEW row \in WorkerRows, NEW copy \in WorkerRows, WorkerKin(row, copy), NEW h \in WorkerOffers(copy)
  PROVE  WorkerHandler(row, h)
<1>1. CASE row.about = "shift"
  <2>1. h \in ShiftOffers(copy)
    BY <1>1 DEF WorkerOffers, WorkerKin
  <2>2. PICK op \in {"accept", "decline", "check_in", "check_out"}, arg \in {"none", "selfie", "position"} :
          h = OnShift(op, arg)
    BY <2>1 DEF ShiftOffers, DecideAssignment, ConfirmCheckIn, CheckOut, When
  <2> QED BY <1>1, <2>2 DEF WorkerHandler, OnShift, Handler, IsHandler
<1>2. CASE row.about = "opening"
  <2>1. h = ToggleInterest(copy)
    BY <1>2 DEF WorkerOffers, WorkerKin, When
  <2> QED BY <1>2, <2>1 DEF WorkerHandler, ToggleInterest, Handler, IsHandler
<1>3. CASE row.about = "availability"
  <2>1. copy \in AvailabilityRows /\ copy.screen = row.screen /\ h \in AvailabilityOffers(copy)
    BY <1>3, WorkerKinds DEF WorkerOffers, WorkerKin
  <2>2. CASE row.screen = "profile"
    <3>1. h = Handler("free", ~copy.free, {"profile"}, TRUE)
      BY <2>1, <2>2 DEF AvailabilityOffers, SetAvailable
    <3> QED BY <1>3, <2>2, <3>1 DEF WorkerHandler, Handler, IsHandler
  <2>3. CASE row.screen # "profile"
    <3>1. CASE \E s \in DateStatuses : h = SetDateStatus(s)
      BY <1>3, <2>3, <3>1 DEF WorkerHandler, SetDateStatus, Handler, IsHandler
    <3>2. CASE \E d \in Weekdays : h = ToggleDayPreference(copy, d)
      <4>1. PICK d \in Weekdays : h = ToggleDayPreference(copy, d)
        BY <3>2
      <4>2. copy.days \subseteq Weekdays
        BY <2>1 DEF AvailabilityRows
      <4>3. (IF d \in copy.days THEN copy.days \ {d} ELSE copy.days \cup {d}) \in SUBSET Weekdays
        BY <4>1, <4>2
      <4> QED BY <1>3, <2>3, <4>1, <4>3 DEF WorkerHandler, ToggleDayPreference, Handler, IsHandler
    <3> QED BY <2>1, <2>3, <3>1, <3>2 DEF AvailabilityOffers
  <2> QED BY <2>2, <2>3
<1> QED BY <1>1, <1>2, <1>3, WorkerKinds

LEMMA WorkerServes ==
  ASSUME NEW row \in WorkerRows, NEW h, WorkerHandler(row, h), WorkerAccepts(row, h)
  PROVE  /\ WorkerAfter(row, h) \in WorkerRows
         /\ WorkerKin(row, WorkerAfter(row, h))
         /\ \A q \in DOMAIN WorkerQueries(row) \ h.refetch :
              \A f \in WorkerQueries(row)[q] : WorkerAfter(row, h)[f] = row[f]
<1> DEFINE after == WorkerAfter(row, h)
<1>1. CASE row.about = "shift"
  <2>0. row \in ShiftRows /\ h.op \in {"accept", "decline", "check_in", "check_out"}
    BY <1>1, WorkerKinds DEF WorkerHandler
  <2>1. after \in ShiftRows /\ after.screen = row.screen
    <3>1. CASE h.op \in {"accept", "decline"}
      BY <2>0, <3>1 DEF ShiftRows, WorkerAfter
    <3>2. CASE h.op = "check_in"
      BY <2>0, <3>2 DEF ShiftRows, WorkerAfter, Standings
    <3>3. CASE h.op = "check_out"
      <4> DEFINE d == CHOOSE d \in Unclosed(row) : \A e \in Unclosed(row) : e <= d
      <4>1. after = [row EXCEPT !.day[d] = "out"]
        BY <3>3 DEF WorkerAfter
      <4> HIDE DEF d
      <4> QED BY <2>0, <4>1 DEF ShiftRows, Standings
    <3> QED BY <2>0, <3>1, <3>2, <3>3
  <2>2. DOMAIN WorkerQueries(row) \ h.refetch = {}
    BY <1>1 DEF WorkerQueries, WorkerHandler
  <2> QED BY <1>1, <2>1, <2>2 DEF WorkerRows, WorkerKin, ShiftRows
<1>2. CASE row.about = "opening"
  <2>0. row \in OpeningRows /\ h.op \in {"express", "withdraw"}
    BY <1>2, WorkerKinds DEF WorkerHandler
  <2>1. after \in OpeningRows
    BY <2>0 DEF OpeningRows, WorkerAfter
  <2>2. DOMAIN WorkerQueries(row) \ h.refetch = {}
    BY <1>2 DEF WorkerQueries, WorkerHandler
  <2> QED BY <1>2, <2>1, <2>2 DEF WorkerRows, WorkerKin, OpeningRows
<1>3. CASE row.about = "availability"
  <2>0. row \in AvailabilityRows
    BY <1>3, WorkerKinds
  <2>1. CASE row.screen = "profile"
    BY <1>3, <2>0, <2>1 DEF WorkerHandler, WorkerAfter, WorkerRows, WorkerKin, AvailabilityRows, WorkerQueries
  <2>2. CASE row.screen # "profile" /\ h.op = "prefer"
    BY <1>3, <2>0, <2>2 DEF WorkerHandler, WorkerAfter, WorkerRows, WorkerKin, AvailabilityRows, WorkerQueries
  <2>3. CASE row.screen # "profile" /\ h.op = "mark"
    <3> DEFINE free == h.arg = "available"
    <3>1. h.arg \in DateStatuses /\ h.refetch = {"records"} /\ free \in BOOLEAN
      BY <1>3, <2>3 DEF WorkerHandler
    <3>2. after = [row EXCEPT !.mark = h.arg, !.free = free]
      BY <2>3 DEF WorkerAfter
    <3> HIDE DEF free, after
    <3>3. after \in AvailabilityRows /\ after.screen = row.screen /\ after.days = row.days
      BY <2>0, <3>1, <3>2 DEF AvailabilityRows
    <3>4. after \in WorkerRows /\ WorkerKin(row, after)
      BY <1>3, <3>3 DEF WorkerRows, WorkerKin, AvailabilityRows
    <3>5. WorkerQueries(row) = [profile |-> {"days"}, records |-> {"mark"}]
      BY <1>3, <2>0, <2>3 DEF WorkerQueries, AvailabilityRows
    <3> QED BY <3>1, <3>3, <3>4, <3>5 DEF after
  <2> QED BY <1>3, <2>1, <2>2, <2>3 DEF WorkerHandler
<1> QED BY <1>1, <1>2, <1>3, WorkerKinds

LEMMA WorkerMoved ==
  ASSUME NEW row \in WorkerRows, NEW after \in WorkerMoves(row)
  PROVE  after \in WorkerRows /\ WorkerKin(row, after)
<1>1. CASE row.about = "shift"
  <2>0. row \in ShiftRows /\ after \in ShiftMoves(row)
    BY <1>1, WorkerKinds DEF WorkerMoves
  <2> SUFFICES after \in ShiftRows /\ after.screen = row.screen
    BY <1>1 DEF WorkerRows, WorkerKin, ShiftRows
  <2>1. CASE after = [row EXCEPT !.today = 2] \/ after = [row EXCEPT !.post = "gone"]
    BY <2>0, <2>1 DEF ShiftRows, ShiftDays
  <2>4. CASE after = [row EXCEPT !.near = ~@]
    BY <2>0, <2>4 DEF ShiftRows
  <2>5. CASE after = [row EXCEPT !.alone = ~@]
    BY <2>0, <2>5 DEF ShiftRows
  <2>6. CASE after = [row EXCEPT !.begun = TRUE]
    BY <2>0, <2>6 DEF ShiftRows
  <2>2. CASE \E d \in Unclosed(row) : after = [row EXCEPT !.day[d] = "out"]
    <3>1. PICK d \in ShiftDays : after = [row EXCEPT !.day[d] = "out"]
      BY <2>2 DEF Unclosed
    <3> QED BY <2>0, <3>1 DEF ShiftRows, Standings
  <2>3. CASE after = [row EXCEPT !.day[row.today] = "noshow"]
    BY <2>0, <2>3 DEF ShiftRows, Standings
  <2> QED BY <2>0, <2>1, <2>2, <2>3, <2>4, <2>5, <2>6 DEF ShiftMoves, When
<1>2. CASE row.about = "opening"
  <2>1. row \in OpeningRows
    BY <1>2, WorkerKinds
  <2>2. after = [row EXCEPT !.open = ~@] \/ after = [row EXCEPT !.mine = ~@]
    BY <1>2 DEF WorkerMoves
  <2> QED BY <1>2, <2>1, <2>2 DEF WorkerRows, WorkerKin, OpeningRows
<1> QED BY <1>1, <1>2 DEF WorkerMoves

LEMMA WorkerPatched ==
  ASSUME NEW seen \in WorkerRows, NEW row \in WorkerRows, WorkerKin(row, seen), NEW q \in DOMAIN WorkerQueries(row)
  PROVE  /\ Patched(seen, Part(row, WorkerQueries(row)[q])) \in WorkerRows
         /\ WorkerKin(row, Patched(seen, Part(row, WorkerQueries(row)[q])))
<1> DEFINE patched == Patched(seen, Part(row, WorkerQueries(row)[q]))
<1>1. CASE row.about = "shift"
  <2>1. row \in ShiftRows /\ seen \in ShiftRows /\ seen.screen = row.screen
    BY <1>1, WorkerKinds DEF WorkerKin
  <2>2. patched \in ShiftRows /\ patched.screen = row.screen
    BY <1>1, <2>1 DEF Patched, Part, WorkerQueries, ShiftRows
  <2> QED BY <1>1, <2>2 DEF WorkerRows, WorkerKin, ShiftRows
<1>2. CASE row.about = "opening"
  <2>1. row \in OpeningRows /\ seen \in OpeningRows
    BY <1>2, WorkerKinds DEF WorkerKin
  <2>2. patched \in OpeningRows
    BY <1>2, <2>1 DEF Patched, Part, WorkerQueries, OpeningRows
  <2> QED BY <1>2, <2>2 DEF WorkerRows, WorkerKin, OpeningRows
<1>3. CASE row.about = "availability"
  <2>1. row \in AvailabilityRows /\ seen \in AvailabilityRows /\ seen.screen = row.screen
    BY <1>3, WorkerKinds DEF WorkerKin
  <2>2. patched \in AvailabilityRows /\ patched.screen = row.screen
    BY <1>3, <2>1 DEF Patched, Part, WorkerQueries, AvailabilityRows
  <2> QED BY <1>3, <2>2 DEF WorkerRows, WorkerKin, AvailabilityRows
<1> QED BY <1>1, <1>2, <1>3, WorkerKinds

LEMMA WorkerOpened == ASSUME NEW row \in WorkerStarts PROVE row \in WorkerRows
<1>1. ASSUME NEW s \in NewShifts PROVE s \in ShiftRows
  <2>1. [d \in ShiftDays |-> "none"] \in [ShiftDays -> Standings] /\ 1 \in ShiftDays /\ 2 \in ShiftDays
    BY DEF Standings, ShiftDays
  <2>2. ASSUME NEW where \in {"home", "detail"}, NEW selfie \in BOOLEAN
        PROVE  NewShift(where, selfie) \in ShiftRows
    BY <2>1 DEF NewShift, ShiftRows
  <2> QED BY <2>2 DEF NewShifts
<1>2. ASSUME NEW s \in ShiftRows PROVE [s EXCEPT !.post = "accepted"] \in ShiftRows
  BY DEF ShiftRows
<1>3. ASSUME NEW s \in ShiftRows, NEW standing \in {"in", "out"} PROVE Started(s, standing) \in ShiftRows
  BY DEF ShiftRows, Started, Standings, ShiftDays
<1>4. CASE row = [about |-> "opening", open |-> TRUE, mine |-> FALSE, interest |-> "none"]
  BY <1>4 DEF WorkerRows, OpeningRows
<1>5. CASE \E s \in {"calendar", "profile"} :
             row = [about |-> "availability", screen |-> s, days |-> {}, mark |-> "none", free |-> TRUE]
  BY <1>5 DEF WorkerRows, AvailabilityRows
<1>6. CASE row \in NewShifts \cup {[s EXCEPT !.post = "accepted"] : s \in NewShifts}
  BY <1>1, <1>2, <1>6 DEF WorkerRows
<1>7. CASE row \in UNION {{Started(s, standing) : standing \in {"in", "out"}} : s \in NewShifts}
  BY <1>1, <1>3, <1>7 DEF WorkerRows
<1> QED BY <1>4, <1>5, <1>6, <1>7 DEF WorkerStarts

LEMMA WorkerOffered ==
  ASSUME NEW row \in WorkerRows, NEW copy \in WorkerRows, WorkerKin(row, copy), NEW h \in WorkerOffers(copy),
         \A q \in DOMAIN WorkerQueries(row) : Part(copy, WorkerQueries(row)[q]) = Part(row, WorkerQueries(row)[q])
  PROVE  h.op \in WorkerLoose(row) \/ WorkerAccepts(row, h)
<1>0. \A q \in DOMAIN WorkerQueries(row) : \A f \in WorkerQueries(row)[q] : copy[f] = row[f]
  BY PartsAgree
<1>1. CASE row.about = "shift"
  <2>0. row \in ShiftRows
    BY <1>1, WorkerKinds
  <2>1. copy.post = row.post /\ copy.last = row.last /\ copy.day = row.day /\ copy.today = row.today
        /\ copy.screen = row.screen
    BY <1>0, <1>1 DEF WorkerQueries, WorkerKin
  <2>2. \/ h.op \in {"accept", "decline"} /\ row.post = "assigned"
        \/ /\ h.op = "check_in" /\ h.arg = (IF row.screen = "detail" THEN "selfie" ELSE "position")
           /\ Covered(row) /\ row.post = "accepted" /\ ~HasCheckedIn(row)
        \/ h.op = "check_out"
    BY <1>1, <2>1 DEF WorkerKin, WorkerOffers, ShiftOffers, DecideAssignment, ConfirmCheckIn, CheckOut, CanCheckIn,
       Covered, HasCheckedIn, OnShift, When, Handler
  <2>3. CASE h.op \in {"accept", "decline"}
    BY <1>1, <2>2, <2>3 DEF WorkerLoose, WorkerAccepts, When
  <2>4. CASE h.op = "check_in"
    <3>1. ASSUME h.op \notin WorkerLoose(row)
          PROVE  /\ row.near /\ ~(row.selfie /\ row.screen = "home")
                 /\ row.day[row.today] # "noshow"
      BY <1>1, <2>4, <3>1 DEF WorkerLoose, When
    <3>2. row.day[row.today] \in Standings /\ row.screen \in {"home", "detail"}
      BY <2>0 DEF ShiftRows
    <3>3. ASSUME h.op \notin WorkerLoose(row) PROVE row.day[row.today] = "none"
      BY <2>2, <2>4, <3>1, <3>2, <3>3 DEF Standings, HasCheckedIn
    <3>4. ASSUME h.op \notin WorkerLoose(row) PROVE row.selfie => h.arg = "selfie"
      BY <2>2, <2>4, <3>1, <3>2, <3>4
    <3> QED BY <2>2, <2>4, <3>1, <3>3, <3>4 DEF WorkerAccepts
  <2>5. CASE h.op = "check_out"
    BY <1>1, <2>5 DEF WorkerLoose, WorkerAccepts, When
  <2> QED BY <2>2, <2>3, <2>4, <2>5
<1>2. CASE row.about = "opening"
  <2>1. copy.open = row.open /\ copy.mine = row.mine /\ copy.interest = row.interest
    BY <1>0, <1>2 DEF WorkerQueries
  <2>2. /\ row.open /\ ~row.mine
        /\ h.op = IF row.interest = "interested" THEN "withdraw" ELSE "express"
    BY <1>2, <2>1 DEF WorkerKin, WorkerOffers, Listed, ToggleInterest, When, Handler
  <2> QED BY <2>2 DEF WorkerAccepts
<1>3. CASE row.about = "availability"
  <2>1. h.op \in {"prefer", "mark", "free"}
    BY <1>3, WorkerHandlers DEF WorkerHandler
  <2> QED BY <2>1 DEF WorkerAccepts
<1> QED BY <1>1, <1>2, <1>3, WorkerKinds
-----------------------------------------------------------------------------
(* The client's phone.                                                     *)
ClientKin(row, copy) ==
  row.about = copy.about /\ (row.about = "request" => row.screen = copy.screen)

ClientHandler(row, h) ==
  /\ IsHandler(h) /\ h.told
  /\ CASE row.about = "request" ->
            IF row.screen = "request"
            THEN h.op \in {"approve", "reject", "cancel"} /\ h.refetch = {"detail", "payments"}
            ELSE \/ h.op \in {"pay", "charge"} /\ h.refetch = {"checkout"}
                 \/ h.op = "verify" /\ h.refetch = {"payments", "checkout"}
       [] row.about = "form"    -> h.op = "create" /\ h.refetch = {} /\ h.arg \in {"fits", "too_large"}
       [] row.about = "profile" ->
            /\ h.op = "edit" /\ h.refetch = {"profile"}
            /\ \E n \in 1..2 : \E c \in 1..2 : h.arg = [name |-> n, city |-> c]
       [] row.about = "consent" -> h.op = "ask" /\ h.refetch = {"requests"}
       [] row.about = "opinion" -> /\ h.refetch = {}
                                   /\ h.op \in {"dispute", "complain", "rate"}
                                   /\ h.op = "rate" => h.arg \in 1..2

LEMMA ClientKinds ==
  ASSUME NEW row \in ClientRows
  PROVE  \/ row.about = "request" /\ row \in RequestRows
         \/ row.about = "form" /\ row \in FormRows
         \/ row.about = "profile" /\ row \in ProfileRows
         \/ row.about = "consent" /\ row \in ConsentRows
         \/ row.about = "opinion" /\ row \in OpinionRows
BY DEF ClientRows, RequestRows, FormRows, ProfileRows, ConsentRows, OpinionRows

LEMMA ClientHandlers ==
  ASSUME NEW row \in ClientRows, NEW copy \in ClientRows, ClientKin(row, copy), NEW h \in ClientOffers(copy)
  PROVE  ClientHandler(row, h)
<1>1. CASE row.about = "request" /\ row.screen = "request"
  <2>1. h \in RequestOffers(copy)
    BY <1>1 DEF ClientOffers, ClientKin
  <2>2. IsHandler(h) /\ h.told /\ h.op \in {"approve", "reject", "cancel"} /\ h.refetch = {"detail", "payments"}
    BY <2>1 DEF RequestOffers, DecideQuote, CancelRequest, When, Handler, IsHandler
  <2> QED BY <1>1, <2>2 DEF ClientHandler
<1>2. CASE row.about = "request" /\ row.screen # "request"
  <2>1. h \in CheckoutOffers(copy)
    BY <1>2 DEF ClientOffers, ClientKin
  <2>2. /\ IsHandler(h) /\ h.told
        /\ \/ h.op \in {"pay", "charge"} /\ h.refetch = {"checkout"}
           \/ h.op = "verify" /\ h.refetch = {"payments", "checkout"}
    BY <2>1 DEF CheckoutOffers, HandlePayNow, Checkout, Verify, When, Handler, IsHandler
  <2> QED BY <1>2, <2>2 DEF ClientHandler
<1>3. CASE row.about = "form"
  BY <1>3 DEF ClientOffers, ClientKin, SubmitRequest, Handler, IsHandler, ClientHandler
<1>4. CASE row.about = "profile"
  <2>1. PICK n \in 1..2, c \in 1..2 : h = Handler("edit", [name |-> n, city |-> c], {"profile"}, TRUE)
    BY <1>4 DEF ClientOffers, ClientKin, SaveProfile, Handler
  <2> QED BY <1>4, <2>1 DEF Handler, IsHandler, ClientHandler
<1>5. CASE row.about = "consent"
  BY <1>5 DEF ClientOffers, ClientKin, ConsentOffers, CreateRequest, When, Handler, IsHandler, ClientHandler
<1>6. CASE row.about = "opinion"
  <2>1. h = RaiseComplaint \/ h = RaiseDispute \/ h \in RateRequirement
    BY <1>6 DEF ClientOffers, ClientKin, OpinionOffers, When
  <2> QED BY <1>6, <2>1 DEF RaiseComplaint, RaiseDispute, RateRequirement, Handler, IsHandler, ClientHandler
<1> QED BY <1>1, <1>2, <1>3, <1>4, <1>5, <1>6, ClientKinds

(* What the server asks for is a number of rupees.                         *)
LEMMA IntentAmounts ==
  ASSUME NEW row \in RequestRows, NEW i \in Intents(row)
  PROVE  i.amount \in Nat
<1>1. NetPaid(row) \in Nat
  BY DEF RequestRows, NetPaid, L!NonNegative
<1>2. i.amount \in {L!AdvanceDue(Quote(row), NetPaid(row)), L!Outstanding(Quote(row), NetPaid(row))}
  BY DEF Intents, L!PaymentIntents
<1> QED BY <1>1, <1>2 DEF L!AdvanceDue, L!Outstanding, L!NonNegative, Quote, Total

LEMMA ChargeSettled ==
  ASSUME NEW row \in RequestRows
  PROVE  SettledCharge(row) \in RequestRows /\ SettledCharge(row).screen = row.screen
<1> DEFINE paid == row.paid + row.asked
<1>1. paid \in Nat
  BY DEF RequestRows
<1>2. SettledCharge(row) = [row EXCEPT !.checkout = "none", !.asked = 0, !.paid = paid]
  BY DEF SettledCharge, RequestRows
<1> HIDE DEF paid
<1>3. ASSUME NEW one, one = [row EXCEPT !.checkout = "none", !.asked = 0]
      PROVE  one \in RequestRows /\ one.screen = row.screen /\ SettledCharge(row) = [one EXCEPT !.paid = paid]
  BY <1>2, <1>3 DEF RequestRows
<1>4. ASSUME NEW one \in RequestRows
      PROVE  [one EXCEPT !.paid = paid] \in RequestRows /\ [one EXCEPT !.paid = paid].screen = one.screen
  BY <1>1 DEF RequestRows
<1> QED BY <1>3, <1>4

LEMMA DecisionMade ==
  ASSUME NEW row \in RequestRows, NEW to \in {"approved", "rejected", "expired"},
         NEW status \in {row.status, "approved", "under_review"}
  PROVE  Decision(row, to, status) \in RequestRows /\ Decision(row, to, status).screen = row.screen
BY DEF Decision, RequestRows

LEMMA ClientServes ==
  ASSUME NEW row \in ClientRows, NEW h, ClientHandler(row, h), ClientAccepts(row, h)
  PROVE  /\ ClientAfter(row, h) \in ClientRows
         /\ ClientKin(row, ClientAfter(row, h))
         /\ \A q \in DOMAIN ClientQueries(row) \ (h.refetch \cup When(row.about = "form", {"requests"})) :
              \A f \in ClientQueries(row)[q] : ClientAfter(row, h)[f] = row[f]
<1> DEFINE after == ClientAfter(row, h)
<1>1. CASE row.about = "request"
  <2>0. row \in RequestRows
    BY <1>1, ClientKinds
  <2> DEFINE Done == /\ after \in RequestRows /\ after.screen = row.screen
                     /\ \/ row.screen = "request"
                        \/ h.refetch = {"payments", "checkout"}
                        \/ h.refetch = {"checkout"} /\ after.paid = row.paid /\ after.back = row.back
  <2>1. ASSUME h.op \in {"approve", "reject"} PROVE Done
    <3>1. \/ after = Decision(row, "approved", "approved")
          \/ after = Decision(row, "rejected", "under_review")
      BY <2>1 DEF ClientAfter
    <3>2. row.screen = "request"
      BY <1>1, <2>1 DEF ClientHandler
    <3> QED BY <2>0, <3>1, <3>2, DecisionMade
  <2>2. ASSUME h.op = "cancel" PROVE Done
    <3>1. row.screen = "request"
      BY <1>1, <2>2 DEF ClientHandler
    <3> QED BY <2>0, <2>2, <3>1 DEF ClientAfter, RequestRows
  <2>3. ASSUME h.op = "pay" PROVE Done
    <3> DEFINE i == CHOOSE j \in Intents(row) : TRUE
    <3>1. h.refetch = {"checkout"}
      BY <1>1, <2>3 DEF ClientHandler
    <3>2. i \in Intents(row)
      BY <2>3 DEF ClientAccepts
    <3>3. i.amount \in Nat
      BY <2>0, <3>2, IntentAmounts
    <3>4. after = [row EXCEPT !.checkout = "order", !.asked = i.amount] \/ after = row
      BY <2>3 DEF ClientAfter, Ordered
    <3> HIDE DEF i
    <3> QED BY <2>0, <3>1, <3>3, <3>4 DEF RequestRows
  <2>4. ASSUME h.op = "charge" PROVE Done
    BY <1>1, <2>0, <2>4 DEF ClientHandler, ClientAfter, RequestRows
  <2>5. ASSUME h.op = "verify" PROVE Done
    <3>1. h.refetch = {"payments", "checkout"}
      BY <1>1, <2>5 DEF ClientHandler
    <3>2. after = SettledCharge(row) \/ after = row
      BY <2>5 DEF ClientAfter
    <3> QED BY <2>0, <3>1, <3>2, ChargeSettled
  <2>6. Done
    BY <1>1, <2>1, <2>2, <2>3, <2>4, <2>5 DEF ClientHandler
  <2>7. /\ row.screen = "request" => h.refetch = {"detail", "payments"}
        /\ ClientQueries(row) = IF row.screen = "request"
             THEN [detail |-> {"status", "quote", "kind", "late"}, payments |-> {"paid", "back"}]
             ELSE [payments |-> {"paid", "back"}, checkout |-> {"checkout", "asked"}]
    BY <1>1 DEF ClientHandler, ClientQueries
  <2> HIDE DEF after
  <2>8. after \in ClientRows /\ ClientKin(row, after)
    BY <1>1, <2>6 DEF ClientRows, ClientKin, RequestRows
  <2>9. ASSUME NEW q \in DOMAIN ClientQueries(row) \ h.refetch, NEW f \in ClientQueries(row)[q]
        PROVE  after[f] = row[f]
    BY <2>6, <2>7, <2>9
  <2> QED BY <2>8, <2>9 DEF after
<1>2. CASE row.about = "form"
  <2>1. row \in FormRows /\ after = [row EXCEPT !.created = @ + 1]
    BY <1>2, ClientKinds DEF ClientHandler, ClientAfter
  <2>2. DOMAIN ClientQueries(row) = {"requests"}
    BY <1>2 DEF ClientQueries
  <2> QED BY <1>2, <2>1, <2>2 DEF ClientRows, ClientKin, FormRows, When
<1>3. CASE row.about = "profile"
  <2>1. PICK n \in 1..2, c \in 1..2 : h.arg = [name |-> n, city |-> c]
    BY <1>3 DEF ClientHandler
  <2>2. row \in ProfileRows /\ after = Patched(row, [name |-> n, city |-> c])
    BY <1>3, <2>1, ClientKinds DEF ClientHandler, ClientAfter
  <2>3. DOMAIN ClientQueries(row) \ h.refetch = {}
    BY <1>3 DEF ClientQueries, ClientHandler
  <2>4. after \in ProfileRows
    BY <2>2 DEF ProfileRows, Patched
  <2> QED BY <1>3, <2>3, <2>4 DEF ClientRows, ClientKin, ProfileRows
<1>4. CASE row.about = "consent"
  <2>1. row \in ConsentRows /\ after = [row EXCEPT !.state = "pending"]
    BY <1>4, ClientKinds DEF ClientHandler, ClientAfter
  <2>2. DOMAIN ClientQueries(row) \ h.refetch = {}
    BY <1>4 DEF ClientQueries, ClientHandler
  <2> QED BY <1>4, <2>1, <2>2 DEF ClientRows, ClientKin, ConsentRows
<1>5. CASE row.about = "opinion"
  <2>1. row \in OpinionRows
    BY <1>5, ClientKinds
  <2>2. \/ after = [row EXCEPT !.stars = h.arg] /\ h.arg \in 1..2
        \/ after = [row EXCEPT !.disputes = @ + 1]
        \/ after = [row EXCEPT !.complaints = @ + 1]
    BY <1>5 DEF ClientHandler, ClientAfter
  <2>3. after \in OpinionRows /\ after.status = row.status
    BY <2>1, <2>2 DEF OpinionRows
  <2>4. ClientQueries(row) = [detail |-> {"status"}]
    BY <1>5 DEF ClientQueries
  <2> QED BY <1>5, <2>3, <2>4 DEF ClientRows, ClientKin, OpinionRows
<1> QED BY <1>1, <1>2, <1>3, <1>4, <1>5, ClientKinds

LEMMA QuoteExpired ==
  ASSUME NEW row \in RequestRows
  PROVE  ExpireQuote(row) \in RequestRows /\ ExpireQuote(row).screen = row.screen
BY DecisionMade DEF ExpireQuote

LEMMA ClientRefusal ==
  ASSUME NEW row \in ClientRows, NEW h, ClientHandler(row, h)
  PROVE  ClientRefused(row, h) \in ClientRows /\ ClientKin(row, ClientRefused(row, h))
<1>1. CASE h.op = "approve" /\ row.quote = "sent" /\ row.late # "no"
  <2>1. row.about = "request" /\ row \in RequestRows
    BY <1>1, ClientKinds DEF ClientHandler
  <2>2. ClientRefused(row, h) = ExpireQuote(row)
    BY <1>1 DEF ClientRefused
  <2> QED BY <2>1, <2>2, QuoteExpired DEF ClientRows, ClientKin, RequestRows
<1>2. CASE ~(h.op = "approve" /\ row.quote = "sent" /\ row.late # "no")
  BY <1>2 DEF ClientRefused, ClientKin
<1> QED BY <1>1, <1>2

LEMMA RequestMoved ==
  ASSUME NEW row \in RequestRows, NEW after \in RequestMoves(row)
  PROVE  after \in RequestRows /\ after.screen = row.screen
<1>1. CASE \E to \in {"under_review", "cancelled", "workers_assigned", "in_progress", "completed"} :
             after = [row EXCEPT !.status = to]
  BY <1>1 DEF RequestRows
<1>2. CASE after = [row EXCEPT !.status = "quoted", !.quote = "sent", !.late = "no"]
  BY <1>2 DEF RequestRows
<1>3. CASE after = [row EXCEPT !.late = IF @ = "no" THEN "here" ELSE "both"]
  BY <1>3 DEF RequestRows
<1>4. CASE after = ExpireQuote(row)
  BY <1>4, QuoteExpired
<1>5. CASE after = [row EXCEPT !.quote = "sent", !.kind = "extension", !.late = "no"]
  BY <1>5 DEF RequestRows
<1>6. CASE after = SettledCharge(row)
  BY <1>6, ChargeSettled
<1>7. CASE \E i \in Intents(row) : after = [row EXCEPT !.checkout = "manual", !.asked = i.amount]
  BY <1>7, IntentAmounts DEF RequestRows
<1>8. CASE after = [row EXCEPT !.checkout = "none", !.asked = 0]
  BY <1>8 DEF RequestRows
<1>9. CASE after = [row EXCEPT !.back = @ + 1]
  BY <1>9 DEF RequestRows
<1> QED BY <1>1, <1>2, <1>3, <1>4, <1>5, <1>6, <1>7, <1>8, <1>9 DEF RequestMoves, When

LEMMA ClientMoved ==
  ASSUME NEW row \in ClientRows, NEW after \in ClientMoves(row)
  PROVE  after \in ClientRows /\ ClientKin(row, after)
<1>1. CASE row.about = "request"
  <2>1. row \in RequestRows /\ after \in RequestMoves(row)
    BY <1>1, ClientKinds DEF ClientMoves
  <2>2. after \in RequestRows /\ after.screen = row.screen
    BY <2>1, RequestMoved
  <2> QED BY <1>1, <2>2 DEF ClientRows, ClientKin, RequestRows
<1>2. CASE row.about = "consent"
  <2>1. row \in ConsentRows
    BY <1>2, ClientKinds
  <2>2. \/ after = [row EXCEPT !.state = "in_review"]
        \/ after = [row EXCEPT !.state = "rejected"]
        \/ \E erased \in BOOLEAN : after = [row EXCEPT !.state = "completed", !.erased = erased]
    BY <1>2 DEF ClientMoves, ConsentMoves
  <2> QED BY <1>2, <2>1, <2>2 DEF ClientRows, ClientKin, ConsentRows
<1>3. CASE row.about = "opinion"
  <2>1. row \in OpinionRows /\ after = [row EXCEPT !.status = "completed"]
    BY <1>3, ClientKinds DEF ClientMoves
  <2> QED BY <1>3, <2>1 DEF ClientRows, ClientKin, OpinionRows
<1> QED BY <1>1, <1>2, <1>3 DEF ClientMoves

LEMMA ClientPatched ==
  ASSUME NEW seen \in ClientRows, NEW row \in ClientRows, ClientKin(row, seen)
  PROVE  /\ \A q \in DOMAIN ClientQueries(row) :
              /\ Patched(seen, Part(row, ClientQueries(row)[q])) \in ClientRows
              /\ ClientKin(row, Patched(seen, Part(row, ClientQueries(row)[q])))
         /\ Patched(seen, ClientBlank(row)) \in ClientRows
         /\ ClientKin(row, Patched(seen, ClientBlank(row)))
<1>1. CASE row.about = "request"
  <2>1. row \in RequestRows /\ seen \in RequestRows /\ seen.screen = row.screen
    BY <1>1, ClientKinds DEF ClientKin
  <2>2. ASSUME NEW q \in DOMAIN ClientQueries(row)
        PROVE  /\ Patched(seen, Part(row, ClientQueries(row)[q])) \in RequestRows
               /\ Patched(seen, Part(row, ClientQueries(row)[q])).screen = row.screen
    <3>1. CASE row.screen = "request" /\ q = "detail"
      BY <1>1, <2>1, <3>1 DEF Patched, Part, ClientQueries, RequestRows
    <3>2. CASE q = "payments"
      BY <1>1, <2>1, <3>2 DEF Patched, Part, ClientQueries, RequestRows
    <3>3. CASE row.screen # "request" /\ q = "checkout"
      BY <1>1, <2>1, <3>3 DEF Patched, Part, ClientQueries, RequestRows
    <3> QED BY <1>1, <3>1, <3>2, <3>3 DEF ClientQueries
  <2>3. CASE row.screen = "request"
    <3>1. /\ Patched(seen, ClientBlank(row)) \in RequestRows
          /\ Patched(seen, ClientBlank(row)).screen = row.screen
      BY <1>1, <2>1, <2>3 DEF Patched, ClientBlank, RequestRows
    <3> QED BY <1>1, <2>2, <3>1 DEF ClientRows, ClientKin, RequestRows
  <2>4. CASE row.screen # "request"
    <3>1. Patched(seen, ClientBlank(row)) = seen
      BY <2>1, <2>4 DEF Patched, ClientBlank, RequestRows
    <3> QED BY <1>1, <2>1, <2>2, <3>1 DEF ClientRows, ClientKin, RequestRows
  <2> QED BY <2>3, <2>4
<1>2. CASE row.about = "form"
  <2>1. row \in FormRows /\ seen \in FormRows
    BY <1>2, ClientKinds DEF ClientKin
  <2> QED BY <1>2, <2>1 DEF Patched, Part, ClientQueries, ClientBlank, ClientRows, ClientKin, FormRows
<1>3. CASE row.about = "profile"
  <2>1. row \in ProfileRows /\ seen \in ProfileRows
    BY <1>3, ClientKinds DEF ClientKin
  <2> QED BY <1>3, <2>1 DEF Patched, Part, ClientQueries, ClientBlank, ClientRows, ClientKin, ProfileRows
<1>4. CASE row.about = "consent"
  <2>1. row \in ConsentRows /\ seen \in ConsentRows
    BY <1>4, ClientKinds DEF ClientKin
  <2> QED BY <1>4, <2>1 DEF Patched, Part, ClientQueries, ClientBlank, ClientRows, ClientKin, ConsentRows
<1>5. CASE row.about = "opinion"
  <2>1. row \in OpinionRows /\ seen \in OpinionRows
    BY <1>5, ClientKinds DEF ClientKin
  <2> QED BY <1>5, <2>1 DEF Patched, Part, ClientQueries, ClientBlank, ClientRows, ClientKin, OpinionRows
<1> QED BY <1>1, <1>2, <1>3, <1>4, <1>5, ClientKinds

LEMMA ClientOpened == ASSUME NEW row \in ClientStarts PROVE row \in ClientRows
<1>1. ASSUME NEW where \in {"request", "advance", "full"},
             NEW status \in {"submitted", "quoted", "approved", "in_progress"}
      PROVE  NewRequest(where, status) \in RequestRows
  BY DEF NewRequest, RequestRows
<1>2. ASSUME NEW new \in RequestRows
      PROVE  /\ [new EXCEPT !.quote = "sent"] \in RequestRows
             /\ [new EXCEPT !.quote = "sent", !.late = "here"] \in RequestRows
  BY DEF RequestRows
<1>7. ASSUME NEW new \in RequestRows, NEW paid \in Nat
      PROVE  [new EXCEPT !.quote = "approved", !.paid = paid] \in RequestRows
  <2>1. [new EXCEPT !.quote = "approved"] \in RequestRows
    BY DEF RequestRows
  <2> QED BY <2>1 DEF RequestRows
<1>3. ASSUME NEW new \in RequestRows
      PROVE  [new EXCEPT !.quote = "sent", !.kind = "extension", !.paid = 1] \in RequestRows
  <2>1. [new EXCEPT !.quote = "sent", !.kind = "extension"] \in RequestRows
    BY DEF RequestRows
  <2> QED BY <2>1 DEF RequestRows
<1>4. CASE row \in {NewRequest("request", "submitted"), [NewRequest("request", "quoted") EXCEPT !.quote = "sent"],
                    [NewRequest("request", "quoted") EXCEPT !.quote = "sent", !.late = "here"],
                    [NewRequest("request", "in_progress") EXCEPT !.quote = "sent", !.kind = "extension", !.paid = 1],
                    Approved("advance", "approved", 0), Approved("full", "in_progress", 1)}
  <2>1. Approved("advance", "approved", 0) \in RequestRows /\ Approved("full", "in_progress", 1) \in RequestRows
    BY <1>1, <1>7 DEF Approved
  <2> QED BY <1>1, <1>2, <1>3, <1>4, <2>1 DEF ClientRows
<1>5. CASE \/ row = [about |-> "form", created |-> 0]
           \/ row = [about |-> "profile", name |-> 1, city |-> 1]
           \/ row = [about |-> "opinion", status |-> "in_progress", stars |-> 0, disputes |-> 0, complaints |-> 0]
  BY <1>5 DEF ClientRows, FormRows, ProfileRows, OpinionRows
<1>6. CASE \E k \in {"deletion", "export"} : row = [about |-> "consent", kind |-> k, erased |-> FALSE, state |-> "none"]
  BY <1>6 DEF ClientRows, ConsentRows
<1> QED BY <1>4, <1>5, <1>6 DEF ClientStarts

LEMMA ClientOffered ==
  ASSUME NEW row \in ClientRows, NEW copy \in ClientRows, ClientKin(row, copy), NEW h \in ClientOffers(copy),
         \A q \in DOMAIN ClientQueries(row) : Part(copy, ClientQueries(row)[q]) = Part(row, ClientQueries(row)[q])
  PROVE  h.op \in ClientLoose(row) \/ TooLarge(h) \/ ClientAccepts(row, h)
<1>0. \A q \in DOMAIN ClientQueries(row) : \A f \in ClientQueries(row)[q] : copy[f] = row[f]
  BY PartsAgree
<1>1. CASE row.about = "request" /\ row.screen = "request"
  <2>1. copy.status = row.status /\ copy.quote = row.quote /\ copy.kind = row.kind /\ copy.late = row.late
    BY <1>0, <1>1 DEF ClientQueries
  <2>2. \/ h.op \in {"approve", "reject"} /\ row.late # "both"
        \/ h.op = "cancel" /\ row.status \in {"submitted", "quoted"}
    BY <1>1, <2>1 DEF ClientKin, ClientOffers, RequestOffers, ExpiredShown, DecideQuote, CancelRequest, When, Handler
  <2>3. row.late \in {"no", "here", "both"}
    BY <1>1, ClientKinds DEF RequestRows
  <2> QED BY <1>1, <2>2, <2>3 DEF ClientLoose, ClientAccepts, Decidable, When
<1>2. CASE row.about = "request" /\ row.screen # "request"
  <2>1. copy.checkout = row.checkout
    BY <1>0, <1>2 DEF ClientQueries
  <2>2. \/ h.op = "pay"
        \/ h.op = "charge" /\ row.checkout = "order"
        \/ h.op = "verify" /\ row.checkout = "captured"
    BY <1>2, <2>1 DEF ClientKin, ClientOffers, CheckoutOffers, HandlePayNow, Checkout, Verify, When, Handler
  <2> QED BY <1>2, <2>2 DEF ClientLoose, ClientAccepts, When
<1>3. CASE row.about = "form"
  <2>1. h.op = "create" /\ h.arg \in {"fits", "too_large"}
    BY <1>3, ClientHandlers DEF ClientHandler
  <2> QED BY <2>1 DEF TooLarge, ClientAccepts
<1>4. CASE row.about = "profile"
  <2>1. h.op = "edit"
    BY <1>4, ClientHandlers DEF ClientHandler
  <2> QED BY <2>1 DEF ClientAccepts
<1>5. CASE row.about = "consent"
  <2>1. copy.state = row.state
    BY <1>0, <1>5 DEF ClientQueries
  <2>2. h.op = "ask" /\ ~OpenConsent(row)
    BY <1>5, <2>1 DEF ClientKin, ClientOffers, ConsentOffers, OpenConsent, CreateRequest, When, Handler
  <2> QED BY <1>5, <2>2 DEF ClientLoose, ClientAccepts, When
<1>6. CASE row.about = "opinion"
  <2>1. copy.status = row.status
    BY <1>0, <1>6 DEF ClientQueries
  <2>2. \/ h = RaiseComplaint
        \/ h \in RateRequirement
        \/ h = RaiseDispute /\ row.status = "completed"
    BY <1>6, <2>1 DEF ClientKin, ClientOffers, OpinionOffers, When, RateRequirement
  <2>3. h.op \in {"complain", "rate"} \/ (h.op = "dispute" /\ row.status = "completed")
    BY <2>2 DEF RateRequirement, RaiseDispute, RaiseComplaint, Handler
  <2> QED BY <2>3 DEF ClientAccepts
<1> QED BY <1>1, <1>2, <1>3, <1>4, <1>5, <1>6, ClientKinds
-----------------------------------------------------------------------------
(* The desks together: what the lemmas above say of each, said of the desk *)
(* at work.                                                                *)
DeskNames == {"job", "board", "money", "people", "care", "worker", "client"}

QueriesOf(d, row) ==
  CASE d = "job"    -> JobQueries
    [] d = "board"  -> BoardQueries
    [] d = "money"  -> MoneyQueries(row)
    [] d = "people" -> PeopleQueries(row)
    [] d = "care"   -> CareQueries(row)
    [] d = "worker" -> WorkerQueries(row)
    [] d = "client" -> ClientQueries(row)

OfferOf(d, row, h) ==
  CASE d = "job"    -> JobHandler(h)
    [] d = "board"  -> BoardHandler(h)
    [] d = "money"  -> MoneyHandler(row, h)
    [] d = "people" -> PeopleHandler(row, h)
    [] d = "care"   -> CareHandler(row, h)
    [] d = "worker" -> WorkerHandler(row, h)
    [] d = "client" -> ClientHandler(row, h)

(* A copy of the row: of the same kind, and on the same screen.            *)
KinTo(d, row, copy) ==
  CASE d = "job"    -> TRUE
    [] d = "board"  -> TRUE
    [] d = "money"  -> row.about = copy.about
    [] d = "people" -> row.about = copy.about
    [] d = "care"   -> row.about = copy.about
    [] d = "worker" -> WorkerKin(row, copy)
    [] d = "client" -> ClientKin(row, copy)

MissedBy(d, op) ==
  CASE d = "job"    -> {}
    [] d = "board"  -> BoardMissed(op)
    [] d = "money"  -> MoneyMissed(op)
    [] d = "people" -> PeopleMissed(op)
    [] d = "care"   -> CareMissed(op)
    [] d = "worker" -> {}
    [] d = "client" -> {}

(* Queries a handler may change that its screen does not show.             *)
UnseenOf(d, row) ==
  CASE d = "board"  -> {"matches"}
    [] d = "client" -> When(row.about = "form", {"requests"})
    [] OTHER        -> {}

QuietOf(d, row) ==
  CASE d = "job"    -> JobQuiet
    [] d = "board"  -> BoardQuiet
    [] d = "money"  -> {}
    [] d = "people" -> PeopleQuiet(row)
    [] d = "care"   -> CareQuiet(row)
    [] d = "worker" -> WorkerQuiet(row)
    [] d = "client" -> ClientQuiet(row)

LEMMA JobTable ==
  ASSUME desk = "job"
  PROVE  /\ Starts(desk) = JobStarts /\ RowsOf(desk) = JobRows
         /\ \A row : Queries(row) = JobQueries /\ QueriesOf(desk, row) = JobQueries
         /\ \A row : Offers(row) = JobOffers(row) /\ Shows(row) = JobShows(row)
         /\ \A row : Moved(row) = JobMoves(row) /\ Loose(row) = JobLoose(row)
         /\ \A row : GivesUp(row) = JobShows(row) /\ Blank(row) = << >>
         /\ \A row : Quiet(row) = JobQuiet /\ QuietOf(desk, row) = JobQuiet
         /\ \A row : UnseenOf(desk, row) = {}
         /\ \A op : Missed(op) = {} /\ MissedBy(desk, op) = {}
         /\ \A row, h : After(row, h) = JobAfter(row, h) /\ Refused(row, h) = row
         /\ \A row, h : Accepts(row, h) <=> JobAccepts(row, h)
         /\ \A row, h : OfferOf(desk, row, h) <=> JobHandler(h)
         /\ \A row, copy : KinTo(desk, row, copy) <=> TRUE
BY DEF Starts, RowsOf, Queries, QueriesOf, Offers, Shows, Moved, Loose, GivesUp, Blank, Quiet, QuietOf, UnseenOf,
       Missed, MissedBy, Accepts, After, Refused, OfferOf, KinTo

LEMMA BoardTable ==
  ASSUME desk = "board"
  PROVE  /\ Starts(desk) = BoardStarts /\ RowsOf(desk) = BoardRows
         /\ \A row : Queries(row) = BoardQueries /\ QueriesOf(desk, row) = BoardQueries
         /\ \A row : Offers(row) = BoardOffers(row) /\ Shows(row) = BoardShows(row)
         /\ \A row : Moved(row) = BoardMoves(row) /\ Loose(row) = BoardLoose(row)
         /\ \A row : GivesUp(row) = BoardShows(row) /\ Blank(row) = << >>
         /\ \A row : Quiet(row) = BoardQuiet /\ QuietOf(desk, row) = BoardQuiet
         /\ \A row : UnseenOf(desk, row) = {"matches"}
         /\ \A op : Missed(op) = BoardMissed(op) /\ MissedBy(desk, op) = BoardMissed(op)
         /\ \A row, h : After(row, h) = BoardAfter(row, h) /\ Refused(row, h) = BoardRefused(row, h)
         /\ \A row, h : Accepts(row, h) <=> BoardAccepts(row, h)
         /\ \A row, h : OfferOf(desk, row, h) <=> BoardHandler(h)
         /\ \A row, copy : KinTo(desk, row, copy) <=> TRUE
BY DEF Starts, RowsOf, Queries, QueriesOf, Offers, Shows, Moved, Loose, GivesUp, Blank, Quiet, QuietOf, UnseenOf,
       Missed, MissedBy, Accepts, After, Refused, OfferOf, KinTo

LEMMA MoneyTable ==
  ASSUME desk = "money"
  PROVE  /\ Starts(desk) = MoneyStarts /\ RowsOf(desk) = MoneyRows
         /\ \A row : Queries(row) = MoneyQueries(row) /\ QueriesOf(desk, row) = MoneyQueries(row)
         /\ \A row : Offers(row) = MoneyOffers(row) /\ Shows(row) = MoneyShows(row)
         /\ \A row : Moved(row) = MoneyMoves(row) /\ Loose(row) = MoneyLoose(row)
         /\ \A row : GivesUp(row) = MoneyShows(row) /\ Blank(row) = << >>
         /\ \A row : Quiet(row) = {} /\ QuietOf(desk, row) = {}
         /\ \A row : UnseenOf(desk, row) = {}
         /\ \A op : Missed(op) = MoneyMissed(op) /\ MissedBy(desk, op) = MoneyMissed(op)
         /\ \A row, h : After(row, h) = MoneyAfter(row, h) /\ Refused(row, h) = row
         /\ \A row, h : Accepts(row, h) <=> MoneyAccepts(row, h)
         /\ \A row, h : OfferOf(desk, row, h) <=> MoneyHandler(row, h)
         /\ \A row, copy : KinTo(desk, row, copy) <=> row.about = copy.about
BY DEF Starts, RowsOf, Queries, QueriesOf, Offers, Shows, Moved, Loose, GivesUp, Blank, Quiet, QuietOf, UnseenOf,
       Missed, MissedBy, Accepts, After, Refused, OfferOf, KinTo

LEMMA PeopleTable ==
  ASSUME desk = "people"
  PROVE  /\ Starts(desk) = PeopleStarts /\ RowsOf(desk) = PeopleRows
         /\ \A row : Queries(row) = PeopleQueries(row) /\ QueriesOf(desk, row) = PeopleQueries(row)
         /\ \A row : Offers(row) = PeopleOffers(row) /\ Shows(row) = PeopleShows(row)
         /\ \A row : Moved(row) = PeopleMoves(row) /\ Loose(row) = PeopleLoose(row)
         /\ \A row : GivesUp(row) = PeopleShows(row) /\ Blank(row) = << >>
         /\ \A row : Quiet(row) = PeopleQuiet(row) /\ QuietOf(desk, row) = PeopleQuiet(row)
         /\ \A row : UnseenOf(desk, row) = {}
         /\ \A op : Missed(op) = PeopleMissed(op) /\ MissedBy(desk, op) = PeopleMissed(op)
         /\ \A row, h : After(row, h) = PeopleAfter(row, h) /\ Refused(row, h) = row
         /\ \A row, h : Accepts(row, h) <=> PeopleAccepts(row, h)
         /\ \A row, h : OfferOf(desk, row, h) <=> PeopleHandler(row, h)
         /\ \A row, copy : KinTo(desk, row, copy) <=> row.about = copy.about
BY DEF Starts, RowsOf, Queries, QueriesOf, Offers, Shows, Moved, Loose, GivesUp, Blank, Quiet, QuietOf, UnseenOf,
       Missed, MissedBy, Accepts, After, Refused, OfferOf, KinTo

LEMMA CareTable ==
  ASSUME desk = "care"
  PROVE  /\ Starts(desk) = CareStarts /\ RowsOf(desk) = CareRows
         /\ \A row : Queries(row) = CareQueries(row) /\ QueriesOf(desk, row) = CareQueries(row)
         /\ \A row : Offers(row) = CareOffers(row) /\ Shows(row) = CareShows(row)
         /\ \A row : Moved(row) = CareMoves(row) /\ Loose(row) = CareLoose(row)
         /\ \A row : GivesUp(row) = CareShows(row) /\ Blank(row) = << >>
         /\ \A row : Quiet(row) = CareQuiet(row) /\ QuietOf(desk, row) = CareQuiet(row)
         /\ \A row : UnseenOf(desk, row) = {}
         /\ \A op : Missed(op) = CareMissed(op) /\ MissedBy(desk, op) = CareMissed(op)
         /\ \A row, h : After(row, h) = CareAfter(row, h) /\ Refused(row, h) = row
         /\ \A row, h : Accepts(row, h) <=> CareAccepts(row, h)
         /\ \A row, h : OfferOf(desk, row, h) <=> CareHandler(row, h)
         /\ \A row, copy : KinTo(desk, row, copy) <=> row.about = copy.about
BY DEF Starts, RowsOf, Queries, QueriesOf, Offers, Shows, Moved, Loose, GivesUp, Blank, Quiet, QuietOf, UnseenOf,
       Missed, MissedBy, Accepts, After, Refused, OfferOf, KinTo

LEMMA WorkerTable ==
  ASSUME desk = "worker"
  PROVE  /\ Starts(desk) = WorkerStarts /\ RowsOf(desk) = WorkerRows
         /\ \A row : Queries(row) = WorkerQueries(row) /\ QueriesOf(desk, row) = WorkerQueries(row)
         /\ \A row : Offers(row) = WorkerOffers(row) /\ Shows(row) = WorkerShows(row)
         /\ \A row : Moved(row) = WorkerMoves(row) /\ Loose(row) = WorkerLoose(row)
         /\ \A row : GivesUp(row) = WorkerReloads(row) /\ Blank(row) = << >>
         /\ \A row : Quiet(row) = WorkerQuiet(row) /\ QuietOf(desk, row) = WorkerQuiet(row)
         /\ \A row : UnseenOf(desk, row) = {}
         /\ \A op : Missed(op) = {} /\ MissedBy(desk, op) = {}
         /\ \A row, h : After(row, h) = WorkerAfter(row, h) /\ Refused(row, h) = row
         /\ \A row, h : Accepts(row, h) <=> WorkerAccepts(row, h)
         /\ \A row, h : OfferOf(desk, row, h) <=> WorkerHandler(row, h)
         /\ \A row, copy : KinTo(desk, row, copy) <=> WorkerKin(row, copy)
BY DEF Starts, RowsOf, Queries, QueriesOf, Offers, Shows, Moved, Loose, GivesUp, Blank, Quiet, QuietOf, UnseenOf,
       Missed, MissedBy, Accepts, After, Refused, OfferOf, KinTo

LEMMA ClientTable ==
  ASSUME desk = "client"
  PROVE  /\ Starts(desk) = ClientStarts /\ RowsOf(desk) = ClientRows
         /\ \A row : Queries(row) = ClientQueries(row) /\ QueriesOf(desk, row) = ClientQueries(row)
         /\ \A row : Offers(row) = ClientOffers(row) /\ Shows(row) = ClientShows(row)
         /\ \A row : Moved(row) = ClientMoves(row) /\ Loose(row) = ClientLoose(row)
         /\ \A row : GivesUp(row) = ClientReloads(row) /\ Blank(row) = ClientBlank(row)
         /\ \A row : Quiet(row) = ClientQuiet(row) /\ QuietOf(desk, row) = ClientQuiet(row)
         /\ \A row : UnseenOf(desk, row) = When(row.about = "form", {"requests"})
         /\ \A op : Missed(op) = {} /\ MissedBy(desk, op) = {}
         /\ \A row, h : After(row, h) = ClientAfter(row, h) /\ Refused(row, h) = ClientRefused(row, h)
         /\ \A row, h : Accepts(row, h) <=> ClientAccepts(row, h)
         /\ \A row, h : OfferOf(desk, row, h) <=> ClientHandler(row, h)
         /\ \A row, copy : KinTo(desk, row, copy) <=> ClientKin(row, copy)
BY DEF Starts, RowsOf, Queries, QueriesOf, Offers, Shows, Moved, Loose, GivesUp, Blank, Quiet, QuietOf, UnseenOf,
       Missed, MissedBy, Accepts, After, Refused, OfferOf, KinTo

LEMMA KinOK ==
  ASSUME desk \in DeskNames, NEW row \in RowsOf(desk), NEW copy \in RowsOf(desk), KinTo(desk, row, copy)
  PROVE  /\ KinTo(desk, row, row) /\ KinTo(desk, copy, row)
         /\ \A other \in RowsOf(desk) : KinTo(desk, row, other) <=> KinTo(desk, copy, other)
         /\ QueriesOf(desk, copy) = QueriesOf(desk, row)
         /\ UnseenOf(desk, copy) = UnseenOf(desk, row)
         /\ QuietOf(desk, copy) = QuietOf(desk, row)
         /\ \A h : OfferOf(desk, copy, h) <=> OfferOf(desk, row, h)
<1>1. CASE desk = "job"
  BY <1>1, JobTable
<1>2. CASE desk = "board"
  BY <1>2, BoardTable
<1>3. CASE desk = "money"
  <2>1. MoneyQueries(copy) = MoneyQueries(row) /\ \A h : MoneyHandler(copy, h) <=> MoneyHandler(row, h)
    BY <1>3, MoneyTable DEF MoneyQueries, MoneyHandler
  <2> QED BY <1>3, <2>1, MoneyTable
<1>4. CASE desk = "people"
  <2>1. /\ PeopleQueries(copy) = PeopleQueries(row) /\ PeopleQuiet(copy) = PeopleQuiet(row)
        /\ \A h : PeopleHandler(copy, h) <=> PeopleHandler(row, h)
    BY <1>4, PeopleTable DEF PeopleQueries, PeopleQuiet, PeopleHandler
  <2> QED BY <1>4, <2>1, PeopleTable
<1>5. CASE desk = "care"
  <2>1. /\ CareQueries(copy) = CareQueries(row) /\ CareQuiet(copy) = CareQuiet(row)
        /\ \A h : CareHandler(copy, h) <=> CareHandler(row, h)
    BY <1>5, CareTable DEF CareQueries, CareQuiet, CareHandler
  <2> QED BY <1>5, <2>1, CareTable
<1>6. CASE desk = "worker"
  <2>0. row.about = copy.about /\ (row.about # "opening" => row.screen = copy.screen)
    BY <1>6, WorkerTable DEF WorkerKin
  <2>1. /\ WorkerQueries(copy) = WorkerQueries(row) /\ WorkerQuiet(copy) = WorkerQuiet(row)
        /\ \A h : WorkerHandler(copy, h) <=> WorkerHandler(row, h)
    <3>1. WorkerQueries(copy) = WorkerQueries(row)
      <4>1. CASE row.about = "opening"
        BY <2>0, <4>1 DEF WorkerQueries
      <4>2. CASE row.about # "opening"
        BY <2>0, <4>2 DEF WorkerQueries
      <4> QED BY <4>1, <4>2
    <3>2. WorkerQuiet(copy) = WorkerQuiet(row)
      <4>1. CASE row.about = "opening"
        BY <2>0, <4>1 DEF WorkerQuiet, When
      <4>2. CASE row.about # "opening"
        BY <2>0, <4>2 DEF WorkerQuiet, When
      <4> QED BY <4>1, <4>2
    <3>3. ASSUME NEW h PROVE WorkerHandler(copy, h) <=> WorkerHandler(row, h)
      <4>1. CASE row.about = "opening"
        BY <2>0, <4>1 DEF WorkerHandler
      <4>2. CASE row.about # "opening"
        BY <2>0, <4>2 DEF WorkerHandler
      <4> QED BY <4>1, <4>2
    <3> QED BY <3>1, <3>2, <3>3
  <2>2. \A other : WorkerKin(row, other) <=> WorkerKin(copy, other)
    BY <2>0 DEF WorkerKin
  <2>3. WorkerKin(row, row) /\ WorkerKin(copy, row)
    BY <2>0 DEF WorkerKin
  <2> QED BY <1>6, <2>1, <2>2, <2>3, WorkerTable
<1>7. CASE desk = "client"
  <2>0. row.about = copy.about /\ (row.about = "request" => row.screen = copy.screen)
    BY <1>7, ClientTable DEF ClientKin
  <2>4. row.about \in {"request", "form", "profile", "consent", "opinion"}
    BY <1>7, ClientTable, ClientKinds
  <2>1. /\ ClientQueries(copy) = ClientQueries(row) /\ ClientQuiet(copy) = ClientQuiet(row)
        /\ \A h : ClientHandler(copy, h) <=> ClientHandler(row, h)
    <3>1. ClientQueries(copy) = ClientQueries(row)
      <4>1. CASE row.about = "request"
        BY <2>0, <4>1 DEF ClientQueries
      <4>2. CASE row.about = "form"
        BY <2>0, <4>2 DEF ClientQueries
      <4>3. CASE row.about = "profile"
        BY <2>0, <4>3 DEF ClientQueries
      <4>4. CASE row.about = "consent"
        BY <2>0, <4>4 DEF ClientQueries
      <4>5. CASE row.about = "opinion"
        BY <2>0, <4>5 DEF ClientQueries
      <4> QED BY <2>4, <4>1, <4>2, <4>3, <4>4, <4>5
    <3>2. ClientQuiet(copy) = ClientQuiet(row)
      BY <2>0 DEF ClientQuiet
    <3>3. ASSUME NEW h PROVE ClientHandler(copy, h) <=> ClientHandler(row, h)
      <4>1. CASE row.about = "request"
        BY <2>0, <4>1 DEF ClientHandler
      <4>2. CASE row.about = "form"
        BY <2>0, <4>2 DEF ClientHandler
      <4>3. CASE row.about = "profile"
        BY <2>0, <4>3 DEF ClientHandler
      <4>4. CASE row.about = "consent"
        BY <2>0, <4>4 DEF ClientHandler
      <4>5. CASE row.about = "opinion"
        BY <2>0, <4>5 DEF ClientHandler
      <4> QED BY <2>4, <4>1, <4>2, <4>3, <4>4, <4>5
    <3> QED BY <3>1, <3>2, <3>3
  <2>2. \A other : ClientKin(row, other) <=> ClientKin(copy, other)
    BY <2>0 DEF ClientKin
  <2>3. ClientKin(row, row) /\ ClientKin(copy, row)
    BY <2>0 DEF ClientKin
  <2> QED BY <1>7, <2>0, <2>1, <2>2, <2>3, ClientTable
<1> QED BY <1>1, <1>2, <1>3, <1>4, <1>5, <1>6, <1>7 DEF DeskNames

LEMMA KinToItself ==
  ASSUME desk \in DeskNames, NEW row \in RowsOf(desk)
  PROVE  KinTo(desk, row, row)
BY DEF DeskNames, KinTo, WorkerKin, ClientKin

(* What a screen offers of a copy of the row is one of its handlers: it    *)
(* refetches queries of the screen, and tells of its failure unless it is  *)
(* one of the silent ones.                                                 *)
LEMMA DeskHandlers ==
  ASSUME desk \in DeskNames, NEW row \in RowsOf(desk), NEW copy \in RowsOf(desk), KinTo(desk, row, copy),
         NEW h \in Offers(copy)
  PROVE  OfferOf(desk, row, h)
<1>1. CASE desk = "job"
  BY <1>1, JobTable, JobHandlers
<1>2. CASE desk = "board"
  BY <1>2, BoardTable, BoardHandlers
<1>3. CASE desk = "money"
  BY <1>3, MoneyTable, MoneyHandlers
<1>4. CASE desk = "people"
  BY <1>4, PeopleTable, PeopleHandlers
<1>5. CASE desk = "care"
  BY <1>5, CareTable, CareHandlers
<1>6. CASE desk = "worker"
  BY <1>6, WorkerTable, WorkerHandlers
<1>7. CASE desk = "client"
  BY <1>7, ClientTable, ClientHandlers
<1> QED BY <1>1, <1>2, <1>3, <1>4, <1>5, <1>6, <1>7 DEF DeskNames

LEMMA HandlerOK ==
  ASSUME desk \in DeskNames, NEW row \in RowsOf(desk), NEW h, OfferOf(desk, row, h)
  PROVE  /\ h.op # "none" /\ h # NoHandler
         /\ h.refetch \subseteq DOMAIN QueriesOf(desk, row)
         /\ h.told \/ h.op \in Silent
         /\ desk = "job" /\ h.op = "cancel" => h.refetch = {"detail"}
<1> SUFFICES /\ h.op # "none" /\ h.refetch \subseteq DOMAIN QueriesOf(desk, row)
             /\ h.told \/ h.op \in Silent
             /\ desk = "job" /\ h.op = "cancel" => h.refetch = {"detail"}
  BY DEF NoHandler, Handler
<1>1. CASE desk = "job"
  BY <1>1, JobTable DEF JobHandler, JobQueries, Silent, JobSilent
<1>2. CASE desk = "board"
  BY <1>2, BoardTable DEF BoardHandler, BoardQueries
<1>3. CASE desk = "money"
  BY <1>3, MoneyTable DEF MoneyHandler, PayrollHandler, FinanceHandler, MoneyQueries
<1>4. CASE desk = "people"
  <2>1. row \in PeopleRows /\ PeopleHandler(row, h) /\ QueriesOf(desk, row) = PeopleQueries(row)
    BY <1>4, PeopleTable
  <2>2. CASE row.about = "worker"
    BY <1>4, <2>1, <2>2 DEF PeopleHandler, WorkerReviewHandler, PeopleQueries, Silent, PeopleSilent
  <2>3. CASE row.about = "client"
    BY <1>4, <2>1, <2>3 DEF PeopleHandler, ClientsHandler, PeopleQueries, Silent, PeopleSilent
  <2>4. CASE row.about = "admin"
    BY <1>4, <2>1, <2>4 DEF PeopleHandler, AdminsHandler, PeopleQueries, Silent, PeopleSilent
  <2> QED BY <2>1, <2>2, <2>3, <2>4, PeopleKinds
<1>5. CASE desk = "care"
  <2>1. row \in CareRows /\ CareHandler(row, h) /\ QueriesOf(desk, row) = CareQueries(row)
    BY <1>5, CareTable
  <2>2. CASE row.about = "attendance"
    BY <1>5, <2>1, <2>2 DEF CareHandler, CareQueries, AttendanceHandler
  <2>3. CASE row.about = "complaint"
    BY <1>5, <2>1, <2>3 DEF CareHandler, CareQueries, ComplaintHandler
  <2>4. CASE row.about = "dispute"
    BY <1>5, <2>1, <2>4 DEF CareHandler, CareQueries, DisputeHandler
  <2>5. CASE row.about = "privacy"
    BY <1>5, <2>1, <2>5 DEF CareHandler, CareQueries, PrivacyHandler
  <2>6. CASE row.about = "sla"
    BY <1>5, <2>1, <2>6 DEF CareHandler, CareQueries, SlaHandler
  <2> QED BY <2>1, <2>2, <2>3, <2>4, <2>5, <2>6, CareKinds
<1>6. CASE desk = "worker"
  <2>1. row \in WorkerRows /\ WorkerHandler(row, h) /\ QueriesOf(desk, row) = WorkerQueries(row)
    BY <1>6, WorkerTable
  <2>2. row.about = "availability" => row.screen \in {"calendar", "profile"}
    BY <2>1, WorkerKinds DEF AvailabilityRows
  <2>3. CASE row.about = "shift"
    BY <1>6, <2>1, <2>3 DEF WorkerHandler, WorkerQueries
  <2>4. CASE row.about = "opening"
    BY <1>6, <2>1, <2>4 DEF WorkerHandler, WorkerQueries
  <2>5. CASE row.about = "availability"
    BY <1>6, <2>1, <2>2, <2>5 DEF WorkerHandler, WorkerQueries
  <2> QED BY <2>1, <2>3, <2>4, <2>5, WorkerKinds
<1>7. CASE desk = "client"
  <2>1. row \in ClientRows /\ ClientHandler(row, h) /\ QueriesOf(desk, row) = ClientQueries(row)
    BY <1>7, ClientTable
  <2>2. CASE row.about = "request"
    BY <1>7, <2>1, <2>2 DEF ClientHandler, ClientQueries
  <2>3. CASE row.about = "form" \/ row.about = "profile"
    BY <1>7, <2>1, <2>3 DEF ClientHandler, ClientQueries
  <2>4. CASE row.about = "consent"
    BY <1>7, <2>1, <2>4 DEF ClientHandler, ClientQueries
  <2>5. CASE row.about = "opinion"
    BY <1>7, <2>1, <2>5 DEF ClientHandler, ClientQueries
  <2> QED BY <2>1, <2>2, <2>3, <2>4, <2>5, ClientKinds
<1> QED BY <1>1, <1>2, <1>3, <1>4, <1>5, <1>6, <1>7 DEF DeskNames

(* A request served leaves alone what it does not refetch, but for what    *)
(* its handler is known to leave and the cards of a requirement cancelled. *)
LEMMA DeskServes ==
  ASSUME desk \in DeskNames, NEW row \in RowsOf(desk), NEW h, OfferOf(desk, row, h), Accepts(row, h)
  PROVE  /\ After(row, h) \in RowsOf(desk) /\ KinTo(desk, row, After(row, h))
         /\ desk = "job" => /\ QuoteMade(row) => QuoteMade(After(row, h))
                            /\ row.status = "cancelled" \/ h.op = "cancel" => After(row, h).status = "cancelled"
         /\ \A q \in DOMAIN QueriesOf(desk, row) \ (h.refetch \cup MissedBy(desk, h.op) \cup UnseenOf(desk, row)) :
              \/ desk = "job" /\ h.op = "cancel" /\ q = "cards"
              \/ \A f \in QueriesOf(desk, row)[q] : After(row, h)[f] = row[f]
<1>1. CASE desk = "job"
  BY <1>1, JobTable, JobServes
<1>2. CASE desk = "board"
  BY <1>2, BoardTable, BoardServes
<1>3. CASE desk = "money"
  BY <1>3, MoneyTable, MoneyServes
<1>4. CASE desk = "people"
  BY <1>4, PeopleTable, PeopleServes
<1>5. CASE desk = "care"
  BY <1>5, CareTable, CareServes
<1>6. CASE desk = "worker"
  BY <1>6, WorkerTable, WorkerServes
<1>7. CASE desk = "client"
  BY <1>7, ClientTable, ClientServes
<1> QED BY <1>1, <1>2, <1>3, <1>4, <1>5, <1>6, <1>7 DEF DeskNames

LEMMA DeskRefuses ==
  ASSUME desk \in DeskNames, NEW row \in RowsOf(desk), NEW h, OfferOf(desk, row, h)
  PROVE  /\ Refused(row, h) \in RowsOf(desk) /\ KinTo(desk, row, Refused(row, h))
         /\ desk = "job" => Refused(row, h) = row
<1>1. CASE desk = "board"
  BY <1>1, BoardTable, BoardServes
<1>2. CASE desk = "client"
  BY <1>2, ClientTable, ClientRefusal
<1>3. CASE desk \notin {"board", "client"}
  BY <1>3, KinToItself DEF Refused
<1> QED BY <1>1, <1>2, <1>3

LEMMA DeskMoved ==
  ASSUME desk \in DeskNames, NEW row \in RowsOf(desk), NEW after \in Moved(row)
  PROVE  /\ after \in RowsOf(desk) /\ KinTo(desk, row, after)
         /\ desk = "job" => /\ QuoteMade(row) => QuoteMade(after)
                            /\ row.status = "cancelled" => after.status = "cancelled"
<1>1. CASE desk = "job"
  BY <1>1, JobTable, JobMoved
<1>2. CASE desk = "board"
  BY <1>2, BoardTable, BoardMoved
<1>3. CASE desk = "money"
  BY <1>3, MoneyTable, MoneyMoved
<1>4. CASE desk = "people"
  BY <1>4, PeopleTable, PeopleMoved
<1>5. CASE desk = "care"
  BY <1>5, CareTable, CareMoved
<1>6. CASE desk = "worker"
  BY <1>6, WorkerTable, WorkerMoved
<1>7. CASE desk = "client"
  BY <1>7, ClientTable, ClientMoved
<1> QED BY <1>1, <1>2, <1>3, <1>4, <1>5, <1>6, <1>7 DEF DeskNames

LEMMA DeskPatched ==
  ASSUME desk \in DeskNames, NEW row \in RowsOf(desk), NEW seen \in RowsOf(desk), KinTo(desk, row, seen),
         NEW q \in DOMAIN QueriesOf(desk, row)
  PROVE  LET patched == Patched(seen, Part(row, Queries(row)[q]))
         IN  /\ patched \in RowsOf(desk) /\ KinTo(desk, row, patched)
             /\ desk = "job" => patched.status = IF q = "detail" THEN row.status ELSE seen.status
<1>1. CASE desk = "job"
  <2>1. row \in JobRows /\ seen \in JobRows /\ q \in DOMAIN JobQueries /\ Queries(row) = JobQueries
    BY <1>1, JobTable
  <2>2. /\ Patched(seen, Part(row, JobQueries[q])) \in JobRows
        /\ Patched(seen, Part(row, JobQueries[q])).status = IF q = "detail" THEN row.status ELSE seen.status
    BY <2>1, JobPatched
  <2>3. RowsOf(desk) = JobRows /\ \A copy : KinTo(desk, row, copy)
    BY <1>1, JobTable
  <2> QED BY <2>1, <2>2, <2>3
<1>2. CASE desk = "board"
  BY <1>2, BoardTable, BoardPatched
<1>3. CASE desk = "money"
  BY <1>3, MoneyTable, MoneyPatched
<1>4. CASE desk = "people"
  BY <1>4, PeopleTable, PeoplePatched
<1>5. CASE desk = "care"
  BY <1>5, CareTable, CarePatched
<1>6. CASE desk = "worker"
  BY <1>6, WorkerTable, WorkerPatched
<1>7. CASE desk = "client"
  BY <1>7, ClientTable, ClientPatched
<1> QED BY <1>1, <1>2, <1>3, <1>4, <1>5, <1>6, <1>7 DEF DeskNames

LEMMA DeskBlanked ==
  ASSUME desk \in DeskNames, NEW row \in RowsOf(desk), NEW seen \in RowsOf(desk), KinTo(desk, row, seen)
  PROVE  LET blanked == Patched(seen, Blank(row))
         IN  /\ blanked \in RowsOf(desk) /\ KinTo(desk, row, blanked)
             /\ desk = "job" => blanked.status = seen.status
<1>1. CASE desk # "client"
  <2>1. Blank(row) = << >>
    BY <1>1 DEF Blank
  <2>2. Patched(seen, Blank(row)) = [f \in DOMAIN seen |-> seen[f]]
    BY <2>1 DEF Patched
  <2>3. seen = [f \in DOMAIN seen |-> seen[f]]
    <3>1. CASE desk = "job"
      <4>1. seen \in JobRows
        BY <3>1, JobTable
      <4> QED BY <4>1 DEF JobRows
    <3>2. CASE desk = "board"
      <4>1. seen \in BoardRows
        BY <3>2, BoardTable
      <4> QED BY <4>1 DEF BoardRows
    <3>3. CASE desk = "money"
      BY <3>3, MoneyTable DEF MoneyRows, PayrollRows, FinanceRows
    <3>4. CASE desk = "people"
      BY <3>4, PeopleTable DEF PeopleRows, WorkerRecords, ClientRecords, AdminRows
    <3>5. CASE desk = "care"
      BY <3>5, CareTable DEF CareRows, AttendanceRows, ComplaintRows, DisputeRows, PrivacyRows, SlaRows
    <3>6. CASE desk = "worker"
      BY <3>6, WorkerTable DEF WorkerRows, ShiftRows, OpeningRows, AvailabilityRows
    <3> QED BY <1>1, <3>1, <3>2, <3>3, <3>4, <3>5, <3>6 DEF DeskNames
  <2> QED BY <2>2, <2>3
<1>2. CASE desk = "client"
  BY <1>2, ClientTable, ClientPatched
<1> QED BY <1>1, <1>2

LEMMA DeskOpened ==
  ASSUME desk \in DeskNames, NEW row \in Starts(desk)
  PROVE  row \in RowsOf(desk) /\ (desk = "job" => QuoteMade(row))
<1>1. CASE desk = "job"
  BY <1>1, JobTable, JobOpened
<1>2. CASE desk = "board"
  BY <1>2, BoardTable, BoardOpened
<1>3. CASE desk = "money"
  BY <1>3, MoneyTable, MoneyOpened
<1>4. CASE desk = "people"
  BY <1>4, PeopleTable, PeopleOpened
<1>5. CASE desk = "care"
  BY <1>5, CareTable, CareOpened
<1>6. CASE desk = "worker"
  BY <1>6, WorkerTable, WorkerOpened
<1>7. CASE desk = "client"
  BY <1>7, ClientTable, ClientOpened
<1> QED BY <1>1, <1>2, <1>3, <1>4, <1>5, <1>6, <1>7 DEF DeskNames

LEMMA DeskOffered ==
  ASSUME desk \in DeskNames, NEW row \in RowsOf(desk), NEW copy \in RowsOf(desk), KinTo(desk, row, copy),
         desk = "job" => QuoteMade(row),
         \A q \in DOMAIN Queries(row) : Part(copy, Queries(row)[q]) = Part(row, Queries(row)[q]),
         NEW h \in Offers(copy)
  PROVE  LeftToServer(row, h) \/ Accepts(row, h)
<1>1. CASE desk = "job"
  BY <1>1, JobTable, JobOffered DEF LeftToServer
<1>2. CASE desk = "board"
  BY <1>2, BoardTable, BoardOffered DEF LeftToServer
<1>3. CASE desk = "money"
  BY <1>3, MoneyTable, MoneyOffered DEF LeftToServer
<1>4. CASE desk = "people"
  BY <1>4, PeopleTable, PeopleOffered DEF LeftToServer
<1>5. CASE desk = "care"
  BY <1>5, CareTable, CareOffered DEF LeftToServer
<1>6. CASE desk = "worker"
  BY <1>6, WorkerTable, WorkerOffered DEF LeftToServer
<1>7. CASE desk = "client"
  BY <1>7, ClientTable, ClientOffered DEF LeftToServer
<1> QED BY <1>1, <1>2, <1>3, <1>4, <1>5, <1>6, <1>7 DEF DeskNames

-----------------------------------------------------------------------------
(* The page, over any row of desk `d'.                                     *)
AskOK(d, row, ask) ==
  /\ ask = [h |-> ask.h, at |-> ask.at]
  /\ \/ ask.at = "none" /\ ask.h = NoHandler
     \/ ask.at \in {"asked", "ok", "refused"} /\ OfferOf(d, row, ask.h)

(* A change the page has not fetched is still to be fetched; or it is one  *)
(* the handler is known to leave, or its failure is one nobody is told of; *)
(* or it is to the cards of a requirement the page itself cancelled, which *)
(* go from the page with its detail.                                       *)
Coming(due, ask, b) ==
  \/ ask.at = "ok" /\ b.op = ask.h.op /\ b.query \in ask.h.refetch
  \/ b.query \in due

Excused(d, row, b) ==
  \/ b.query \in MissedBy(d, b.op) \cup UnseenOf(d, row)
  \/ b.lost /\ (b.op \in Silent \/ b.query \in QuietOf(d, row))

Gone(d, row, seen, due, ask, b) ==
  /\ d = "job" /\ b.op = "cancel" /\ b.query = "cards" /\ row.status = "cancelled"
  /\ \/ ask.at = "ok" /\ ask.h.op = "cancel"
     \/ "detail" \in due
     \/ seen.status = "cancelled"

BehindOK(d, row, seen, due, ask, b) ==
  /\ b = [op |-> b.op, query |-> b.query, lost |-> b.lost]
  /\ b.query \in DOMAIN QueriesOf(d, row) /\ b.lost \in BOOLEAN
  /\ Coming(due, ask, b) \/ Excused(d, row, b) \/ Gone(d, row, seen, due, ask, b)

PageOK(d, row, p) ==
  /\ p = [seen |-> p.seen, due |-> p.due, ask |-> p.ask, behind |-> p.behind, turns |-> p.turns]
  /\ p.seen \in RowsOf(d) /\ KinTo(d, row, p.seen)
  /\ p.due \subseteq DOMAIN QueriesOf(d, row)
  /\ AskOK(d, row, p.ask)
  /\ \A b \in p.behind : BehindOK(d, row, p.seen, p.due, p.ask, b)
  /\ p.turns \in 0..MaxTurns

RowOK(d, row) == row \in RowsOf(d) /\ (d = "job" => QuoteMade(row))

ScreenInv == desk = "none" \/ (desk \in DeskNames /\ RowOK(desk, rows) /\ PageOK(desk, rows, page))

LEMMA SameQueries ==
  ASSUME desk \in DeskNames, NEW row
  PROVE  Queries(row) = QueriesOf(desk, row) /\ Quiet(row) = QuietOf(desk, row)
BY JobTable, BoardTable, MoneyTable, PeopleTable, CareTable, WorkerTable, ClientTable DEF DeskNames

(* The row moves to another of its kind and the page stays.                *)
LEMMA RowMoves ==
  ASSUME desk \in DeskNames, NEW row \in RowsOf(desk), NEW after \in RowsOf(desk), KinTo(desk, row, after),
         (desk = "job" /\ row.status = "cancelled") => after.status = "cancelled",
         NEW p, PageOK(desk, row, p)
  PROVE  PageOK(desk, after, p)
<1>1. /\ \A other \in RowsOf(desk) : KinTo(desk, row, other) <=> KinTo(desk, after, other)
      /\ QueriesOf(desk, after) = QueriesOf(desk, row)
      /\ UnseenOf(desk, after) = UnseenOf(desk, row)
      /\ QuietOf(desk, after) = QuietOf(desk, row)
      /\ \A h : OfferOf(desk, after, h) <=> OfferOf(desk, row, h)
  BY KinOK
<1>2. AskOK(desk, after, p.ask)
  BY <1>1 DEF PageOK, AskOK
<1>3. ASSUME NEW b \in p.behind PROVE BehindOK(desk, after, p.seen, p.due, p.ask, b)
  <2>1. BehindOK(desk, row, p.seen, p.due, p.ask, b)
    BY DEF PageOK
  <2>2. Excused(desk, row, b) <=> Excused(desk, after, b)
    BY <1>1 DEF Excused
  <2>3. Gone(desk, row, p.seen, p.due, p.ask, b) => Gone(desk, after, p.seen, p.due, p.ask, b)
    BY DEF Gone
  <2> QED BY <1>1, <2>1, <2>2, <2>3 DEF BehindOK
<1> QED BY <1>1, <1>2, <1>3 DEF PageOK

(* A page opened on the row as it is.                                      *)
LEMMA PageOpened ==
  ASSUME desk \in DeskNames, NEW row \in RowsOf(desk), NEW turns \in 0..MaxTurns
  PROVE  PageOK(desk, row, Opened(row, turns))
BY KinToItself DEF PageOK, Opened, AskOK, NoAsk

(* A request is sent: no earlier one is under way.                         *)
LEMMA PageSubmits ==
  ASSUME desk \in DeskNames, NEW row \in RowsOf(desk), NEW p, PageOK(desk, row, p),
         p.ask.at = "none", p.turns < MaxTurns, MaxTurns \in Nat, NEW h \in Offers(p.seen),
         NEW q, q = [p EXCEPT !.ask = [h |-> h, at |-> "asked"], !.turns = @ + 1]
  PROVE  PageOK(desk, row, q)
<1>1. /\ q = [seen |-> q.seen, due |-> q.due, ask |-> q.ask, behind |-> q.behind, turns |-> q.turns]
      /\ q.seen = p.seen /\ q.due = p.due /\ q.behind = p.behind /\ q.turns = p.turns + 1
      /\ q.ask = [h |-> h, at |-> "asked"]
  BY DEF PageOK
<1>2. AskOK(desk, row, q.ask)
  BY <1>1, DeskHandlers DEF AskOK, PageOK
<1>3. ASSUME NEW b \in q.behind PROVE BehindOK(desk, row, q.seen, q.due, q.ask, b)
  <2>1. BehindOK(desk, row, p.seen, p.due, p.ask, b)
    BY <1>1 DEF PageOK
  <2> QED BY <1>1, <2>1 DEF BehindOK, Coming, Gone
<1>4. q.turns \in 0..MaxTurns
  BY <1>1 DEF PageOK
<1> QED BY <1>1, <1>2, <1>3, <1>4 DEF PageOK

(* The request's outcome is known to the server and not to the page.       *)
LEMMA PageRefused ==
  ASSUME desk \in DeskNames, NEW row \in RowsOf(desk), NEW p, PageOK(desk, row, p),
         p.ask.at = "asked", NEW at \in {"ok", "refused"}, NEW q, q = [p EXCEPT !.ask.at = at]
  PROVE  /\ PageOK(desk, row, q)
         /\ q = [seen |-> p.seen, due |-> p.due, ask |-> [h |-> p.ask.h, at |-> at],
                 behind |-> p.behind, turns |-> p.turns]
<1>1. /\ q = [seen |-> q.seen, due |-> q.due, ask |-> q.ask, behind |-> q.behind, turns |-> q.turns]
      /\ q.seen = p.seen /\ q.due = p.due /\ q.behind = p.behind /\ q.turns = p.turns
      /\ q.ask = [h |-> p.ask.h, at |-> at]
  BY DEF PageOK, AskOK
<1>2. AskOK(desk, row, q.ask)
  BY <1>1 DEF AskOK, PageOK
<1>3. ASSUME NEW b \in q.behind PROVE BehindOK(desk, row, q.seen, q.due, q.ask, b)
  <2>1. BehindOK(desk, row, p.seen, p.due, p.ask, b)
    BY <1>1 DEF PageOK
  <2> QED BY <1>1, <2>1 DEF BehindOK, Coming, Gone
<1> QED BY <1>1, <1>2, <1>3 DEF PageOK

(* The server does what was asked, and the page is behind on what changed. *)
LEMMA PageServed ==
  ASSUME desk \in DeskNames, NEW row \in RowsOf(desk), NEW p, PageOK(desk, row, p),
         p.ask.at = "asked", Accepts(row, p.ask.h), NEW after, after = After(row, p.ask.h),
         NEW q, q = [p EXCEPT !.ask.at = "ok",
                              !.behind = @ \cup [op : {p.ask.h.op}, query : Changed(row, after), lost : {FALSE}]]
  PROVE  PageOK(desk, after, q)
<1> DEFINE h == p.ask.h
           served == [p EXCEPT !.ask.at = "ok"]
<1>1. OfferOf(desk, row, h)
  BY DEF PageOK, AskOK
<1>2. /\ after \in RowsOf(desk) /\ KinTo(desk, row, after)
      /\ desk = "job" => (row.status = "cancelled" \/ h.op = "cancel" => after.status = "cancelled")
      /\ \A k \in DOMAIN QueriesOf(desk, row) \ (h.refetch \cup MissedBy(desk, h.op) \cup UnseenOf(desk, row)) :
           \/ desk = "job" /\ h.op = "cancel" /\ k = "cards"
           \/ \A f \in QueriesOf(desk, row)[k] : after[f] = row[f]
  BY <1>1, DeskServes
<1>3. PageOK(desk, row, served)
  BY PageRefused
<1>4. PageOK(desk, after, served)
  BY <1>2, <1>3, RowMoves
<1>5. /\ QueriesOf(desk, after) = QueriesOf(desk, row)
      /\ UnseenOf(desk, after) = UnseenOf(desk, row)
  BY <1>2, KinOK
<1>6. served = [seen |-> p.seen, due |-> p.due, ask |-> [h |-> h, at |-> "ok"], behind |-> p.behind, turns |-> p.turns]
  BY PageRefused
<1>7. q = [seen |-> p.seen, due |-> p.due, ask |-> [h |-> h, at |-> "ok"],
           behind |-> p.behind \cup [op : {h.op}, query : Changed(row, after), lost : {FALSE}], turns |-> p.turns]
  BY DEF PageOK, AskOK
<1>8. ASSUME NEW b \in [op : {h.op}, query : Changed(row, after), lost : {FALSE}]
      PROVE  BehindOK(desk, after, p.seen, p.due, [h |-> h, at |-> "ok"], b)
  <2>1. /\ b = [op |-> b.op, query |-> b.query, lost |-> b.lost]
        /\ b.op = h.op /\ b.query \in Changed(row, after) /\ b.lost = FALSE
    OBVIOUS
  <2>2. /\ b.query \in DOMAIN QueriesOf(desk, row)
        /\ Part(row, QueriesOf(desk, row)[b.query]) # Part(after, QueriesOf(desk, row)[b.query])
    BY <2>1, SameQueries DEF Changed
  <2>3. \E f \in QueriesOf(desk, row)[b.query] : after[f] # row[f]
    BY <2>2 DEF Part
  <2>4. \/ b.query \in h.refetch \cup MissedBy(desk, h.op) \cup UnseenOf(desk, row)
        \/ desk = "job" /\ h.op = "cancel" /\ b.query = "cards"
    BY <1>2, <2>2, <2>3
  <2>5. CASE b.query \in h.refetch
    BY <1>5, <2>1, <2>2, <2>5 DEF BehindOK, Coming
  <2>6. CASE b.query \in MissedBy(desk, h.op) \cup UnseenOf(desk, row)
    BY <1>5, <2>1, <2>2, <2>6 DEF BehindOK, Excused
  <2>7. CASE desk = "job" /\ h.op = "cancel" /\ b.query = "cards"
    BY <1>2, <1>5, <2>1, <2>2, <2>7 DEF BehindOK, Gone
  <2> QED BY <2>4, <2>5, <2>6, <2>7
<1> DEFINE ask == [h |-> h, at |-> "ok"]
           new == [op : {h.op}, query : Changed(row, after), lost : {FALSE}]
<1>9. /\ served.seen = p.seen /\ served.due = p.due /\ served.ask = ask
      /\ served.behind = p.behind /\ served.turns = p.turns
  BY <1>6
<1>11. \A b \in new : BehindOK(desk, after, p.seen, p.due, ask, b)
  BY <1>8
<1>13. q = [seen |-> p.seen, due |-> p.due, ask |-> ask, behind |-> p.behind \cup new, turns |-> p.turns]
  BY <1>7
<1> HIDE DEF h, served, ask, new
<1>14. q.seen = p.seen /\ q.due = p.due /\ q.ask = ask /\ q.behind = p.behind \cup new /\ q.turns = p.turns
  BY ONLY <1>13
<1>10. /\ q = [seen |-> q.seen, due |-> q.due, ask |-> q.ask, behind |-> q.behind, turns |-> q.turns]
       /\ q.seen = p.seen /\ q.due = p.due /\ q.ask = ask
       /\ q.behind = p.behind \cup new /\ q.turns = p.turns
  BY ONLY <1>13, <1>14
<1>12. ASSUME NEW b \in q.behind PROVE BehindOK(desk, after, q.seen, q.due, q.ask, b)
  <2>1. CASE b \in p.behind
    <3>1. BehindOK(desk, after, served.seen, served.due, served.ask, b)
      BY <1>4, <1>9, <2>1 DEF PageOK
    <3> QED BY <1>9, <1>10, <3>1
  <2>2. CASE b \in new
    BY <1>10, <1>11, <2>2
  <2> QED BY <1>10, <2>1, <2>2
<1> QED BY <1>4, <1>9, <1>10, <1>12 DEF PageOK

(* The answer arrives: what the handler refetches is due.                  *)
LEMMA PageSucceeds ==
  ASSUME desk \in DeskNames, NEW row \in RowsOf(desk), NEW p, PageOK(desk, row, p), p.ask.at = "ok",
         NEW q, q = [p EXCEPT !.ask = NoAsk, !.due = @ \cup p.ask.h.refetch]
  PROVE  PageOK(desk, row, q)
<1>1. /\ q = [seen |-> q.seen, due |-> q.due, ask |-> q.ask, behind |-> q.behind, turns |-> q.turns]
      /\ q.seen = p.seen /\ q.due = p.due \cup p.ask.h.refetch /\ q.behind = p.behind /\ q.turns = p.turns
      /\ q.ask = NoAsk
  BY DEF PageOK
<1>2. /\ OfferOf(desk, row, p.ask.h) /\ p.ask.h.refetch \subseteq DOMAIN QueriesOf(desk, row)
      /\ desk = "job" /\ p.ask.h.op = "cancel" => p.ask.h.refetch = {"detail"}
  <2>1. OfferOf(desk, row, p.ask.h)
    BY DEF PageOK, AskOK
  <2> QED BY <2>1, HandlerOK
<1>3. AskOK(desk, row, q.ask) /\ q.ask.at = "none"
  BY <1>1 DEF AskOK, NoAsk
<1>4. ASSUME NEW b \in q.behind PROVE BehindOK(desk, row, q.seen, q.due, q.ask, b)
  <2>1. BehindOK(desk, row, p.seen, p.due, p.ask, b)
    BY <1>1 DEF PageOK
  <2>2. CASE Coming(p.due, p.ask, b)
    BY <1>1, <2>1, <2>2 DEF BehindOK, Coming
  <2>3. CASE Excused(desk, row, b)
    BY <2>1, <2>3 DEF BehindOK
  <2>4. CASE Gone(desk, row, p.seen, p.due, p.ask, b)
    <3>1. Gone(desk, row, q.seen, q.due, q.ask, b)
      BY <1>1, <1>2, <2>4 DEF Gone
    <3> QED BY <2>1, <3>1 DEF BehindOK
  <2> QED BY <2>1, <2>2, <2>3, <2>4 DEF BehindOK
<1> QED BY <1>1, <1>2, <1>3, <1>4 DEF PageOK

(* A failure arrives: a handler that says nothing of it is a silent one.   *)
LEMMA PageFails ==
  ASSUME desk \in DeskNames, NEW row \in RowsOf(desk), NEW p, PageOK(desk, row, p),
         p.ask.at \in {"ok", "refused"}, NEW q,
         q = [p EXCEPT !.ask = NoAsk,
                       !.due = IF p.ask.h.always THEN @ \cup p.ask.h.refetch ELSE @,
                       !.behind = {b \in @ : b.op # p.ask.h.op}
                          \cup When(~p.ask.h.told,
                                    {[b EXCEPT !.lost = TRUE] : b \in {c \in @ : c.op = p.ask.h.op}})]
  PROVE  PageOK(desk, row, q)
<1> DEFINE h    == p.ask.h
           due  == IF h.always THEN p.due \cup h.refetch ELSE p.due
           kept == {b \in p.behind : b.op # h.op}
           lost == When(~h.told, {[b EXCEPT !.lost = TRUE] : b \in {c \in p.behind : c.op = h.op}})
<1>1. q = [seen |-> p.seen, due |-> due, ask |-> NoAsk, behind |-> kept \cup lost, turns |-> p.turns]
  BY DEF PageOK
<1>2. /\ h.refetch \subseteq DOMAIN QueriesOf(desk, row)
      /\ h.told \/ h.op \in Silent
  <2>1. OfferOf(desk, row, h)
    BY DEF PageOK, AskOK
  <2> QED BY <2>1, HandlerOK
<1>3. /\ due \subseteq DOMAIN QueriesOf(desk, row) /\ p.due \subseteq due
  BY <1>2 DEF PageOK
<1>4. AskOK(desk, row, NoAsk) /\ NoAsk.at = "none"
  BY DEF AskOK, NoAsk
<1>5. ASSUME NEW b \in kept PROVE BehindOK(desk, row, p.seen, due, NoAsk, b)
  <2>1. BehindOK(desk, row, p.seen, p.due, p.ask, b) /\ b.op # h.op
    BY DEF PageOK
  <2>2. Coming(p.due, p.ask, b) => Coming(due, NoAsk, b)
    BY <1>3, <2>1 DEF Coming
  <2>3. Gone(desk, row, p.seen, p.due, p.ask, b) => Gone(desk, row, p.seen, due, NoAsk, b)
    BY <1>3, <2>1 DEF Gone
  <2> QED BY <2>1, <2>2, <2>3 DEF BehindOK
<1>6. ASSUME NEW b \in lost PROVE BehindOK(desk, row, p.seen, due, NoAsk, b)
  <2>1. PICK c \in p.behind : c.op = h.op /\ b = [c EXCEPT !.lost = TRUE] /\ ~h.told
    BY DEF When
  <2>2. BehindOK(desk, row, p.seen, p.due, p.ask, c)
    BY DEF PageOK
  <2>3. /\ c = [op |-> c.op, query |-> c.query, lost |-> c.lost]
        /\ c.query \in DOMAIN QueriesOf(desk, row)
    BY <2>2 DEF BehindOK
  <2>4. b = [op |-> b.op, query |-> b.query, lost |-> b.lost] /\ b.op = h.op /\ b.query = c.query /\ b.lost = TRUE
    BY <2>1, <2>3
  <2>5. Excused(desk, row, b)
    BY <1>2, <2>1, <2>4 DEF Excused
  <2> QED BY <2>3, <2>4, <2>5 DEF BehindOK
<1> HIDE DEF h, due, kept, lost
<1>7. /\ q = [seen |-> q.seen, due |-> q.due, ask |-> q.ask, behind |-> q.behind, turns |-> q.turns]
      /\ q.seen = p.seen /\ q.due = due /\ q.ask = NoAsk /\ q.behind = kept \cup lost /\ q.turns = p.turns
  BY ONLY <1>1
<1>8. \A b \in q.behind : BehindOK(desk, row, q.seen, q.due, q.ask, b)
  BY <1>5, <1>6, <1>7
<1> QED BY <1>3, <1>4, <1>7, <1>8 DEF PageOK

(* A query is fetched.  The detail of a requirement cancelled brings its   *)
(* status.                                                                 *)
LEMMA PageFetches ==
  ASSUME desk \in DeskNames, NEW row \in RowsOf(desk), NEW p, PageOK(desk, row, p), NEW k \in p.due,
         NEW q, q = [p EXCEPT !.seen = Patched(@, Part(row, Queries(row)[k])),
                              !.due = @ \ {k},
                              !.behind = {b \in @ : b.query # k}]
  PROVE  PageOK(desk, row, q)
<1> DEFINE patched == Patched(p.seen, Part(row, Queries(row)[k]))
<1>1. /\ q = [seen |-> q.seen, due |-> q.due, ask |-> q.ask, behind |-> q.behind, turns |-> q.turns]
      /\ q.seen = patched /\ q.due = p.due \ {k} /\ q.ask = p.ask
      /\ q.behind = {b \in p.behind : b.query # k} /\ q.turns = p.turns
  BY DEF PageOK
<1>2. k \in DOMAIN QueriesOf(desk, row) /\ p.seen \in RowsOf(desk) /\ KinTo(desk, row, p.seen)
  BY DEF PageOK
<1>3. /\ patched \in RowsOf(desk) /\ KinTo(desk, row, patched)
      /\ desk = "job" => patched.status = IF k = "detail" THEN row.status ELSE p.seen.status
  BY <1>2, DeskPatched
<1> HIDE DEF patched
<1>4. ASSUME NEW b \in q.behind PROVE BehindOK(desk, row, q.seen, q.due, q.ask, b)
  <2>1. BehindOK(desk, row, p.seen, p.due, p.ask, b) /\ b.query # k
    BY <1>1 DEF PageOK
  <2>2. Coming(p.due, p.ask, b) => Coming(q.due, q.ask, b)
    BY <1>1, <2>1 DEF Coming
  <2>3. Gone(desk, row, p.seen, p.due, p.ask, b) => Gone(desk, row, q.seen, q.due, q.ask, b)
    BY <1>1, <1>3 DEF Gone
  <2> QED BY <2>1, <2>2, <2>3 DEF BehindOK
<1>5. q.due \subseteq DOMAIN QueriesOf(desk, row) /\ AskOK(desk, row, q.ask) /\ q.turns \in 0..MaxTurns
  BY <1>1 DEF PageOK
<1> QED BY <1>1, <1>3, <1>4, <1>5 DEF PageOK

(* A load fails: what failed quietly stays behind, as lost, and what did   *)
(* not is told of.  The detail is never quiet: its failure takes the page.  *)
LEMMA PageLosesQuietly ==
  ASSUME desk \in DeskNames, NEW row \in RowsOf(desk), NEW p, PageOK(desk, row, p), NEW k \in p.due \cap Quiet(row),
         NEW q, q = [p EXCEPT !.seen = Patched(@, Blank(row)),
                              !.due = @ \ {k},
                              !.behind = {[b EXCEPT !.lost = b.lost \/ b.query = k] : b \in p.behind}]
  PROVE  PageOK(desk, row, q)
<1> DEFINE seen == Patched(p.seen, Blank(row))
           behind == {[b EXCEPT !.lost = b.lost \/ b.query = k] : b \in p.behind}
<1>1. /\ q = [seen |-> q.seen, due |-> q.due, ask |-> q.ask, behind |-> q.behind, turns |-> q.turns]
      /\ q.seen = seen /\ q.due = p.due \ {k} /\ q.ask = p.ask /\ q.behind = behind /\ q.turns = p.turns
  BY DEF PageOK
<1>2. /\ seen \in RowsOf(desk) /\ KinTo(desk, row, seen)
      /\ desk = "job" => seen.status = p.seen.status
  BY DeskBlanked DEF PageOK
<1> HIDE DEF seen
<1>3. ASSUME NEW b \in q.behind PROVE BehindOK(desk, row, q.seen, q.due, q.ask, b)
  <2>1. PICK c \in p.behind : b = [c EXCEPT !.lost = c.lost \/ c.query = k]
    BY <1>1
  <2>2. BehindOK(desk, row, p.seen, p.due, p.ask, c)
    BY DEF PageOK
  <2>3. /\ c = [op |-> c.op, query |-> c.query, lost |-> c.lost]
        /\ c.query \in DOMAIN QueriesOf(desk, row) /\ c.lost \in BOOLEAN
    BY <2>2 DEF BehindOK
  <2>4. /\ b = [op |-> b.op, query |-> b.query, lost |-> b.lost] /\ b.op = c.op /\ b.query = c.query
        /\ b.lost \in BOOLEAN /\ (c.lost => b.lost) /\ (c.query = k => b.lost)
    BY <2>1, <2>3
  <2>5. Excused(desk, row, c) => Excused(desk, row, b)
    BY <2>4 DEF Excused
  <2>6. Gone(desk, row, p.seen, p.due, p.ask, c) => Gone(desk, row, q.seen, q.due, q.ask, b)
    <3>1. desk = "job" => k # "detail"
      BY JobTable DEF JobQuiet
    <3> QED BY <1>1, <1>2, <2>4, <3>1 DEF Gone
  <2>7. Coming(p.due, p.ask, c) => Coming(q.due, q.ask, b) \/ Excused(desk, row, b)
    <3>1. CASE c.query = k
      BY <2>4, <3>1, SameQueries DEF Excused
    <3>2. CASE c.query # k
      BY <1>1, <2>4, <3>2 DEF Coming
    <3> QED BY <3>1, <3>2
  <2> QED BY <2>2, <2>3, <2>4, <2>5, <2>6, <2>7 DEF BehindOK
<1>4. q.due \subseteq DOMAIN QueriesOf(desk, row) /\ AskOK(desk, row, q.ask) /\ q.turns \in 0..MaxTurns
  BY <1>1 DEF PageOK
<1> QED BY <1>1, <1>2, <1>3, <1>4 DEF PageOK

LEMMA PageLosesLoudly ==
  ASSUME desk \in DeskNames, NEW row \in RowsOf(desk), NEW p, PageOK(desk, row, p), NEW k \in p.due,
         NEW q, q = [p EXCEPT !.due = @ \ {k}, !.behind = {b \in @ : b.query # k /\ k \notin WholePage}]
  PROVE  PageOK(desk, row, q)
<1>1. /\ q = [seen |-> q.seen, due |-> q.due, ask |-> q.ask, behind |-> q.behind, turns |-> q.turns]
      /\ q.seen = p.seen /\ q.due = p.due \ {k} /\ q.ask = p.ask /\ q.turns = p.turns
      /\ q.behind = {b \in p.behind : b.query # k /\ k \notin WholePage}
  BY DEF PageOK
<1>2. ASSUME NEW b \in q.behind PROVE BehindOK(desk, row, q.seen, q.due, q.ask, b)
  <2>1. BehindOK(desk, row, p.seen, p.due, p.ask, b) /\ b.query # k /\ k \notin WholePage
    BY <1>1 DEF PageOK
  <2>2. Coming(p.due, p.ask, b) => Coming(q.due, q.ask, b)
    BY <1>1, <2>1 DEF Coming
  <2>3. Gone(desk, row, p.seen, p.due, p.ask, b) => Gone(desk, row, q.seen, q.due, q.ask, b)
    BY <1>1, <2>1 DEF Gone, WholePage
  <2> QED BY <2>1, <2>2, <2>3 DEF BehindOK
<1>3. q.due \subseteq DOMAIN QueriesOf(desk, row) /\ AskOK(desk, row, q.ask) /\ q.turns \in 0..MaxTurns
  BY <1>1 DEF PageOK
<1> QED BY <1>1, <1>2, <1>3 DEF PageOK

(* A move of others counts as a turn.                                      *)
LEMMA PageTurns ==
  ASSUME desk \in DeskNames, NEW row \in RowsOf(desk), NEW p, PageOK(desk, row, p),
         MaxTurns \in Nat, p.turns < MaxTurns, NEW q, q = [p EXCEPT !.turns = @ + 1]
  PROVE  PageOK(desk, row, q)
<1>1. /\ q = [seen |-> q.seen, due |-> q.due, ask |-> q.ask, behind |-> q.behind, turns |-> q.turns]
      /\ q.seen = p.seen /\ q.due = p.due /\ q.ask = p.ask /\ q.behind = p.behind /\ q.turns = p.turns + 1
  BY DEF PageOK
<1>2. q.turns \in 0..MaxTurns
  BY <1>1 DEF PageOK
<1> QED BY <1>1, <1>2 DEF PageOK

-----------------------------------------------------------------------------
LEMMA ScreenStarts == ScreenInit => ScreenInv
<1> SUFFICES ASSUME ScreenInit PROVE ScreenInv
  OBVIOUS
<1>1. desk \in DeskNames /\ 0 \in 0..MaxTurns
  BY DesksAssumption DEF ScreenInit, DeskNames
<1>2. RowOK(desk, rows)
  BY <1>1, DeskOpened DEF ScreenInit, RowOK
<1>3. PageOK(desk, rows, page)
  BY <1>1, <1>2, PageOpened DEF ScreenInit, RowOK
<1> QED BY <1>1, <1>2, <1>3 DEF ScreenInv

(* The row another user or another app leaves.                             *)
LEMMA ElsewhereKeeps ==
  ASSUME desk \in DeskNames, RowOK(desk, rows), PageOK(desk, rows, page), NEW after, Elsewhere(after),
         after \in RowsOf(desk), KinTo(desk, rows, after),
         desk = "job" => /\ QuoteMade(rows) => QuoteMade(after)
                         /\ rows.status = "cancelled" => after.status = "cancelled"
  PROVE  ScreenInv'
<1>1. desk' = desk /\ rows' = after /\ page' = [page EXCEPT !.turns = @ + 1] /\ page.turns < MaxTurns
  BY DEF Elsewhere
<1>2. PageOK(desk, after, page)
  BY RowMoves DEF RowOK
<1>3. PageOK(desk, after, page')
  BY <1>1, <1>2, PageTurns, DesksAssumption
<1>4. RowOK(desk, after)
  BY DEF RowOK
<1> QED BY <1>1, <1>3, <1>4 DEF ScreenInv

LEMMA ScreenSteps == ScreenInv /\ ScreenNext => ScreenInv'
<1> SUFFICES ASSUME ScreenInv, ScreenNext PROVE ScreenInv'
  OBVIOUS
<1>0. desk \in DeskNames /\ RowOK(desk, rows) /\ PageOK(desk, rows, page) /\ rows \in RowsOf(desk)
  BY DEF ScreenInv, ScreenNext, RowOK
<1>1. CASE Submit
  <2>1. PageOK(desk, rows, page')
    BY <1>0, <1>1, PageSubmits, DesksAssumption DEF Submit
  <2> QED BY <1>0, <1>1, <2>1 DEF Submit, ScreenInv
<1>2. CASE ServeAsk
  <2>1. PageOK(desk, rows', page')
    BY <1>0, <1>2, PageServed DEF ServeAsk
  <2>2. OfferOf(desk, rows, page.ask.h)
    BY <1>0, <1>2 DEF PageOK, AskOK, ServeAsk
  <2>3. RowOK(desk, rows')
    BY <1>0, <1>2, <2>2, DeskServes DEF ServeAsk, RowOK
  <2> QED BY <1>0, <1>2, <2>1, <2>3 DEF ServeAsk, ScreenInv
<1>3. CASE RefuseAsk
  <2>1. OfferOf(desk, rows, page.ask.h)
    BY <1>0, <1>3 DEF PageOK, AskOK, RefuseAsk
  <2>2. /\ rows' \in RowsOf(desk) /\ KinTo(desk, rows, rows')
        /\ desk = "job" => rows' = rows
    BY <1>0, <1>3, <2>1, DeskRefuses DEF RefuseAsk
  <2>3. PageOK(desk, rows, page')
    BY <1>0, <1>3, PageRefused DEF RefuseAsk
  <2>4. PageOK(desk, rows', page')
    BY <1>0, <2>2, <2>3, RowMoves
  <2>5. RowOK(desk, rows')
    BY <1>0, <2>2 DEF RowOK
  <2> QED BY <1>0, <1>3, <2>4, <2>5 DEF RefuseAsk, ScreenInv
<1>4. CASE LoseRequest
  <2>1. PageOK(desk, rows, page')
    BY <1>0, <1>4, PageRefused DEF LoseRequest
  <2> QED BY <1>0, <1>4, <2>1 DEF LoseRequest, ScreenInv
<1>5. CASE Succeed
  <2>1. PageOK(desk, rows, page')
    BY <1>0, <1>5, PageSucceeds DEF Succeed
  <2> QED BY <1>0, <1>5, <2>1 DEF Succeed, ScreenInv
<1>6. CASE Fail
  <2>1. PageOK(desk, rows, page')
    BY <1>0, <1>6, PageFails DEF Fail
  <2> QED BY <1>0, <1>6, <2>1 DEF Fail, ScreenInv
<1>7. CASE Revisit
  <2>1. PageOK(desk, rows, page')
    BY <1>0, <1>7, PageOpened DEF Revisit, PageOK
  <2> QED BY <1>0, <1>7, <2>1 DEF Revisit, ScreenInv
<1>8. ASSUME NEW k, Fetch(k) PROVE ScreenInv'
  <2>1. PageOK(desk, rows, page')
    BY <1>0, <1>8, PageFetches DEF Fetch
  <2> QED BY <1>0, <1>8, <2>1 DEF Fetch, ScreenInv
<1>9. ASSUME NEW k, LoseFetch(k) PROVE ScreenInv'
  <2>1. ASSUME k \in Quiet(rows) PROVE PageOK(desk, rows, page')
    <3>1. /\ k \in page.due \cap Quiet(rows)
          /\ page' = [page EXCEPT !.seen = Patched(@, Blank(rows)),
                                  !.due = @ \ {k},
                                  !.behind = {[b EXCEPT !.lost = b.lost \/ b.query = k] : b \in page.behind}]
      BY <1>9, <2>1 DEF LoseFetch
    <3> QED BY <1>0, <3>1, PageLosesQuietly
  <2>2. ASSUME k \notin Quiet(rows) PROVE PageOK(desk, rows, page')
    BY <1>0, <1>9, <2>2, PageLosesLoudly DEF LoseFetch
  <2>3. PageOK(desk, rows, page')
    BY <2>1, <2>2
  <2> QED BY <1>0, <1>9, <2>3 DEF LoseFetch, ScreenInv
<1>10. CASE OthersMove
  <2>1. PICK after \in Moved(rows) : Elsewhere(after)
    BY <1>10 DEF OthersMove
  <2> QED BY <1>0, <2>1, DeskMoved, ElsewhereKeeps
<1>11. CASE OtherUser
  <2>1. PICK h \in Offers(rows) : Accepts(rows, h) /\ Elsewhere(After(rows, h))
    BY <1>11 DEF OtherUser
  <2>2. OfferOf(desk, rows, h)
    BY <1>0, KinToItself, DeskHandlers
  <2> QED BY <1>0, <2>1, <2>2, DeskServes, ElsewhereKeeps
<1> QED BY <1>1, <1>2, <1>3, <1>4, <1>5, <1>6, <1>7, <1>8, <1>9, <1>10, <1>11 DEF ScreenNext

(* What a handler may change beside what it refetches is not shown, and    *)
(* the cards of a cancelled requirement are not either.                    *)
LEMMA UnseenNotShown ==
  ASSUME desk \in DeskNames, NEW row \in RowsOf(desk), NEW seen \in RowsOf(desk), KinTo(desk, row, seen)
  PROVE  /\ UnseenOf(desk, row) \cap Shows(seen) = {}
         /\ \A op : Missed(op) = MissedBy(desk, op)
         /\ desk = "job" => /\ "detail" \in Shows(seen)
                            /\ seen.status = "cancelled" => "cards" \notin Shows(seen)
<1>1. CASE desk = "job"
  <2>1. Shows(seen) = JobShows(seen) /\ UnseenOf(desk, row) = {}
    BY <1>1, JobTable
  <2>2. "detail" \in JobShows(seen)
    BY DEF JobShows
  <2>3. seen.status = "cancelled" => "cards" \notin JobShows(seen)
    BY DEF JobShows, SectionsShown, When
  <2>4. \A op : Missed(op) = MissedBy(desk, op)
    BY <1>1, JobTable
  <2> QED BY <2>1, <2>2, <2>3, <2>4
<1>2. CASE desk = "board"
  BY <1>2, BoardTable DEF BoardShows
<1>3. CASE desk = "client"
  <2>1. row.about = seen.about
    BY <1>3, ClientTable DEF ClientKin
  <2> QED BY <1>3, <2>1, ClientTable DEF ClientShows, When
<1>4. CASE desk \in {"money", "people", "care", "worker"}
  BY <1>4, MoneyTable, PeopleTable, CareTable, WorkerTable
<1> QED BY <1>1, <1>2, <1>3, <1>4 DEF DeskNames

LEMMA ScreenTyped == ScreenInv => ScreenTypeOK
<1> SUFFICES ASSUME ScreenInv, desk # "none" PROVE ScreenTypeOK
  BY DEF ScreenTypeOK
<1>1. desk \in DeskNames /\ rows \in RowsOf(desk) /\ PageOK(desk, rows, page)
  BY DEF ScreenInv, RowOK
<1>2. AllQueries = DOMAIN QueriesOf(desk, rows)
  BY <1>1, SameQueries DEF AllQueries
<1>3. /\ page.ask.at \in {"none", "asked", "ok", "refused"}
      /\ page.ask.at = "none" <=> page.ask.h = NoHandler
  BY <1>1, HandlerOK DEF PageOK, AskOK
<1>4. {b.query : b \in page.behind} \subseteq AllQueries
  BY <1>1, <1>2 DEF PageOK, BehindOK
<1> QED BY <1>1, <1>2, <1>3, <1>4 DEF ScreenTypeOK, PageOK

LEMMA ScreenTells == ScreenInv => ToldOrShown
<1> SUFFICES ASSUME ScreenInv, desk # "none", page.ask.at = "none", page.due \cap Shows(page.seen) = {},
                    NEW b \in page.behind, b.query \in Shows(page.seen)
             PROVE  \/ b.query \in Missed(b.op)
                    \/ b.lost /\ (b.op \in Silent \/ b.query \in Quiet(rows))
  BY DEF ToldOrShown
<1>1. desk \in DeskNames /\ rows \in RowsOf(desk) /\ PageOK(desk, rows, page)
  BY DEF ScreenInv, RowOK
<1>2. /\ UnseenOf(desk, rows) \cap Shows(page.seen) = {}
      /\ Missed(b.op) = MissedBy(desk, b.op)
      /\ desk = "job" => /\ "detail" \in Shows(page.seen)
                         /\ page.seen.status = "cancelled" => "cards" \notin Shows(page.seen)
  BY <1>1, UnseenNotShown DEF PageOK
<1>3. BehindOK(desk, rows, page.seen, page.due, page.ask, b)
  BY <1>1 DEF PageOK
<1>4. ~Coming(page.due, page.ask, b)
  BY DEF Coming
<1>5. ~Gone(desk, rows, page.seen, page.due, page.ask, b)
  BY <1>2 DEF Gone
<1>6. Excused(desk, rows, b)
  BY <1>3, <1>4, <1>5 DEF BehindOK
<1> QED BY <1>1, <1>2, <1>6, SameQueries DEF Excused

LEMMA ScreenOffers == ScreenInv => OffersAccepted
<1> SUFFICES ASSUME ScreenInv, desk # "none", Fresh, NEW h \in Offers(page.seen)
             PROVE  LeftToServer(rows, h) \/ Accepts(rows, h)
  BY DEF OffersAccepted
<1>1. desk \in DeskNames /\ RowOK(desk, rows) /\ PageOK(desk, rows, page)
  BY DEF ScreenInv
<1>2. \A q \in DOMAIN Queries(rows) : Part(page.seen, Queries(rows)[q]) = Part(rows, Queries(rows)[q])
  BY DEF Fresh, InStep, AllQueries
<1> QED BY <1>1, <1>2, DeskOffered DEF RowOK, PageOK

-----------------------------------------------------------------------------
(* The browser's session: every order of renewals, sign-ins, sign-outs,    *)
(* lost answers and requests of pages that are gone.                       *)
USE SessionAssumption

Stages == {"idle", "login", "csrf", "refresh", "rotate", "logout",
           "loginOk", "csrfOk", "refreshOk", "logoutOk", "refused"}

Request == [at : Stages, tok : Refreshes \cup {None}, ck : Csrfs, hdr : Csrfs,
            new : Refreshes \cup {None}, newc : Csrfs]

Keys == [issued : 0..MaxRefresh, csrfs : Csrfs, live : SUBSET Refreshes,
         spent : SUBSET Refreshes, family : [Refreshes -> 0..MaxRefresh]]

Tabs == [loads : 0..MaxLoads, hydrated : BOOLEAN,
         access : {"none", "good", "stale"}, csrf : Csrfs]

Jars == [tok : Refreshes \cup {None}, csrf : Csrfs]

(* A live token was issued, and a token issued is of a family issued: the  *)
(* family that a sign-in starts is therefore new.                          *)
LiveIssued ==
  /\ keys.live \subseteq 1..keys.issued
  /\ \A t \in 1..keys.issued : keys.family[t] \in 1..keys.issued

KeysInv == keys \in Keys /\ LiveIssued

(* A request exchanges a token only after it read the row of one issued.   *)
Requests == {flow, form, out} \cup late
Read(r)  == r.at = "rotate" => r.tok \in 1..keys.issued
ReadInv  == \A r \in Requests : Read(r)

IInv == SessionTypeOK /\ KeysInv /\ ReadInv /\ SignOutHeeded

-----------------------------------------------------------------------------
(* The server's tokens.  What a request leaves of them: families are never *)
(* renamed, and a token that becomes live is of a new family or of the     *)
(* family of the token exchanged.                                          *)
Inherits(r) ==
  /\ keys'.issued >= keys.issued
  /\ \A t \in 1..keys.issued : keys'.family[t] = keys.family[t]
  /\ \A t \in keys'.live : \/ t \in keys.live
                           \/ keys'.family[t] > keys.issued
                           \/ r.at = "rotate" /\ keys'.family[t] = keys.family[r.tok]

LEMMA GrantKeeps ==
  ASSUME KeysInv, keys.issued < MaxRefresh, keys.csrfs < MaxCsrf, NEW r,
         NEW t \in Refreshes \cup {None}, NEW fam, NEW spent \in SUBSET Refreshes,
         \/ fam = keys.issued + 1
         \/ r.at = "rotate" /\ r.tok \in 1..keys.issued /\ fam = keys.family[r.tok],
         keys' = Grant(t, fam, spent)
  PROVE  KeysInv' /\ Inherits(r)
<1> DEFINE new == keys.issued + 1
<1>1. new \in Refreshes /\ fam \in 1..new /\ keys.issued \in Nat /\ new \in Nat
  BY DEF KeysInv, Keys, LiveIssued, Refreshes
<1>2. /\ keys'.issued = new /\ keys'.csrfs = keys.csrfs + 1
      /\ keys'.live = (keys.live \ {t}) \cup {new}
      /\ keys'.spent = keys.spent \cup spent
      /\ keys'.family = [keys.family EXCEPT ![new] = fam]
      /\ keys' = [issued |-> keys'.issued, csrfs |-> keys'.csrfs, live |-> keys'.live,
                  spent |-> keys'.spent, family |-> keys'.family]
  BY DEF KeysInv, Keys, Grant
<1>3. keys' \in Keys
  BY <1>1, <1>2 DEF KeysInv, Keys, Csrfs, Refreshes
<1>4. \A u \in 1..keys.issued : u # new /\ u \in Refreshes /\ keys'.family[u] = keys.family[u]
  BY <1>1, <1>2 DEF KeysInv, Keys, Refreshes
<1>5. keys'.family[new] = fam
  BY <1>1, <1>2 DEF KeysInv, Keys
<1>6. LiveIssued'
  BY <1>1, <1>2, <1>4, <1>5 DEF KeysInv, LiveIssued
<1>7. Inherits(r)
  BY <1>1, <1>2, <1>4, <1>5 DEF Inherits
<1> QED BY <1>3, <1>6, <1>7 DEF KeysInv

(* Taking tokens out of use, or leaving them, disturbs nothing.            *)
LEMMA RevokeKeeps ==
  ASSUME KeysInv, NEW r, NEW live \in SUBSET keys.live,
         \/ keys' = keys
         \/ keys' = [keys EXCEPT !.live = live]
         \/ keys' = [keys EXCEPT !.csrfs = @ + 1] /\ keys.csrfs < MaxCsrf
  PROVE  KeysInv' /\ Inherits(r)
<1>1. keys' \in Keys
  BY DEF KeysInv, Keys, Csrfs
<1>2. /\ keys'.live \subseteq keys.live /\ keys'.family = keys.family
      /\ keys'.issued = keys.issued /\ keys.issued \in Nat
  BY DEF KeysInv, Keys
<1>3. LiveIssued' /\ Inherits(r)
  BY <1>2 DEF KeysInv, LiveIssued, Inherits
<1> QED BY <1>1, <1>3 DEF KeysInv

(* Whatever a request does at the server.                                  *)
LEMMA OutcomeKeeps ==
  ASSUME KeysInv, NEW r \in Request, Read(r), NEW at, Outcome(r, at)
  PROVE  KeysInv' /\ Inherits(r) /\ at \in Stages /\ (at = "rotate" => r.tok \in keys.live)
<1> USE DEF OkOf, Stages
<1>1. CASE ServeLogin(r) /\ at = OkOf[r.at]
  <2>1. KeysInv' /\ Inherits(r)
    BY <1>1, GrantKeeps DEF ServeLogin, None
  <2> QED BY <1>1, <2>1 DEF ServeLogin
<1>2. CASE ServeCsrf(r) /\ at = OkOf[r.at]
  <2>1. KeysInv' /\ Inherits(r)
    BY <1>2, RevokeKeeps DEF ServeCsrf
  <2> QED BY <1>2, <2>1 DEF ServeCsrf
<1>3. CASE ReadRefresh(r) /\ at = OkOf[r.at]
  BY <1>3, RevokeKeeps DEF ReadRefresh, Valid
<1>4. CASE ServeRotate(r) /\ at = OkOf[r.at]
  <2>1. {r.tok} \in SUBSET Refreshes /\ r.tok \in Refreshes /\ r.tok \in 1..keys.issued
    BY <1>4 DEF ServeRotate, KeysInv, Keys, Read, Refreshes
  <2>2. KeysInv' /\ Inherits(r)
    BY <1>4, <2>1, GrantKeeps DEF ServeRotate, Rotate
  <2> QED BY <1>4, <2>2 DEF ServeRotate
<1>5. CASE ServeLogout(r) /\ at = OkOf[r.at]
  <2>1. KeysInv' /\ Inherits(r)
    BY <1>5, RevokeKeeps DEF ServeLogout
  <2> QED BY <1>5, <2>1 DEF ServeLogout
<1>6. CASE DetectReplay(r) /\ at = "refused"
  BY <1>6, RevokeKeeps DEF DetectReplay, Replay
<1>7. CASE Refuse /\ at = "refused"
  BY <1>7, RevokeKeeps DEF Refuse
<1> QED BY <1>1, <1>2, <1>3, <1>4, <1>5, <1>6, <1>7 DEF Outcome

-----------------------------------------------------------------------------
(* Types.                                                                  *)
LEMMA TypedIs ==
  SessionTypeOK <=>
    /\ tab \in Tabs /\ jar \in Jars /\ keys \in Keys
    /\ flow \in Request /\ form \in Request /\ out \in Request /\ late \in SUBSET Request
BY DEF SessionTypeOK, Tabs, Jars, Request, Stages, Keys

LEMMA TypedThen ==
  /\ tab' \in Tabs /\ jar' \in Jars /\ keys' \in Keys
  /\ flow' \in Request /\ form' \in Request /\ out' \in Request /\ late' \in SUBSET Request
  => SessionTypeOK'
BY DEF SessionTypeOK, Tabs, Jars, Request, Stages, Keys

LEMMA Small == 0 \in Csrfs /\ None \in Refreshes \cup {None} /\ NoReq \in Request /\ NoReq.at = "idle"
BY DEF Csrfs, None, NoReq, Request, Stages

LEMMA SendTyped ==
  ASSUME NEW at \in Stages, NEW j \in Jars, NEW hdr \in Csrfs
  PROVE  Send(at, j, hdr) \in Request /\ Send(at, j, hdr).at = at
BY Small DEF Send, NoReq, Request, Jars

(* An answer may name tokens of other requests, all of them issued.        *)
LEMMA ServeTyped ==
  ASSUME KeysInv', NEW r \in Request, NEW at \in Stages
  PROVE  Answered(r, at) \in Request /\ Answered(r, at).at = at /\ Answered(r, at).tok = r.tok
<1>1. keys'.issued \in Refreshes \cup {None} /\ keys'.csrfs \in Csrfs
  BY DEF KeysInv, Keys, Refreshes, None, Csrfs
<1> QED BY <1>1 DEF Answered, Request

LEMMA InitIInv == SessionInit => IInv
<1> SUFFICES ASSUME SessionInit PROVE IInv
  OBVIOUS
<1>1. keys \in Keys /\ keys.live = {} /\ keys.issued = 0
  BY DEF SessionInit, Keys, Csrfs, None
<1>2. tab \in Tabs /\ ~Workspace
  BY DEF SessionInit, Closed, Csrfs, None, Workspace, Tabs
<1>3. jar \in Jars
  BY DEF SessionInit, EmptyJar, Csrfs, None, Jars
<1>4. SessionTypeOK
  BY <1>1, <1>2, <1>3, Small, TypedIs DEF SessionInit
<1>5. ReadInv
  BY Small DEF SessionInit, ReadInv, Requests, Read
<1> QED BY <1>1, <1>2, <1>4, <1>5 DEF IInv, KeysInv, LiveIssued, SignOutHeeded

(* What the browser does alone leaves the server's tokens alone, and sends *)
(* no request that has read its token already.                             *)
LEMMA BrowserStep ==
  ASSUME IInv,
         \/ Load \/ Renew \/ AccessExpires \/ SubmitLogin \/ HandleLogout \/ CsrfArrives
         \/ SessionArrives \/ RenewalFails \/ LoginFails \/ LogoutEnds
  PROVE  IInv' /\ keys' = keys /\ \A r \in Requests' : r \in Requests \/ r.at # "rotate"
<1> USE DEF None
<1>0. keys' = keys
  BY DEF Load, Renew, AccessExpires, SubmitLogin, HandleLogout, CsrfArrives,
         SessionArrives, RenewalFails, LoginFails, LogoutEnds
<1>1. KeysInv' /\ keys' \in Keys
  BY <1>0 DEF IInv, KeysInv, LiveIssued
<1>2. /\ tab \in Tabs /\ jar \in Jars
      /\ flow \in Request /\ form \in Request /\ out \in Request /\ late \in SUBSET Request
  BY TypedIs DEF IInv
<1> SUFFICES /\ tab' \in Tabs /\ jar' \in Jars
             /\ flow' \in Request /\ form' \in Request /\ out' \in Request /\ late' \in SUBSET Request
             /\ SignOutHeeded'
             /\ \A r \in Requests' : r \in Requests \/ r.at # "rotate"
  <2>1. SessionTypeOK'
    BY <1>1, TypedThen
  <2>2. ReadInv'
    BY <1>0 DEF IInv, ReadInv, Read
  <2> QED BY <1>0, <1>1, <2>1, <2>2 DEF IInv
<1>3. CASE Load
  <2>1. tab' \in Tabs /\ ~tab'.hydrated
    <3>1. tab.loads + 1 \in 0..MaxLoads
      BY <1>2, <1>3 DEF Load, Tabs
    <3>2. tab' = [loads |-> tab.loads + 1, hydrated |-> FALSE, access |-> "none", csrf |-> None]
      BY <1>3 DEF Load, Closed
    <3> QED BY <3>1, <3>2, Small DEF Tabs
  <2>2. /\ flow' \in Request /\ form' = NoReq /\ out' = NoReq
        /\ flow'.at = "csrf"
    BY <1>2, <1>3, Small, SendTyped DEF Load, Stages
  <2>3. late' \subseteq late \cup {flow, form, out}
    BY <1>3 DEF Load, Unserved
  <2> QED BY <1>2, <1>3, <2>1, <2>2, <2>3, Small DEF Load, SignOutHeeded, Workspace, Requests
<1>4. CASE Renew
  <2>1. flow' \in Request /\ flow'.at = "csrf" /\ flow.at = "idle"
    BY <1>2, <1>4, Small, SendTyped DEF Renew, Stages
  <2> QED BY <1>2, <1>4, <2>1 DEF IInv, Renew, SignOutHeeded, Workspace, Requests
<1>5. CASE AccessExpires
  <2>1. tab' \in Tabs /\ tab'.csrf = tab.csrf /\ tab'.hydrated = tab.hydrated
    BY <1>2, <1>5 DEF AccessExpires, Tabs
  <2> QED BY <1>2, <1>5, <2>1 DEF IInv, AccessExpires, SignOutHeeded, Workspace, Requests
<1>6. CASE HandleLogout \/ SubmitLogin
  <2>0. tab.csrf \in Csrfs
    BY <1>2 DEF Tabs
  <2>1. /\ form' \in Request /\ out' \in Request /\ UNCHANGED <<tab, jar, flow, late>>
        /\ form' = form \/ form'.at = "login"
        /\ out' = out \/ out'.at = "logout"
    BY <1>2, <1>6, <2>0, Small, SendTyped DEF HandleLogout, SubmitLogin, Stages
  <2> QED BY <1>2, <2>1 DEF IInv, SignOutHeeded, Workspace, Requests
<1>7. CASE CsrfArrives
  <2>1. jar' \in Jars /\ flow.newc \in Csrfs
    BY <1>2, <1>7 DEF CsrfArrives, Request, Jars
  <2>2. flow' \in Request /\ flow'.at = "refresh"
    BY <1>7, <2>1, SendTyped DEF CsrfArrives, Stages
  <2> QED BY <1>2, <1>7, <2>1, <2>2 DEF CsrfArrives, SignOutHeeded, Requests
<1>8. ASSUME NEW r \in {flow, form}, Opens(r),
             UNCHANGED <<out, late, keys>>, flow' \in {flow, NoReq}, form' \in {form, NoReq}
      PROVE  /\ tab' \in Tabs /\ jar' \in Jars
             /\ flow' \in Request /\ form' \in Request /\ out' \in Request /\ late' \in SUBSET Request
             /\ SignOutHeeded'
             /\ \A q \in Requests' : q \in Requests \/ q.at # "rotate"
  <2>1. r \in Request
    BY <1>2
  <2>2. jar' \in Jars /\ r.newc \in Csrfs
    BY <1>8, <2>1 DEF Opens, Request, Jars
  <2>3. tab' \in Tabs /\ tab'.csrf = jar'.csrf
    BY <1>2, <1>8, <2>2 DEF Opens, SetAuth, Tabs
  <2>4. SignOutHeeded'
    BY <2>3 DEF SignOutHeeded
  <2>5. \A q \in Requests' : q \in Requests \/ q.at # "rotate"
    BY <1>8, Small DEF Requests
  <2> QED BY <1>2, <1>8, <2>2, <2>3, <2>4, <2>5, Small
<1>9. CASE SessionArrives
  BY <1>8, <1>9 DEF SessionArrives
<1>10. CASE RenewalFails \/ LogoutEnds
  <2>1. tab' \in Tabs /\ tab'.access = "none"
    BY <1>2, <1>10, Small DEF RenewalFails, LogoutEnds, ClearAuth, Tabs
  <2>2. jar' \in Jars
    BY <1>2, <1>10, Small DEF RenewalFails, LogoutEnds, EmptyJar, Jars
  <2>3. flow' \in {flow, NoReq} /\ out' \in {out, NoReq} /\ UNCHANGED <<form, late>>
    BY <1>10 DEF RenewalFails, LogoutEnds
  <2> QED BY <1>2, <2>1, <2>2, <2>3, Small DEF SignOutHeeded, Workspace, Requests
<1>11. CASE LoginFails
  <2>1. form' = NoReq /\ UNCHANGED <<tab, jar, flow, out, late>>
    BY <1>11 DEF LoginFails
  <2> QED BY <1>2, <2>1, Small DEF IInv, SignOutHeeded, Workspace, Requests
<1> QED BY <1>3, <1>4, <1>5, <1>6, <1>7, <1>9, <1>10, <1>11

(* A request reaches the server, of this page or of one that is gone.      *)
Reaches(r) ==
  /\ r \in Requests /\ KeysInv' /\ Inherits(r)
  /\ \A q \in Requests' : \/ q \in Requests
                          \/ q.at = "rotate" => q.tok = r.tok /\ r.tok \in keys.live

LEMMA ServerStep ==
  ASSUME IInv, Serve \/ ServeLate
  PROVE  IInv' /\ \E r \in Requests : Reaches(r)
<1>1. /\ tab \in Tabs /\ jar \in Jars
      /\ flow \in Request /\ form \in Request /\ out \in Request /\ late \in SUBSET Request
  BY TypedIs DEF IInv
<1>2. ASSUME NEW r \in Requests, NEW at, Outcome(r, at)
      PROVE  /\ KeysInv' /\ Inherits(r) /\ Answered(r, at) \in Request
             /\ Answered(r, at).at = at /\ Answered(r, at).tok = r.tok
             /\ at = "rotate" => r.tok \in keys.live
  <2>1. r \in Request /\ Read(r)
    BY <1>1 DEF IInv, ReadInv, Requests
  <2>2. KeysInv' /\ Inherits(r) /\ at \in Stages /\ (at = "rotate" => r.tok \in keys.live)
    BY <1>2, <2>1, OutcomeKeeps DEF IInv
  <2> QED BY <2>1, <2>2, ServeTyped
<1>3. /\ flow' \in Request /\ form' \in Request /\ out' \in Request /\ late' \in SUBSET Request
      /\ UNCHANGED <<tab, jar>> /\ SignOutHeeded'
      /\ \E r \in Requests : Reaches(r)
  <2>1. CASE /\ flow \in Unserved
             /\ \E at \in {OkOf[flow.at], "refused"} : Outcome(flow, at) /\ flow' = Answered(flow, at)
             /\ UNCHANGED <<tab, jar, form, out, late>>
    <3>1. PICK at \in {OkOf[flow.at], "refused"} : Outcome(flow, at) /\ flow' = Answered(flow, at)
      BY <2>1
    <3>2. flow \in Requests /\ flow.at \in {"login", "csrf", "refresh", "rotate", "logout"}
      BY <2>1 DEF Requests, Unserved
    <3>3. /\ KeysInv' /\ Inherits(flow) /\ flow' \in Request /\ flow'.at = at /\ flow'.tok = flow.tok
          /\ at = "rotate" => flow.tok \in keys.live
      BY <1>2, <3>1, <3>2
    <3>4. Reaches(flow)
      BY <2>1, <3>2, <3>3 DEF Reaches, Requests
    <3>5. flow'.at \in {"idle", "csrf", "csrfOk"} => flow.at = "csrf"
      BY <3>1, <3>2, <3>3 DEF OkOf
    <3> QED BY <1>1, <2>1, <3>2, <3>3, <3>4, <3>5 DEF IInv, SignOutHeeded, Workspace
  <2>2. CASE /\ form \in Unserved
             /\ \E at \in {OkOf[form.at], "refused"} : Outcome(form, at) /\ form' = Answered(form, at)
             /\ UNCHANGED <<tab, jar, flow, out, late>>
    <3>1. PICK at \in {OkOf[form.at], "refused"} : Outcome(form, at) /\ form' = Answered(form, at)
      BY <2>2
    <3>2. form \in Requests
      BY DEF Requests
    <3>3. /\ KeysInv' /\ Inherits(form) /\ form' \in Request /\ form'.at = at /\ form'.tok = form.tok
          /\ at = "rotate" => form.tok \in keys.live
      BY <1>2, <3>1, <3>2
    <3>4. Reaches(form)
      BY <2>2, <3>2, <3>3 DEF Reaches, Requests
    <3> QED BY <1>1, <2>2, <3>2, <3>3, <3>4 DEF IInv, SignOutHeeded, Workspace
  <2>3. CASE /\ out \in Unserved
             /\ \E at \in {OkOf[out.at], "refused"} : Outcome(out, at) /\ out' = Answered(out, at)
             /\ UNCHANGED <<tab, jar, flow, form, late>>
    <3>1. PICK at \in {OkOf[out.at], "refused"} : Outcome(out, at) /\ out' = Answered(out, at)
      BY <2>3
    <3>2. out \in Requests
      BY DEF Requests
    <3>3. /\ KeysInv' /\ Inherits(out) /\ out' \in Request /\ out'.at = at /\ out'.tok = out.tok
          /\ at = "rotate" => out.tok \in keys.live
      BY <1>2, <3>1, <3>2
    <3>4. Reaches(out)
      BY <2>3, <3>2, <3>3 DEF Reaches, Requests
    <3> QED BY <1>1, <2>3, <3>2, <3>3, <3>4 DEF IInv, SignOutHeeded, Workspace
  <2>4. CASE ServeLate
    <3>1. PICK r \in late : \E at \in {OkOf[r.at], "refused"} :
            Outcome(r, at) /\ late' = {q \in {Answered(r, at)} : q.at = "rotate"}
      BY <2>4 DEF ServeLate
    <3>2. PICK at \in {OkOf[r.at], "refused"} :
            Outcome(r, at) /\ late' = {q \in {Answered(r, at)} : q.at = "rotate"}
      BY <3>1
    <3>3. r \in Requests /\ UNCHANGED <<tab, jar, flow, form, out>>
      BY <2>4 DEF Requests, ServeLate
    <3>4. /\ KeysInv' /\ Inherits(r) /\ Answered(r, at) \in Request
          /\ Answered(r, at).at = at /\ Answered(r, at).tok = r.tok
          /\ at = "rotate" => r.tok \in keys.live
      BY <1>2, <3>2, <3>3
    <3>5. Reaches(r)
      BY <3>2, <3>3, <3>4 DEF Reaches, Requests
    <3> QED BY <1>1, <3>2, <3>3, <3>4, <3>5 DEF IInv, SignOutHeeded, Workspace
  <2> QED BY <2>1, <2>2, <2>3, <2>4 DEF Serve
<1>4. KeysInv' /\ keys' \in Keys
  BY <1>3 DEF Reaches, KeysInv
<1>5. SessionTypeOK'
  BY <1>1, <1>3, <1>4, TypedThen
<1>6. ReadInv'
  <2>1. PICK r \in Requests : Reaches(r)
    BY <1>3
  <2>2. keys.issued \in Nat /\ keys'.issued \in Nat /\ keys'.issued >= keys.issued
    BY <1>4, <2>1 DEF IInv, KeysInv, Keys, Reaches, Inherits
  <2>3. ASSUME NEW q \in Requests', q.at = "rotate" PROVE q.tok \in 1..keys'.issued
    <3>1. q.tok \in 1..keys.issued
      BY <2>1, <2>3 DEF IInv, KeysInv, LiveIssued, ReadInv, Read, Reaches
    <3> QED BY <2>2, <3>1
  <2> QED BY <2>3 DEF ReadInv, Read
<1> QED BY <1>3, <1>4, <1>5, <1>6 DEF IInv

LEMMA NextIInv == IInv /\ [SessionNext]_browser => IInv'
<1> SUFFICES ASSUME IInv, [SessionNext]_browser PROVE IInv'
  OBVIOUS
<1>1. CASE SessionNext
  BY <1>1, BrowserStep, ServerStep DEF SessionNext, FlowMoves
<1>2. CASE UNCHANGED browser
  BY <1>2 DEF browser, IInv, SessionTypeOK, KeysInv, LiveIssued, ReadInv, Requests, Read,
              SignOutHeeded, Workspace, Unserved
<1> QED BY <1>1, <1>2

LEMMA Invariance == SessionSpec => []IInv
<1> QED BY InitIInv, NextIInv, PTL DEF SessionSpec

(* A family that has ended gains no live token: a token becomes live in a  *)
(* new family, or in that of a token being exchanged.                      *)
LEMMA EndedStep ==
  ASSUME IInv, SessionNext, NEW f \in 1..keys.issued, Ended(f)
  PROVE  Ended(f)'
<1>0. /\ \A t \in keys.live : t \in 1..keys.issued /\ keys.family[t] # f
      /\ \A r \in Requests : r.at = "rotate" => r.tok \in 1..keys.issued /\ keys.family[r.tok] # f
      /\ keys.issued \in Nat
  BY DEF IInv, KeysInv, Keys, LiveIssued, ReadInv, Requests, Read, Ended, Over, Racing
<1>1. CASE Serve \/ ServeLate
  <2>1. PICK r \in Requests : Reaches(r)
    BY <1>1, ServerStep
  <2>2. ASSUME NEW t \in keys'.live PROVE keys'.family[t] # f
    BY <1>0, <2>1 DEF Reaches, Inherits
  <2>3. ASSUME NEW q \in Requests', q.at = "rotate" PROVE keys'.family[q.tok] # f
    BY <1>0, <2>1, <2>3 DEF Reaches, Inherits
  <2> QED BY <2>2, <2>3 DEF Ended, Over, Racing, Requests
<1>2. CASE ~(Serve \/ ServeLate)
  <2>1. keys' = keys /\ \A r \in Requests' : r \in Requests \/ r.at # "rotate"
    BY <1>2, BrowserStep DEF SessionNext, FlowMoves
  <2> QED BY <1>0, <2>1 DEF Ended, Over, Racing, Requests
<1> QED BY <1>1, <1>2

LEMMA EndedKept ==
  IInv /\ [SessionNext]_browser => [\A f \in 1..keys.issued : Ended(f) => Ended(f)']_browser
BY EndedStep

-----------------------------------------------------------------------------
(* Type correctness of the page, the cookies, the requests under way and   *)
(* the server's tokens.                                                    *)
THEOREM TypeCorrect == SessionSpec => []SessionTypeOK
<1>1. IInv => SessionTypeOK
  BY DEF IInv
<1> QED BY <1>1, Invariance, PTL

(* A session whose refresh tokens are all spent, signed out or revoked,    *)
(* and that no request is just renewing, gets no live token again, in      *)
(* whatever order renewals, replays, sign-outs and abandoned requests      *)
(* reach the server.                                                       *)
THEOREM EndedSessionsStayEnded == SessionSpec => EndedStaysEnded
<1> QED BY Invariance, EndedKept, PTL DEF SessionSpec, EndedStaysEnded

(* The workspace's CSRF token is the cookie's, whatever was renewed,       *)
(* reloaded or lost, except from the first answer of a renewal until the   *)
(* page has heard of its end.  In between a sign-out is refused.           *)
THEOREM SignOutIsHeeded == SessionSpec => []SignOutHeeded
<1>1. IInv => SignOutHeeded
  BY DEF IInv
<1> QED BY <1>1, Invariance, PTL

-----------------------------------------------------------------------------
(* The browser's session and the screens together, as they are run.        *)
MCInv == ScreenInv /\ IInv

LEMMA MCStarts == Init => MCInv
<1>1. NoPage => ScreenInv
  BY DEF NoPage, ScreenInv
<1> QED BY <1>1, ScreenStarts, InitIInv DEF Init, MCInv

LEMMA MCSteps == MCInv /\ [Next]_<<screen, browser>> => MCInv'
<1> SUFFICES ASSUME MCInv, [Next]_<<screen, browser>> PROVE MCInv'
  OBVIOUS
<1>1. CASE SessionNext /\ UNCHANGED screen
  <2>1. ScreenInv'
    BY <1>1 DEF MCInv, ScreenInv, screen
  <2> QED BY <1>1, <2>1, NextIInv DEF MCInv
<1>2. CASE ScreenNext /\ UNCHANGED browser
  BY <1>2, ScreenSteps, NextIInv DEF MCInv
<1>3. CASE UNCHANGED <<screen, browser>>
  <2>1. ScreenInv'
    BY <1>3 DEF MCInv, ScreenInv, screen
  <2> QED BY <1>3, <2>1, NextIInv DEF MCInv
<1> QED BY <1>1, <1>2, <1>3 DEF Next

LEMMA MCInvariance == Spec => []MCInv
<1> QED BY MCStarts, MCSteps, PTL DEF Spec

(* Type correctness of the browser's session and of a screen at work: what *)
(* a page holds is always a copy of the kind of row it was opened on, and  *)
(* a request under way is a handler's.                                     *)
THEOREM ScreensTyped == Spec => []TypeOK
<1>1. MCInv => TypeOK
  BY ScreenTyped DEF MCInv, IInv, TypeOK
<1> QED BY <1>1, MCInvariance, PTL

(* Whatever others do meanwhile and whichever requests, answers and loads  *)
(* fail, on the console's pages as on the phones, once the page's request  *)
(* and its fetches are over the page shows what its own operations         *)
(* changed, or has told of a failure, but for the queries a handler is     *)
(* known to leave (Missed) and the operations and loads whose failure      *)
(* nobody is told of (Silent, Quiet).                                      *)
THEOREM PagesTellOrShow == Spec => []ToldOrShown
<1>1. MCInv => ToldOrShown
  BY ScreenTells DEF MCInv
<1> QED BY <1>1, MCInvariance, PTL

(* What a page offers while all it shows is current, the server takes,     *)
(* except what the page leaves to the server to check.                     *)
THEOREM OffersAreAccepted == Spec => []OffersAccepted
<1>1. MCInv => OffersAccepted
  BY ScreenOffers DEF MCInv
<1> QED BY <1>1, MCInvariance, PTL

LEMMA MCEndedKept ==
  MCInv /\ [Next]_<<screen, browser>> => [\A f \in 1..keys.issued : Ended(f) => Ended(f)']_browser
<1> SUFFICES ASSUME MCInv, [Next]_<<screen, browser>>
             PROVE  [\A f \in 1..keys.issued : Ended(f) => Ended(f)']_browser
  OBVIOUS
<1>1. [SessionNext]_browser
  BY DEF Next
<1> QED BY <1>1, EndedKept DEF MCInv

(* The session keeps its promises while screens come and go: what has      *)
(* ended stays ended, and the page's CSRF token is the cookie's, except    *)
(* from the first answer of a renewal until the page has heard of its end. *)
THEOREM SessionStaysSound == Spec => EndedStaysEnded /\ []SignOutHeeded
<1>1. MCInv => SignOutHeeded
  BY DEF MCInv, IInv
<1> QED BY <1>1, MCInvariance, MCEndedKept, PTL DEF Spec, EndedStaysEnded
=============================================================================
