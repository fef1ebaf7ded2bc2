------------------------------- MODULE Quotes -------------------------------
(***************************************************************************)
(* Requirements and their quotes: review, quote, decision, expiry,         *)
(* extension, completion, cancellation (api/admin_requirements.py,         *)
(* api/client_requirements.py, core/scheduler.py).  A request reads and    *)
(* takes its early returns in one step; in another it commits what it      *)
(* decided, over whatever was committed in between.                        *)
(***************************************************************************)
EXTENDS Naturals, Sequences

CONSTANTS
  Reqs,
  Sessions,
  Serves,         \* the endpoints each session runs
  Starts,         \* statuses of the requirements a behaviour may begin with
  ExtensionTerm,  \* for how many days an extension may be decided (7)
  SpansMidnight,  \* may the day turn while a decision or a job is under way?
  MaxQuotes,      \* bound on the quotes of a requirement
  MaxDay          \* bound on the days

VARIABLES
  status,         \* requirements.status
  quotes,         \* the quotes of each requirement, oldest first
  today,          \* utils/time.py, business_date()
  sess

quoteVars == <<status, quotes, today, sess>>

Transitions ==
  [submitted        |-> {"under_review", "rejected", "cancelled"},
   under_review     |-> {"quoted", "rejected", "cancelled"},
   quoted           |-> {"approved", "rejected", "under_review", "cancelled"},
   approved         |-> {"workers_assigned", "cancelled"},
   workers_assigned |-> {"in_progress", "approved", "cancelled"},
   in_progress      |-> {"completed", "cancelled"},
   completed        |-> {},
   rejected         |-> {},
   cancelled        |-> {}]

Statuses == DOMAIN Transitions
Agreed   == {"approved", "workers_assigned", "in_progress", "completed"}

ASSUME QuotesAssumption ==
  /\ Starts \subseteq [Reqs -> Agreed \cup {"submitted", "rejected"}]
  /\ ExtensionTerm \in Nat \ {0} /\ MaxQuotes \in Nat /\ MaxDay \in Nat \ {0}
  /\ SpansMidnight \in BOOLEAN

Never == 0   \* no valid_until
Quote == [kind : {"standard", "extension"}, st : {"sent", "approved", "rejected", "expired"}, until : Nat]

Signed == [kind |-> "standard", st |-> "approved", until |-> Never]

(* What a request will write: a status, a verdict on the nth quote, a new  *)
(* quote; the expiry job keeps the quotes it found stale.                  *)
Nothing == [pc |-> "idle", req |-> "none", to |-> "same", nth |-> 0, verdict |-> "none",
            offer |-> <<>>, stale |-> {}]

Init ==
  /\ status \in Starts
  /\ quotes = [q \in Reqs |-> IF status[q] \in Agreed THEN <<Signed>> ELSE <<>>]
  /\ today = 1
  /\ sess = [s \in Sessions |-> Nothing]

-----------------------------------------------------------------------------
Serving(s, endpoint) == sess[s].pc = "idle" /\ endpoint \in Serves[s]

Prepare(s, plan) ==
  /\ sess' = [sess EXCEPT ![s] = plan]
  /\ UNCHANGED <<status, quotes, today>>

Plan(q, to) == [Nothing EXCEPT !.pc = "commit", !.req = q, !.to = to]

CanMove(q, to) == to \in Transitions[status[q]]

(* get_quote_by_requirement_id: the latest quote, whatever its kind.       *)
Latest(q)     == Len(quotes[q])
LatestQuote(q) == quotes[q][Latest(q)]
LatestIs(q, states) == Latest(q) > 0 /\ LatestQuote(q).st \in states

Past(quote) == quote.until # Never /\ today > quote.until

(* The admin's endpoints.                                                  *)
MarkReview(s, q) ==
  /\ Serving(s, "review") /\ CanMove(q, "under_review")
  /\ Prepare(s, Plan(q, "under_review"))

RejectRequirement(s, q) ==
  /\ Serving(s, "reject") /\ CanMove(q, "rejected")
  /\ Prepare(s, Plan(q, "rejected"))

CancelRequirement(s, q) ==
  /\ Serving(s, "cancel") /\ CanMove(q, "cancelled")
  /\ Prepare(s, Plan(q, "cancelled"))

CompleteRequirement(s, q) ==
  /\ Serving(s, "complete") /\ CanMove(q, "completed")
  /\ Prepare(s, Plan(q, "completed"))

Offer(kind, until) == <<[kind |-> kind, st |-> "sent", until |-> until]>>

(* Seeded fault: a quote may follow one that still awaits its decision.    *)
SendAnotherQuote(s, q, until) ==
  /\ Serving(s, "quote") /\ CanMove(q, "quoted") /\ Latest(q) < MaxQuotes
  /\ Prepare(s, [Plan(q, "quoted") EXCEPT !.offer = Offer("standard", until)])

SendQuote(s, q, until) ==
  /\ Serving(s, "quote") /\ CanMove(q, "quoted") /\ Latest(q) < MaxQuotes
  /\ Latest(q) = 0 \/ LatestIs(q, {"rejected", "expired"})
  /\ Prepare(s, [Plan(q, "quoted") EXCEPT !.offer = Offer("standard", until)])

RequestExtension(s, q) ==
  /\ Serving(s, "extend") /\ Latest(q) < MaxQuotes
  /\ status[q] \in {"workers_assigned", "in_progress"}
  /\ \A n \in DOMAIN quotes[q] : quotes[q][n].kind = "extension" => quotes[q][n].st # "sent"
  /\ Prepare(s, [Plan(q, "same") EXCEPT !.offer = Offer("extension", today + ExtensionTerm)])

-----------------------------------------------------------------------------
(* The client's endpoints.                                                 *)
WithdrawRequirement(s, q) ==
  /\ Serving(s, "withdraw") /\ status[q] \in {"submitted", "quoted"}
  /\ Prepare(s, Plan(q, "cancelled"))

Ruling(q, to, verdict) == [Plan(q, to) EXCEPT !.nth = Latest(q), !.verdict = verdict]

(* An approval that comes too late expires the quote; a rejection may      *)
(* still come.                                                             *)
ApproveTooLate(s, q) ==
  /\ Serving(s, "decide") /\ LatestIs(q, {"sent"}) /\ Past(LatestQuote(q))
  /\ Prepare(s, Ruling(q, IF CanMove(q, "under_review") THEN "under_review" ELSE "same", "expired"))

DecideExtension(s, q, verdict) ==
  /\ Serving(s, "decide") /\ LatestIs(q, {"sent"}) /\ LatestQuote(q).kind = "extension"
  /\ verdict = "approved" => ~Past(LatestQuote(q))
  /\ Prepare(s, Ruling(q, "same", verdict))

ApproveQuote(s, q) ==
  /\ Serving(s, "decide") /\ LatestIs(q, {"sent"}) /\ LatestQuote(q).kind = "standard"
  /\ ~Past(LatestQuote(q)) /\ CanMove(q, "approved")
  /\ Prepare(s, Ruling(q, "approved", "approved"))

RejectQuote(s, q) ==
  /\ Serving(s, "decide") /\ LatestIs(q, {"sent"}) /\ LatestQuote(q).kind = "standard"
  /\ CanMove(q, "under_review")
  /\ Prepare(s, Ruling(q, "under_review", "rejected"))

Commit(s) ==
  LET w == sess[s] IN
  /\ w.pc = "commit"
  /\ status' = IF w.to = "same" THEN status ELSE [status EXCEPT ![w.req] = w.to]
  /\ quotes' = [quotes EXCEPT ![w.req] =
                  [n \in DOMAIN @ |-> IF n = w.nth THEN [@[n] EXCEPT !.st = w.verdict] ELSE @[n]]
                  \o w.offer]
  /\ sess' = [sess EXCEPT ![s] = Nothing]
  /\ UNCHANGED today

Abort(s) ==
  /\ sess[s].pc # "idle"
  /\ Prepare(s, Nothing)

-----------------------------------------------------------------------------
(* Seeded fault: the last day counts as past.                              *)
OpenOnLastDay == {p \in UNION {{q} \X DOMAIN quotes[q] : q \in Reqs} :
                    LET quote == quotes[p[1]][p[2]] IN
                    quote.st = "sent" /\ quote.until # Never /\ today >= quote.until}

OpenPast == {p \in UNION {{q} \X DOMAIN quotes[q] : q \in Reqs} :
               quotes[p[1]][p[2]].st = "sent" /\ Past(quotes[p[1]][p[2]])}

(* The job: all stale quotes are read at first; then, for one after the    *)
(* other, the requirement is read and both rows are written, which keeps   *)
(* others from writing them until the commit.  Between, it sends pushes.   *)
FindStale(s) ==
  /\ Serving(s, "expire") /\ OpenPast # {}
  /\ Prepare(s, [Nothing EXCEPT !.pc = "expire", !.stale = OpenPast])

ExpireStale(s) ==
  LET stale == sess[s].stale IN
  /\ sess[s].pc = "expire"
  /\ status' = [q \in Reqs |-> IF (\E n \in DOMAIN quotes[q] : <<q, n>> \in stale) /\ CanMove(q, "under_review")
                               THEN "under_review" ELSE status[q]]
  /\ quotes' = [q \in Reqs |-> [n \in DOMAIN quotes[q] |->
                  IF <<q, n>> \in stale THEN [quotes[q][n] EXCEPT !.st = "expired"] ELSE quotes[q][n]]]
  /\ sess' = [sess EXCEPT ![s] = Nothing]
  /\ UNCHANGED today

-----------------------------------------------------------------------------
(* Workers are assigned, decline, check in (Staffing).                     *)
StaffingMoves(q) ==
  /\ \E m \in {<<"approved", "workers_assigned">>, <<"workers_assigned", "approved">>,
               <<"workers_assigned", "in_progress">>} :
       status[q] = m[1] /\ status' = [status EXCEPT ![q] = m[2]]
  /\ UNCHANGED <<quotes, today, sess>>

NextDay ==
  /\ today < MaxDay
  /\ SpansMidnight \/ \A s \in Sessions : sess[s].pc = "idle"
  /\ today' = today + 1
  /\ UNCHANGED <<status, quotes, sess>>

Next ==
  \/ \E s \in Sessions :
       \/ \E q \in Reqs :
            \/ MarkReview(s, q) \/ RejectRequirement(s, q) \/ CancelRequirement(s, q)
            \/ CompleteRequirement(s, q) \/ RequestExtension(s, q)
            \/ \E until \in 0..MaxDay : SendQuote(s, q, until)
            \/ WithdrawRequirement(s, q) \/ ApproveTooLate(s, q)
            \/ \E verdict \in {"approved", "rejected"} : DecideExtension(s, q, verdict)
            \/ ApproveQuote(s, q) \/ RejectQuote(s, q)
       \/ FindStale(s) \/ ExpireStale(s) \/ Commit(s) \/ Abort(s)
  \/ \E q \in Reqs : StaffingMoves(q)
  \/ NextDay

Spec == Init /\ [][Next]_quoteVars

-----------------------------------------------------------------------------
TypeOK ==
  /\ status \in [Reqs -> Statuses]
  /\ quotes \in [Reqs -> Seq(Quote)]
  /\ today \in 1..MaxDay
  /\ DOMAIN sess = Sessions
  /\ \A s \in Sessions : sess[s].pc \in {"idle", "commit", "expire"} /\ sess[s].offer \in Seq(Quote)

(* An approval is final: neither the expiry job, nor an approval that      *)
(* comes too late, nor a rejection, all of which decide on what they read  *)
(* before, undoes one (client_requirements.py:386, scheduler.py:68-73).    *)
ApprovedStands ==
  [][\A q \in Reqs : \A n \in DOMAIN quotes[q] :
       quotes[q][n].st = "approved" => quotes'[q][n].st = "approved"]_quoteVars

(* Work that is approved, staffed, under way or done rests on exactly one  *)
(* approved standard quote, with no other left for the client to decide    *)
(* (admin_requirements.py:234-246, client_requirements.py:468-485).        *)
WorkIsAgreed ==
  \A q \in Reqs : status[q] \in Agreed =>
    /\ \E n \in DOMAIN quotes[q] : quotes[q][n].kind = "standard" /\ quotes[q][n].st = "approved"
    /\ \A n, m \in DOMAIN quotes[q] :
         (/\ quotes[q][n].kind = "standard" /\ quotes[q][n].st \in {"approved", "sent"}
          /\ quotes[q][m].kind = "standard" /\ quotes[q][m].st \in {"approved", "sent"}) => n = m
=============================================================================
