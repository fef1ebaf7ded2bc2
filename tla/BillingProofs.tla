---------------------------- MODULE BillingProofs ----------------------------
(***************************************************************************)
(* Quotes: an approved quote stays approved, and work rests on exactly one *)
(* approved quote.  Invoices: only completed work is billed, and the       *)
(* numbers of a financial year have no gap and no repeat.                  *)
(***************************************************************************)
EXTENDS Invoices, SequenceTheorems, TLAPS

Requests == [pc : {"idle", "commit", "expire"}, req : Reqs \cup {"none"}, to : Statuses \cup {"same"}, nth : Nat,
             verdict : {"none", "approved", "rejected", "expired"}, offer : Seq(Quote),
             stale : SUBSET (Reqs \X Nat)]

WellFormed(w) ==
  /\ w \in Requests
  /\ w.pc = "commit" => w.req \in Reqs /\ (w.nth # 0 => w.verdict # "none")

TablesOK ==
  /\ status \in [Reqs -> Statuses]
  /\ quotes \in [Reqs -> Seq(Quote)]
  /\ today \in 1..MaxDay

SessionsOK == DOMAIN sess = Sessions /\ \A s \in Sessions : WellFormed(sess[s])

IInv == TablesOK /\ SessionsOK

(* A verdict under way is the client's, on a quote nobody approved, and an *)
(* approval is in time; what the job is about to expire is past.           *)
RulingFits(client, s, w) ==
  w.pc = "commit" /\ w.nth # 0 =>
    /\ s = client
    /\ w.nth \in DOMAIN quotes[w.req]
    /\ quotes[w.req][w.nth].st # "approved"
    /\ w.verdict = "approved" => ~Past(quotes[w.req][w.nth])

StaleFits(w) ==
  w.pc = "expire" =>
    \A q \in Reqs, n \in Nat : <<q, n>> \in w.stale =>
      /\ n \in DOMAIN quotes[q]
      /\ quotes[q][n].st # "approved"
      /\ Past(quotes[q][n])

DecidedInv(client) == \A s \in Sessions : RulingFits(client, s, sess[s]) /\ StaleFits(sess[s])

-----------------------------------------------------------------------------
LEMMA NothingIs == Nothing \in Requests /\ Nothing.pc = "idle" /\ Nothing.nth = 0
BY DEF Nothing, Requests

LEMMA PlanIs ==
  ASSUME NEW q \in Reqs, NEW to \in Statuses \cup {"same"}
  PROVE  Plan(q, to) \in Requests /\ Plan(q, to).pc = "commit" /\ Plan(q, to).req = q /\ Plan(q, to).nth = 0
BY NothingIs DEF Plan, Requests

LEMMA OfferIs ==
  ASSUME NEW kind \in {"standard", "extension"}, NEW until \in Nat
  PROVE  Offer(kind, until) \in Seq(Quote)
BY DEF Offer, Quote

LEMMA StatusesAre ==
  Statuses = {"submitted", "under_review", "quoted", "approved", "workers_assigned",
              "in_progress", "completed", "rejected", "cancelled"}
BY DEF Statuses, Transitions

LEMMA InitIInv == Init => IInv
<1> SUFFICES ASSUME Init PROVE IInv
  OBVIOUS
<1>1. Signed \in Quote
  BY DEF Signed, Quote, Never
<1>2. quotes \in [Reqs -> Seq(Quote)]
  BY <1>1 DEF Init
<1>3. status \in [Reqs -> Statuses] /\ today \in 1..MaxDay
  BY QuotesAssumption, StatusesAre DEF Init, Agreed
<1>4. SessionsOK
  BY NothingIs DEF Init, SessionsOK, WellFormed
<1> QED BY <1>2, <1>3, <1>4 DEF IInv, TablesOK

(* Steps of a request that only read.                                      *)
LEMMA PrepareStep ==
  ASSUME IInv, NEW s \in Sessions, NEW plan, Prepare(s, plan), WellFormed(plan)
  PROVE  IInv'
BY DEF IInv, TablesOK, SessionsOK, Prepare, WellFormed, Requests

LEMMA PrepareDecided ==
  ASSUME IInv, NEW client, DecidedInv(client), NEW s \in Sessions, NEW plan, Prepare(s, plan),
         RulingFits(client, s, plan), StaleFits(plan)
  PROVE  DecidedInv(client)'
<1>1. \A t \in Sessions : sess'[t] = IF t = s THEN plan ELSE sess[t]
  BY DEF Prepare, IInv, SessionsOK
<1>2. UNCHANGED <<status, quotes, today>>
  BY DEF Prepare
<1> QED BY <1>1, <1>2 DEF DecidedInv, RulingFits, StaleFits, Past

(* The plans of the endpoints.                                             *)
LEMMA RulingIs ==
  ASSUME IInv, NEW q \in Reqs, NEW to \in Statuses \cup {"same"}, NEW verdict \in {"approved", "rejected", "expired"}
  PROVE  /\ WellFormed(Ruling(q, to, verdict)) /\ Ruling(q, to, verdict).pc = "commit"
         /\ Ruling(q, to, verdict).req = q /\ Ruling(q, to, verdict).nth = Latest(q)
         /\ Ruling(q, to, verdict).verdict = verdict
<1> DEFINE p == Plan(q, to)
<1>1. Latest(q) \in Nat
  BY DEF Latest, IInv, TablesOK
<1>2. Ruling(q, to, verdict) = [p EXCEPT !.nth = Latest(q), !.verdict = verdict]
  BY DEF Ruling
<1>3. p \in Requests /\ p.pc = "commit" /\ p.req = q
  BY PlanIs
<1> HIDE DEF p
<1> QED BY <1>1, <1>2, <1>3 DEF Requests, WellFormed

LEMMA OfferedIs ==
  ASSUME NEW q \in Reqs, NEW to \in Statuses \cup {"same"}, NEW offer \in Seq(Quote)
  PROVE  LET w == [Plan(q, to) EXCEPT !.offer = offer] IN WellFormed(w) /\ w.pc = "commit" /\ w.nth = 0
<1> DEFINE p == Plan(q, to)
<1>1. p \in Requests /\ p.pc = "commit" /\ p.req = q /\ p.nth = 0
  BY PlanIs
<1> HIDE DEF p
<1>2. LET w == [p EXCEPT !.offer = offer] IN WellFormed(w) /\ w.pc = "commit" /\ w.nth = 0
  BY <1>1 DEF Requests, WellFormed
<1> QED BY <1>2 DEF p

(* What an endpoint plans: to move the requirement or to offer a quote, a  *)
(* verdict on the latest quote, which awaits one, or to expire old ones.   *)
Plain(w) == WellFormed(w) /\ w.pc = "commit" /\ w.nth = 0

Verdict(w) ==
  /\ WellFormed(w) /\ w.pc = "commit"
  /\ LatestIs(w.req, {"sent"}) /\ w.nth = Latest(w.req)
  /\ w.verdict = "approved" => ~Past(LatestQuote(w.req))

LEMMA AdminPlans ==
  ASSUME IInv, NEW s \in Sessions, NEW q \in Reqs,
         \/ MarkReview(s, q) \/ RejectRequirement(s, q) \/ CancelRequirement(s, q)
         \/ CompleteRequirement(s, q) \/ RequestExtension(s, q) \/ WithdrawRequirement(s, q)
         \/ \E until \in 0..MaxDay : SendQuote(s, q, until)
  PROVE  \E w : Prepare(s, w) /\ Plain(w)
<1> USE StatusesAre
<1>1. \A to \in Statuses \cup {"same"} : Plain(Plan(q, to))
  BY PlanIs DEF Plain, WellFormed
<1>2. CASE RequestExtension(s, q)
  <2>1. today + ExtensionTerm \in Nat
    BY QuotesAssumption DEF IInv, TablesOK
  <2>2. Plain([Plan(q, "same") EXCEPT !.offer = Offer("extension", today + ExtensionTerm)])
    BY <2>1, OfferIs, OfferedIs DEF Plain
  <2> QED BY <1>2, <2>2 DEF RequestExtension
<1>3. ASSUME NEW until \in 0..MaxDay, SendQuote(s, q, until) PROVE \E w : Prepare(s, w) /\ Plain(w)
  <2>1. until \in Nat
    BY QuotesAssumption
  <2>2. Plain([Plan(q, "quoted") EXCEPT !.offer = Offer("standard", until)])
    BY <2>1, OfferIs, OfferedIs DEF Plain
  <2> QED BY <1>3, <2>2 DEF SendQuote
<1> QED BY <1>1, <1>2, <1>3
  DEF MarkReview, RejectRequirement, CancelRequirement, CompleteRequirement, WithdrawRequirement

LEMMA ClientPlans ==
  ASSUME IInv, NEW s \in Sessions, NEW q \in Reqs,
         \/ ApproveTooLate(s, q) \/ ApproveQuote(s, q) \/ RejectQuote(s, q)
         \/ \E verdict \in {"approved", "rejected"} : DecideExtension(s, q, verdict)
  PROVE  Serving(s, "decide") /\ \E w : Prepare(s, w) /\ Verdict(w)
<1> USE StatusesAre
<1>1. ASSUME NEW to \in Statuses \cup {"same"}, NEW verdict \in {"approved", "rejected", "expired"},
             LatestIs(q, {"sent"}), verdict = "approved" => ~Past(LatestQuote(q))
      PROVE  Verdict(Ruling(q, to, verdict))
  BY <1>1, RulingIs DEF Verdict
<1> QED BY <1>1 DEF ApproveTooLate, ApproveQuote, RejectQuote, DecideExtension

LEMMA JobPlans ==
  ASSUME IInv, NEW s \in Sessions, FindStale(s)
  PROVE  \E w : Prepare(s, w) /\ WellFormed(w) /\ w.pc = "expire" /\ StaleFits(w)
<1> DEFINE w == [Nothing EXCEPT !.pc = "expire", !.stale = OpenPast]
<1>1. OpenPast \subseteq Reqs \X Nat
  BY DEF OpenPast, IInv, TablesOK
<1>2. w \in Requests /\ w.pc = "expire" /\ w.stale = OpenPast
  BY <1>1, NothingIs DEF Requests
<1>3. \A q \in Reqs, n \in Nat : <<q, n>> \in OpenPast =>
        n \in DOMAIN quotes[q] /\ quotes[q][n].st # "approved" /\ Past(quotes[q][n])
  BY DEF OpenPast
<1>4. Prepare(s, w)
  BY DEF FindStale
<1> HIDE DEF w
<1> QED BY <1>2, <1>3, <1>4 DEF WellFormed, StaleFits

-----------------------------------------------------------------------------
(* The two steps that write quotes keep their number or add to it, and     *)
(* what they were offered until.                                           *)
LEMMA CommitWrites ==
  ASSUME IInv, NEW s \in Sessions, Commit(s)
  PROVE  /\ sess[s].req \in Reqs /\ status' \in [Reqs -> Statuses] /\ quotes' \in [Reqs -> Seq(Quote)]
         /\ \A q \in Reqs, n \in Nat : n \in DOMAIN quotes[q] =>
              /\ n \in DOMAIN quotes'[q]
              /\ quotes'[q][n].until = quotes[q][n].until
              /\ quotes'[q][n].st = IF q = sess[s].req /\ n = sess[s].nth THEN sess[s].verdict ELSE quotes[q][n].st
<1> DEFINE w == sess[s]
           Q == quotes[w.req]
           R == [n \in DOMAIN Q |-> IF n = w.nth THEN [Q[n] EXCEPT !.st = w.verdict] ELSE Q[n]]
<1>1. /\ w.req \in Reqs /\ w.to \in Statuses \cup {"same"} /\ w.offer \in Seq(Quote) /\ w.nth \in Nat
      /\ w.nth # 0 => w.verdict \in {"approved", "rejected", "expired"}
  BY DEF Commit, IInv, SessionsOK, WellFormed, Requests
<1>2. Q \in Seq(Quote) /\ DOMAIN Q = 1..Len(Q) /\ Len(Q) \in Nat
  BY <1>1 DEF IInv, TablesOK
<1>3. \A n \in 1..Len(Q) : Q[n] \in Quote
  BY <1>2
<1>4. \A n \in 1..Len(Q) : n = w.nth => [Q[n] EXCEPT !.st = w.verdict] \in Quote
  BY <1>1, <1>3 DEF Quote
<1>5. \A n \in 1..Len(Q) : R[n] \in Quote
  BY <1>2, <1>3, <1>4
<1>6. R \in [1..Len(Q) -> Quote]
  BY <1>2, <1>5
<1>7. R \in Seq(Quote) /\ Len(R) = Len(Q)
  BY <1>2, <1>6
<1>8. \A n \in 1..Len(Q) : R[n].until = Q[n].until /\ R[n].st = IF n = w.nth THEN w.verdict ELSE Q[n].st
  BY <1>2, <1>3 DEF Quote
<1>9. quotes' = [quotes EXCEPT ![w.req] = R \o w.offer]
      /\ status' = IF w.to = "same" THEN status ELSE [status EXCEPT ![w.req] = w.to]
  BY DEF Commit
<1> HIDE DEF R
<1>10. /\ R \o w.offer \in Seq(Quote) /\ Len(R \o w.offer) = Len(R) + Len(w.offer)
       /\ \A n \in 1..Len(R) : (R \o w.offer)[n] = R[n]
  <2> DEFINE O == w.offer
  <2>1. O \in Seq(Quote) /\ R \in Seq(Quote) /\ Len(R) \in Nat /\ Len(O) \in Nat
    BY <1>1, <1>7
  <2> HIDE DEF O
  <2>2. /\ R \o O \in Seq(Quote) /\ Len(R \o O) = Len(R) + Len(O)
        /\ \A n \in 1..(Len(R) + Len(O)) : (R \o O)[n] = IF n <= Len(R) THEN R[n] ELSE O[n - Len(R)]
    BY <2>1, ConcatProperties
  <2>3. \A n \in 1..Len(R) : (R \o O)[n] = R[n]
    BY <2>1, <2>2
  <2> QED BY <2>2, <2>3 DEF O
<1>11. \A n \in 1..Len(Q) : n \in DOMAIN (R \o w.offer) /\ (R \o w.offer)[n] = R[n]
  BY <1>1, <1>2, <1>7, <1>10
<1>12. status' \in [Reqs -> Statuses] /\ quotes' \in [Reqs -> Seq(Quote)]
  BY <1>1, <1>9, <1>10 DEF IInv, TablesOK
<1>13. \A q \in Reqs : quotes'[q] = IF q = w.req THEN R \o w.offer ELSE quotes[q]
  BY <1>1, <1>9 DEF IInv, TablesOK
<1> HIDE DEF Q, w
<1>14. ASSUME NEW q \in Reqs, NEW n \in Nat, n \in DOMAIN quotes[q]
       PROVE  /\ n \in DOMAIN quotes'[q]
              /\ quotes'[q][n].until = quotes[q][n].until
              /\ quotes'[q][n].st = IF q = w.req /\ n = w.nth THEN w.verdict ELSE quotes[q][n].st
  <2>1. CASE q = w.req
    <3>1. Q = quotes[q]
      BY <2>1 DEF Q
    <3>2. quotes'[q] = R \o w.offer /\ n \in 1..Len(Q)
      BY <2>1, <3>1, <1>2, <1>13, <1>14
    <3> QED BY <2>1, <3>1, <3>2, <1>8, <1>11
  <2>2. CASE q # w.req
    BY <2>2, <1>13, <1>14
  <2> QED BY <2>1, <2>2
<1> QED BY <1>1, <1>12, <1>14 DEF w

LEMMA ExpireWrites ==
  ASSUME IInv, NEW s \in Sessions, ExpireStale(s)
  PROVE  /\ status' \in [Reqs -> Statuses] /\ quotes' \in [Reqs -> Seq(Quote)]
         /\ \A q \in Reqs, n \in Nat : n \in DOMAIN quotes[q] =>
              /\ n \in DOMAIN quotes'[q]
              /\ quotes'[q][n].until = quotes[q][n].until
              /\ quotes'[q][n].st = IF <<q, n>> \in sess[s].stale THEN "expired" ELSE quotes[q][n].st
<1> DEFINE Expired(q, n) ==
             IF <<q, n>> \in sess[s].stale THEN [quotes[q][n] EXCEPT !.st = "expired"] ELSE quotes[q][n]
<1>1. status' \in [Reqs -> Statuses]
  BY StatusesAre DEF ExpireStale, IInv, TablesOK
<1>2. quotes' = [q \in Reqs |-> [n \in DOMAIN quotes[q] |-> Expired(q, n)]]
  BY DEF ExpireStale
<1>3. \A q \in Reqs : quotes[q] \in Seq(Quote) /\ DOMAIN quotes[q] = 1..Len(quotes[q]) /\ Len(quotes[q]) \in Nat
  BY DEF IInv, TablesOK
<1>4. \A q \in Reqs : \A n \in 1..Len(quotes[q]) : quotes[q][n] \in Quote
  BY <1>3
<1>5. \A q \in Reqs : \A n \in 1..Len(quotes[q]) :
        /\ Expired(q, n) \in Quote /\ Expired(q, n).until = quotes[q][n].until
        /\ Expired(q, n).st = IF <<q, n>> \in sess[s].stale THEN "expired" ELSE quotes[q][n].st
  BY <1>4 DEF Quote
<1> HIDE DEF Expired
<1>6. \A q \in Reqs : quotes'[q] = [n \in 1..Len(quotes[q]) |-> Expired(q, n)]
  BY <1>2, <1>3
<1>7. \A q \in Reqs : quotes'[q] \in [1..Len(quotes[q]) -> Quote]
  BY <1>5, <1>6
<1>8. quotes' \in [Reqs -> Seq(Quote)]
  BY <1>2, <1>3, <1>7
<1> QED BY <1>1, <1>3, <1>5, <1>6, <1>8

-----------------------------------------------------------------------------
(* Type correctness.                                                       *)
Reads(s) ==
  \/ \E q \in Reqs :
       \/ MarkReview(s, q) \/ RejectRequirement(s, q) \/ CancelRequirement(s, q)
       \/ CompleteRequirement(s, q) \/ RequestExtension(s, q)
       \/ \E until \in 0..MaxDay : SendQuote(s, q, until)
       \/ WithdrawRequirement(s, q) \/ ApproveTooLate(s, q)
       \/ \E verdict \in {"approved", "rejected"} : DecideExtension(s, q, verdict)
       \/ ApproveQuote(s, q) \/ RejectQuote(s, q)
  \/ FindStale(s) \/ Abort(s)

LEMMA ReadStep ==
  ASSUME IInv, NEW s \in Sessions, Reads(s)
  PROVE  \E w : Prepare(s, w) /\ WellFormed(w)
BY AdminPlans, ClientPlans, JobPlans, NothingIs DEF Reads, Plain, Verdict, Abort, WellFormed

LEMMA SameSessions ==
  ASSUME IInv, NEW s \in Sessions, sess' = [sess EXCEPT ![s] = Nothing]
  PROVE  SessionsOK'
BY NothingIs DEF IInv, SessionsOK, WellFormed, Requests

LEMMA NextIInv == IInv /\ [Next]_quoteVars => IInv'
<1> SUFFICES ASSUME IInv, [Next]_quoteVars PROVE IInv'
  OBVIOUS
<1>1. ASSUME NEW s \in Sessions, Reads(s) PROVE IInv'
  BY <1>1, ReadStep, PrepareStep
<1>2. ASSUME NEW s \in Sessions, Commit(s) PROVE IInv'
  <2>1. SessionsOK'
    BY <1>2, SameSessions DEF Commit
  <2> QED BY <1>2, <2>1, CommitWrites DEF Commit, IInv, TablesOK
<1>3. ASSUME NEW s \in Sessions, ExpireStale(s) PROVE IInv'
  <2>1. SessionsOK'
    BY <1>3, SameSessions DEF ExpireStale
  <2> QED BY <1>3, <2>1, ExpireWrites DEF ExpireStale, IInv, TablesOK
<1>4. ASSUME NEW q \in Reqs, StaffingMoves(q) PROVE IInv'
  BY <1>4, StatusesAre DEF StaffingMoves, IInv, TablesOK, SessionsOK
<1>5. CASE NextDay
  BY <1>5, QuotesAssumption DEF NextDay, IInv, TablesOK, SessionsOK
<1>6. CASE UNCHANGED quoteVars
  BY <1>6 DEF quoteVars, IInv, TablesOK, SessionsOK
<1> QED BY <1>1, <1>2, <1>3, <1>4, <1>5, <1>6 DEF Next, Reads

LEMMA Invariance == Spec => []IInv
<1> QED BY InitIInv, NextIInv, PTL DEF Spec

(* Type correctness of the tables and of the requests under way.           *)
THEOREM TypeCorrect == Spec => []TypeOK
<1>1. IInv => TypeOK
  BY DEF IInv, TablesOK, SessionsOK, WellFormed, Requests, TypeOK
<1> QED BY <1>1, Invariance, PTL

-----------------------------------------------------------------------------
(* Approvals.                                                              *)
OneClient(client) == \A s \in Sessions : "decide" \in Serves[s] => s = client

LEMMA InitDecided ==
  ASSUME NEW client
  PROVE  Init => DecidedInv(client)
BY NothingIs DEF Init, DecidedInv, RulingFits, StaleFits

LEMMA ReadDecided ==
  ASSUME NEW client, OneClient(client), IInv, DecidedInv(client), NEW s \in Sessions, Reads(s)
  PROVE  DecidedInv(client)'
<1>1. ASSUME NEW w, Prepare(s, w), Plain(w) PROVE DecidedInv(client)'
  BY <1>1, PrepareDecided DEF Plain, RulingFits, StaleFits
<1>2. ASSUME NEW w, Prepare(s, w), Verdict(w), Serving(s, "decide") PROVE DecidedInv(client)'
  <2>1. w.req \in Reqs /\ quotes[w.req] \in Seq(Quote) /\ w.nth \in DOMAIN quotes[w.req]
    BY <1>2 DEF Verdict, WellFormed, LatestIs, Latest, IInv, TablesOK
  <2>2. quotes[w.req][w.nth] = LatestQuote(w.req) /\ quotes[w.req][w.nth].st = "sent"
    BY <1>2 DEF Verdict, LatestIs, LatestQuote
  <2>3. s = client
    BY <1>2 DEF Serving, OneClient
  <2>4. RulingFits(client, s, w) /\ StaleFits(w)
    BY <1>2, <2>1, <2>2, <2>3 DEF RulingFits, StaleFits, Verdict
  <2> QED BY <1>2, <2>4, PrepareDecided DEF Verdict
<1>3. ASSUME NEW w, Prepare(s, w), WellFormed(w), w.pc = "expire", StaleFits(w) PROVE DecidedInv(client)'
  BY <1>3, PrepareDecided DEF RulingFits
<1>4. CASE Abort(s)
  BY <1>4, PrepareDecided, NothingIs DEF Abort, RulingFits, StaleFits
<1> QED BY <1>1, <1>2, <1>3, <1>4, AdminPlans, ClientPlans, JobPlans DEF Reads

LEMMA NextDecided ==
  ASSUME NEW client, OneClient(client), ~SpansMidnight
  PROVE  IInv /\ DecidedInv(client) /\ [Next]_quoteVars => DecidedInv(client)'
<1> SUFFICES ASSUME IInv, DecidedInv(client), [Next]_quoteVars PROVE DecidedInv(client)'
  OBVIOUS
<1>1. ASSUME NEW s \in Sessions, Reads(s) PROVE DecidedInv(client)'
  BY <1>1, ReadDecided
<1>2. ASSUME NEW s \in Sessions, Commit(s) PROVE DecidedInv(client)'
  <2>1. \A t \in Sessions : sess'[t] = IF t = s THEN Nothing ELSE sess[t]
    BY <1>2 DEF Commit, IInv, SessionsOK
  <2>2. today' = today
    BY <1>2 DEF Commit
  <2>3. \A t \in Sessions : WellFormed(sess[t])
    BY DEF IInv, SessionsOK
  <2>4. ASSUME NEW t \in Sessions \ {s} PROVE RulingFits(client, t, sess[t])'
    <3> SUFFICES ASSUME sess[t].pc = "commit", sess[t].nth # 0
                 PROVE  /\ t = client /\ sess[t].nth \in DOMAIN quotes'[sess[t].req]
                        /\ quotes'[sess[t].req][sess[t].nth].st # "approved"
                        /\ sess[t].verdict = "approved" => ~Past(quotes[sess[t].req][sess[t].nth])'
      BY <2>1 DEF RulingFits
    <3>1. t = client /\ sess[t].nth \in DOMAIN quotes[sess[t].req] /\ sess[t].req \in Reqs /\ sess[t].nth \in Nat
          /\ quotes[sess[t].req][sess[t].nth].st # "approved"
          /\ (sess[t].verdict = "approved" => ~Past(quotes[sess[t].req][sess[t].nth]))
      BY <2>3 DEF DecidedInv, RulingFits, WellFormed, Requests
    <3>2. sess[s].nth = 0
      BY <1>2, <3>1 DEF Commit, DecidedInv, RulingFits
    <3> QED BY <1>2, <2>1, <2>2, <3>1, <3>2, CommitWrites DEF Past
  <2>5. ASSUME NEW t \in Sessions \ {s} PROVE StaleFits(sess[t])'
    <3> SUFFICES ASSUME sess[t].pc = "expire", NEW q \in Reqs, NEW n \in Nat, <<q, n>> \in sess[t].stale
                 PROVE  n \in DOMAIN quotes'[q] /\ quotes'[q][n].st # "approved" /\ Past(quotes[q][n])'
      BY <2>1 DEF StaleFits
    <3>1. n \in DOMAIN quotes[q] /\ quotes[q][n].st # "approved" /\ Past(quotes[q][n])
      BY DEF DecidedInv, StaleFits
    <3>2. q = sess[s].req /\ n = sess[s].nth => sess[s].verdict # "approved"
      <4>1. n # 0
        BY <3>1 DEF IInv, TablesOK
      <4> QED BY <1>2, <3>1, <4>1 DEF Commit, DecidedInv, RulingFits
    <3> QED BY <1>2, <2>2, <3>1, <3>2, CommitWrites DEF Past
  <2>6. RulingFits(client, s, sess[s])' /\ StaleFits(sess[s])'
    BY <2>1, NothingIs DEF RulingFits, StaleFits
  <2> QED BY <2>4, <2>5, <2>6 DEF DecidedInv
<1>3. ASSUME NEW s \in Sessions, ExpireStale(s) PROVE DecidedInv(client)'
  <2>1. \A t \in Sessions : sess'[t] = IF t = s THEN Nothing ELSE sess[t]
    BY <1>3 DEF ExpireStale, IInv, SessionsOK
  <2>2. today' = today
    BY <1>3 DEF ExpireStale
  <2>3. ASSUME NEW t \in Sessions \ {s} PROVE RulingFits(client, t, sess[t])'
    <3> SUFFICES ASSUME sess[t].pc = "commit", sess[t].nth # 0
                 PROVE  /\ t = client /\ sess[t].nth \in DOMAIN quotes'[sess[t].req]
                        /\ quotes'[sess[t].req][sess[t].nth].st # "approved"
                        /\ sess[t].verdict = "approved" => ~Past(quotes[sess[t].req][sess[t].nth])'
      BY <2>1 DEF RulingFits
    <3>1. t = client /\ sess[t].nth \in DOMAIN quotes[sess[t].req] /\ sess[t].req \in Reqs /\ sess[t].nth \in Nat
          /\ quotes[sess[t].req][sess[t].nth].st # "approved"
          /\ (sess[t].verdict = "approved" => ~Past(quotes[sess[t].req][sess[t].nth]))
      BY DEF DecidedInv, RulingFits, IInv, SessionsOK, WellFormed, Requests
    <3> DEFINE q == sess[t].req
               n == sess[t].nth
    <3>2. /\ n \in DOMAIN quotes'[q] /\ quotes'[q][n].until = quotes[q][n].until
          /\ quotes'[q][n].st \in {"expired", quotes[q][n].st}
      BY <1>3, <3>1, ExpireWrites
    <3>3. sess'[t] = sess[t]
      BY <2>1
    <3> QED BY <2>2, <3>1, <3>2, <3>3 DEF Past
  <2>4. ASSUME NEW t \in Sessions \ {s} PROVE StaleFits(sess[t])'
    <3> SUFFICES ASSUME sess[t].pc = "expire", NEW q \in Reqs, NEW n \in Nat, <<q, n>> \in sess[t].stale
                 PROVE  n \in DOMAIN quotes'[q] /\ quotes'[q][n].st # "approved" /\ Past(quotes[q][n])'
      BY <2>1 DEF StaleFits
    <3>1. n \in DOMAIN quotes[q] /\ quotes[q][n].st # "approved" /\ Past(quotes[q][n])
      BY DEF DecidedInv, StaleFits
    <3> QED BY <1>3, <2>2, <3>1, ExpireWrites DEF Past
  <2>5. RulingFits(client, s, sess[s])' /\ StaleFits(sess[s])'
    BY <2>1, NothingIs DEF RulingFits, StaleFits
  <2> QED BY <2>3, <2>4, <2>5 DEF DecidedInv
<1>4. ASSUME NEW q \in Reqs, StaffingMoves(q) PROVE DecidedInv(client)'
  BY <1>4 DEF StaffingMoves, DecidedInv, RulingFits, StaleFits, Past
<1>5. CASE NextDay
  <2>1. \A t \in Sessions : sess'[t] = sess[t] /\ sess[t].pc = "idle"
    BY <1>5 DEF NextDay
  <2> QED BY <2>1 DEF DecidedInv, RulingFits, StaleFits
<1>6. CASE UNCHANGED quoteVars
  BY <1>6 DEF quoteVars, DecidedInv, RulingFits, StaleFits, Past
<1> QED BY <1>1, <1>2, <1>3, <1>4, <1>5, <1>6 DEF Next, Reads

(* An approval is final: neither the expiry job nor a rejection or a late  *)
(* approval of the client undoes one (client_requirements.py:386,          *)
(* scheduler.py:68-73), if the client decides from one place and no        *)
(* request spans midnight.                                                 *)
THEOREM ApprovalIsFinal ==
  ASSUME NEW client, OneClient(client), ~SpansMidnight
  PROVE  Spec => ApprovedStands
<1>1. IInv /\ DecidedInv(client) /\ [Next]_quoteVars =>
        [\A q \in Reqs : \A n \in DOMAIN quotes[q] :
           quotes[q][n].st = "approved" => quotes'[q][n].st = "approved"]_quoteVars
  <2> SUFFICES ASSUME IInv, DecidedInv(client), Next, NEW q \in Reqs, NEW n \in DOMAIN quotes[q],
                      quotes[q][n].st = "approved"
               PROVE  quotes'[q][n].st = "approved"
    BY DEF quoteVars
  <2>1. n \in Nat /\ n # 0
    BY DEF IInv, TablesOK
  <2>2. ASSUME NEW s \in Sessions, Commit(s) PROVE quotes'[q][n].st = "approved"
    <3>1. ~(q = sess[s].req /\ n = sess[s].nth)
      BY <2>1, <2>2 DEF Commit, DecidedInv, RulingFits
    <3> QED BY <2>1, <2>2, <3>1, CommitWrites
  <2>3. ASSUME NEW s \in Sessions, ExpireStale(s) PROVE quotes'[q][n].st = "approved"
    <3>1. <<q, n>> \notin sess[s].stale
      BY <2>1, <2>3 DEF ExpireStale, DecidedInv, StaleFits
    <3> QED BY <2>1, <2>3, <3>1, ExpireWrites
  <2>4. ASSUME NEW s \in Sessions, Reads(s) PROVE quotes' = quotes
    BY <2>4, ReadStep DEF Prepare
  <2>5. ASSUME NEW p \in Reqs, StaffingMoves(p) PROVE quotes' = quotes
    BY <2>5 DEF StaffingMoves
  <2>6. CASE NextDay
    BY <2>6 DEF NextDay
  <2> QED BY <2>2, <2>3, <2>4, <2>5, <2>6 DEF Next, Reads
<1>2. Init => DecidedInv(client)
  BY InitDecided
<1>3. IInv /\ DecidedInv(client) /\ [Next]_quoteVars => DecidedInv(client)'
  BY NextDecided
<1> QED BY <1>1, <1>2, <1>3, InitIInv, NextIInv, PTL DEF Spec, ApprovedStands

-----------------------------------------------------------------------------
(* One agreement.  A requirement that may still be negotiated carries      *)
(* standard quotes only, and none but the last may await a decision or be  *)
(* approved; one that is agreed carries one approved standard quote.       *)
OpenStates == {"submitted", "under_review", "quoted"}

Standing(quote) == quote.kind = "standard" /\ quote.st \in {"approved", "sent"}

CleanRow(Q) == \A n \in DOMAIN Q : Q[n].kind = "standard" /\ (Standing(Q[n]) => n = Len(Q))

AgreedRow(Q) ==
  /\ \E n \in DOMAIN Q : Q[n].kind = "standard" /\ Q[n].st = "approved"
  /\ \A n, m \in DOMAIN Q : Standing(Q[n]) /\ Standing(Q[m]) => n = m

RowOK(st, Q) == (st \in OpenStates => CleanRow(Q)) /\ (st \in Agreed => AgreedRow(Q))

(* What the client and the desk have under way, over the requirement's     *)
(* status and quotes as they are when it is committed.                     *)
ClientFits(w, st, Q) ==
  /\ w.to \in {"same", "under_review", "approved", "cancelled"} /\ w.offer = <<>>
  /\ w.to # "same" => st \notin Agreed
  /\ w.to \in {"under_review", "approved"} => CleanRow(Q)
  /\ w.to = "approved" => w.nth # 0 /\ w.nth = Len(Q) /\ w.verdict = "approved"
  /\ w.nth # 0 =>
       /\ w.nth \in DOMAIN Q /\ Q[w.nth].st # "approved"
       /\ w.verdict = "approved" => Q[w.nth].st = "sent" /\ (Q[w.nth].kind = "standard" => w.to = "approved")

DeskFits(w, st, Q) ==
  /\ w.to \in {"same", "under_review", "quoted", "rejected", "cancelled", "completed"} /\ w.nth = 0
  /\ w.to # "same" => st # "completed"
  /\ w.to = "completed" => st = "in_progress"
  /\ w.to \in {"under_review", "quoted"} => CleanRow(Q)
  /\ w.offer # <<>> =>
       /\ Len(w.offer) = 1 /\ w.offer[1].st = "sent"
       /\ \/ w.offer[1].kind = "standard" /\ w.to = "quoted" /\ \A n \in DOMAIN Q : ~Standing(Q[n])
          \/ w.offer[1].kind = "extension" /\ w.to = "same" /\ st \in Agreed

Fits(desk, client, s, w, st, Q) ==
  w.pc = "commit" =>
    /\ s \in {desk, client}
    /\ s = client => ClientFits(w, st, Q)
    /\ s = desk => DeskFits(w, st, Q)

DealInv(desk, client) ==
  /\ \A q \in Reqs : RowOK(status[q], quotes[q])
  /\ \A s \in Sessions : Fits(desk, client, s, sess[s], status[sess[s].req], quotes[sess[s].req])

(* What a commit makes of the row it writes.                               *)
Written(Q, w) ==
  [n \in DOMAIN Q |-> IF n = w.nth THEN [Q[n] EXCEPT !.st = w.verdict] ELSE Q[n]] \o w.offer

Moved(st, w) == IF w.to = "same" THEN st ELSE w.to

LEMMA WrittenIs ==
  ASSUME NEW Q \in Seq(Quote), NEW w \in Requests, w.nth # 0 => w.verdict # "none"
  PROVE  /\ Written(Q, w) \in Seq(Quote)
         /\ Len(Written(Q, w)) = Len(Q) + Len(w.offer)
         /\ \A n \in 1..Len(Q) :
              /\ Written(Q, w)[n].kind = Q[n].kind
              /\ Written(Q, w)[n].st = IF n = w.nth THEN w.verdict ELSE Q[n].st
         /\ \A n \in 1..Len(w.offer) : Written(Q, w)[Len(Q) + n] = w.offer[n]
<1> DEFINE R == [n \in DOMAIN Q |-> IF n = w.nth THEN [Q[n] EXCEPT !.st = w.verdict] ELSE Q[n]]
           O == w.offer
<1>1. O \in Seq(Quote) /\ w.nth \in Nat /\ (w.nth # 0 => w.verdict \in {"approved", "rejected", "expired"})
  BY DEF Requests
<1>2. DOMAIN Q = 1..Len(Q) /\ Len(Q) \in Nat /\ Len(O) \in Nat /\ \A n \in 1..Len(Q) : Q[n] \in Quote
  BY <1>1
<1>3. \A n \in 1..Len(Q) : R[n] \in Quote /\ R[n].kind = Q[n].kind
                           /\ R[n].st = IF n = w.nth THEN w.verdict ELSE Q[n].st
  BY <1>1, <1>2 DEF Quote
<1>4. R \in [1..Len(Q) -> Quote]
  BY <1>2, <1>3
<1>5. R \in Seq(Quote) /\ Len(R) = Len(Q)
  BY <1>2, <1>4
<1>6. Written(Q, w) = R \o O
  BY DEF Written
<1> HIDE DEF R, O
<1>7. /\ R \o O \in Seq(Quote) /\ Len(R \o O) = Len(R) + Len(O)
      /\ \A n \in 1..(Len(R) + Len(O)) : (R \o O)[n] = IF n <= Len(R) THEN R[n] ELSE O[n - Len(R)]
  BY <1>1, <1>5, ConcatProperties
<1>8. \A n \in 1..Len(Q) : (R \o O)[n] = R[n]
  BY <1>2, <1>5, <1>7
<1>9. \A n \in 1..Len(O) : (R \o O)[Len(Q) + n] = O[n]
  <2> SUFFICES ASSUME NEW n \in 1..Len(O) PROVE (R \o O)[Len(Q) + n] = O[n]
    OBVIOUS
  <2>1. Len(Q) + n \in 1..(Len(R) + Len(O)) /\ ~(Len(Q) + n <= Len(R)) /\ (Len(Q) + n) - Len(R) = n
    BY <1>2, <1>5
  <2> QED BY <1>7, <2>1
<1> QED BY <1>3, <1>5, <1>6, <1>7, <1>8, <1>9 DEF O

(* The client's commit: its row stays in order, and what the desk has      *)
(* under way for it still fits.                                            *)
LEMMA ClientCommits ==
  ASSUME NEW Q \in Seq(Quote), NEW st \in Statuses, NEW v \in Requests,
         v.nth # 0 => v.verdict # "none", ClientFits(v, st, Q), RowOK(st, Q)
  PROVE  /\ RowOK(Moved(st, v), Written(Q, v))
         /\ \A w : DeskFits(w, st, Q) => DeskFits(w, Moved(st, v), Written(Q, v))
<1> DEFINE R == Written(Q, v)
<1>1. v.offer = <<>> /\ Len(v.offer) = 0 /\ v.nth \in Nat /\ v.verdict \in {"none", "approved", "rejected", "expired"}
  BY DEF ClientFits, Requests
<1>2. /\ R \in Seq(Quote) /\ Len(R) = Len(Q) /\ Len(Q) \in Nat /\ DOMAIN R = 1..Len(Q) /\ DOMAIN Q = 1..Len(Q)
      /\ \A n \in 1..Len(Q) : R[n].kind = Q[n].kind /\ R[n].st = IF n = v.nth THEN v.verdict ELSE Q[n].st
  BY <1>1, WrittenIs
<1> HIDE DEF R
<1>3. \A n \in 1..Len(Q) : Standing(R[n]) => Standing(Q[n])
  BY <1>1, <1>2 DEF ClientFits, Standing
<1>4. CleanRow(Q) => CleanRow(R)
  BY <1>2, <1>3 DEF CleanRow
<1>5. AgreedRow(Q) => AgreedRow(R)
  BY <1>1, <1>2, <1>3 DEF AgreedRow, ClientFits
<1>6. v.to = "approved" => AgreedRow(R)
  <2> SUFFICES ASSUME v.to = "approved" PROVE AgreedRow(R)
    OBVIOUS
  <2>1. CleanRow(Q) /\ v.nth = Len(Q) /\ v.nth \in 1..Len(Q) /\ v.verdict = "approved"
    BY <1>2 DEF ClientFits
  <2>2. R[v.nth].kind = "standard" /\ R[v.nth].st = "approved"
    BY <1>2, <2>1 DEF CleanRow
  <2>3. \A n \in 1..Len(Q) : Standing(R[n]) => n = v.nth
    BY <1>2, <1>3, <2>1 DEF CleanRow
  <2> QED BY <1>2, <2>1, <2>2, <2>3 DEF AgreedRow
<1>7. RowOK(Moved(st, v), R)
  BY <1>4, <1>5, <1>6 DEF RowOK, Moved, ClientFits, OpenStates, Agreed
<1>8. ASSUME NEW w, DeskFits(w, st, Q) PROVE DeskFits(w, Moved(st, v), R)
  <2>1. w.to = "completed" \/ (w.offer # <<>> /\ w.offer[1].kind = "extension") => v.to = "same"
    BY <1>8 DEF DeskFits, ClientFits, Agreed
  <2>2. Moved(st, v) # "completed" \/ Moved(st, v) = st
    BY DEF Moved, ClientFits
  <2>3. (\A n \in DOMAIN Q : ~Standing(Q[n])) => \A n \in DOMAIN R : ~Standing(R[n])
    BY <1>2, <1>3
  <2>4. v.to = "same" => Moved(st, v) = st
    BY DEF Moved
  <2> QED BY <1>4, <1>8, <2>1, <2>2, <2>3, <2>4 DEF DeskFits
<1> QED BY <1>7, <1>8 DEF R

(* The desk's commit, and what the client has under way.                   *)
LEMMA DeskCommits ==
  ASSUME NEW Q \in Seq(Quote), NEW st \in Statuses, NEW v \in Requests,
         v.nth # 0 => v.verdict # "none", DeskFits(v, st, Q), RowOK(st, Q)
  PROVE  /\ RowOK(Moved(st, v), Written(Q, v))
         /\ \A w \in Requests : ClientFits(w, st, Q) => ClientFits(w, Moved(st, v), Written(Q, v))
<1> DEFINE R == Written(Q, v)
<1>1. v.nth = 0 /\ v.offer \in Seq(Quote) /\ Len(v.offer) \in Nat /\ (v.offer = <<>> \/ Len(v.offer) = 1)
  BY DEF DeskFits, Requests
<1>2. /\ R \in Seq(Quote) /\ Len(R) = Len(Q) + Len(v.offer) /\ Len(Q) \in Nat
      /\ DOMAIN R = 1..Len(R) /\ DOMAIN Q = 1..Len(Q)
      /\ \A n \in 1..Len(Q) : R[n].kind = Q[n].kind /\ R[n].st = Q[n].st
      /\ \A n \in 1..Len(v.offer) : R[Len(Q) + n] = v.offer[n]
  BY <1>1, WrittenIs
<1> HIDE DEF R
<1>3. \A n \in 1..Len(Q) : Standing(R[n]) <=> Standing(Q[n])
  BY <1>2 DEF Standing
<1>4. CASE v.offer = <<>>
  <2>1. Len(v.offer) = 0 /\ Len(R) = Len(Q)
    BY <1>2, <1>4
  <2>2. (CleanRow(Q) => CleanRow(R)) /\ (AgreedRow(Q) => AgreedRow(R))
    BY <1>2, <1>3, <2>1 DEF CleanRow, AgreedRow
  <2>3. RowOK(Moved(st, v), R)
    BY <2>2 DEF RowOK, Moved, DeskFits, OpenStates, Agreed
  <2>4. ASSUME NEW w \in Requests, ClientFits(w, st, Q) PROVE ClientFits(w, Moved(st, v), R)
    <3>1. w.to # "same" => Moved(st, v) \notin Agreed
      BY <2>4 DEF Moved, ClientFits, DeskFits, Agreed
    <3>2. w.nth # 0 => w.nth \in 1..Len(Q)
      BY <1>2, <2>4 DEF ClientFits
    <3> QED BY <1>2, <2>1, <2>2, <2>4, <3>1, <3>2 DEF ClientFits
  <2> QED BY <2>3, <2>4 DEF R
<1>5. CASE v.offer # <<>>
  <2>1. Len(v.offer) = 1 /\ Len(R) = Len(Q) + 1 /\ R[Len(Q) + 1] = v.offer[1] /\ v.offer[1].st = "sent"
    <3>1. Len(v.offer) = 1 /\ v.offer[1].st = "sent"
      BY <1>5 DEF DeskFits
    <3>2. 1 \in 1..Len(v.offer)
      BY <3>1
    <3> QED BY <1>2, <3>1, <3>2
  <2>2. CASE v.offer[1].kind = "standard"
    <3>1. v.to = "quoted" /\ CleanRow(Q) /\ \A n \in 1..Len(Q) : ~Standing(Q[n])
      BY <1>2, <1>5, <2>2 DEF DeskFits
    <3>2. \A n \in DOMAIN R : n \in 1..Len(Q) \/ n = Len(Q) + 1
      BY <1>2, <2>1
    <3>3. CleanRow(R)
      BY <1>2, <1>3, <2>1, <2>2, <3>1, <3>2 DEF CleanRow
    <3>4. RowOK(Moved(st, v), R)
      BY <3>1, <3>3 DEF RowOK, Moved, Agreed
    <3>5. ASSUME NEW w \in Requests, ClientFits(w, st, Q) PROVE ClientFits(w, Moved(st, v), R)
      <4>1. w.nth # 0 => w.nth \in 1..Len(Q) /\ Q[w.nth].kind = "standard"
        BY <1>2, <3>1, <3>5 DEF ClientFits, CleanRow
      <4>2. w.nth # 0 => w.verdict # "approved"
        BY <3>1, <3>5, <4>1 DEF ClientFits, Standing
      <4>3. Moved(st, v) \notin Agreed
        BY <3>1 DEF Moved, Agreed
      <4> QED BY <1>2, <2>1, <3>3, <3>5, <4>1, <4>2, <4>3 DEF ClientFits
    <3> QED BY <3>4, <3>5 DEF R
  <2>3. CASE v.offer[1].kind # "standard"
    <3>1. v.to = "same" /\ st \in Agreed /\ AgreedRow(Q) /\ Moved(st, v) = st
      BY <1>5, <2>3 DEF DeskFits, RowOK, Moved
    <3>2. \A n \in DOMAIN R : n \in 1..Len(Q) \/ (n = Len(Q) + 1 /\ ~Standing(R[n]))
      BY <1>2, <2>1, <2>3 DEF Standing
    <3>3. AgreedRow(R)
      <4>1. PICK n \in 1..Len(Q) : Q[n].kind = "standard" /\ Q[n].st = "approved"
        BY <1>2, <3>1 DEF AgreedRow
      <4>2. n \in DOMAIN R /\ R[n].kind = "standard" /\ R[n].st = "approved"
        BY <1>2, <2>1, <4>1
      <4>3. \A i, j \in DOMAIN R : Standing(R[i]) /\ Standing(R[j]) => i = j
        BY <1>2, <1>3, <3>1, <3>2 DEF AgreedRow
      <4> QED BY <4>2, <4>3 DEF AgreedRow
    <3>4. RowOK(Moved(st, v), R)
      BY <3>1, <3>3 DEF RowOK, Agreed, OpenStates
    <3>5. ASSUME NEW w \in Requests, ClientFits(w, st, Q) PROVE ClientFits(w, Moved(st, v), R)
      <4>1. w.to = "same" /\ (w.nth # 0 => w.nth \in 1..Len(Q))
        BY <1>2, <3>1, <3>5 DEF ClientFits
      <4> QED BY <1>2, <2>1, <3>5, <4>1 DEF ClientFits
    <3> QED BY <3>4, <3>5 DEF R
  <2> QED BY <2>2, <2>3
<1> QED BY <1>1, <1>4, <1>5

(* The expiry job's commit.                                                *)
LEMMA JobCommits ==
  ASSUME NEW Q \in Seq(Quote), NEW R \in Seq(Quote), NEW st \in Statuses, NEW at, RowOK(st, Q), Len(R) = Len(Q),
         \A n \in 1..Len(Q) : R[n].kind = Q[n].kind
                              /\ (R[n].st = Q[n].st \/ (R[n].st = "expired" /\ Q[n].st # "approved")),
         at = st \/ (at = "under_review" /\ st \in {"submitted", "quoted"})
  PROVE  /\ RowOK(at, R)
         /\ \A w : DeskFits(w, st, Q) => DeskFits(w, at, R)
         /\ \A w \in Requests :
              /\ ClientFits(w, st, Q)
              /\ w.nth # 0 /\ w.verdict = "approved" => R[w.nth].st = Q[w.nth].st
              => ClientFits(w, at, R)
<1>1. Len(Q) \in Nat /\ DOMAIN Q = 1..Len(Q) /\ DOMAIN R = 1..Len(Q)
  OBVIOUS
<1>2. \A n \in 1..Len(Q) : Standing(R[n]) => Standing(Q[n])
  BY DEF Standing
<1>3. CleanRow(Q) => CleanRow(R)
  BY <1>1, <1>2 DEF CleanRow
<1>4. AgreedRow(Q) => AgreedRow(R)
  BY <1>1, <1>2 DEF AgreedRow
<1>5. RowOK(at, R)
  BY <1>3, <1>4 DEF RowOK, OpenStates, Agreed
<1>6. ASSUME NEW w, DeskFits(w, st, Q) PROVE DeskFits(w, at, R)
  BY <1>1, <1>2, <1>3, <1>6 DEF DeskFits, Agreed
<1>7. ASSUME NEW w \in Requests, ClientFits(w, st, Q),
             w.nth # 0 /\ w.verdict = "approved" => R[w.nth].st = Q[w.nth].st
      PROVE  ClientFits(w, at, R)
  <2>1. w.nth # 0 => w.nth \in 1..Len(Q)
    BY <1>1, <1>7 DEF ClientFits
  <2>2. w.to # "same" => at \notin Agreed
    BY <1>7 DEF ClientFits, Agreed
  <2> QED BY <1>1, <1>3, <1>7, <2>1, <2>2 DEF ClientFits
<1> QED BY <1>5, <1>6, <1>7

(* One session decides for the client and withdraws, and another runs the  *)
(* desk; anything may expire quotes.                                       *)
DeskEndpoints == {"review", "quote", "reject", "cancel", "complete", "extend"}

OneDesk(desk, client) ==
  /\ desk # client
  /\ \A s \in Sessions : DeskEndpoints \cap Serves[s] # {} => s = desk
  /\ \A s \in Sessions : {"decide", "withdraw"} \cap Serves[s] # {} => s = client

FitsNow(desk, client, s, w) == Fits(desk, client, s, w, status[w.req], quotes[w.req])

LEMMA PlanFields ==
  ASSUME NEW q, NEW to
  PROVE  /\ Plan(q, to).pc = "commit" /\ Plan(q, to).req = q /\ Plan(q, to).to = to
         /\ Plan(q, to).nth = 0 /\ Plan(q, to).offer = <<>> /\ Plan(q, to).verdict = "none"
BY DEF Plan, Nothing

LEMMA OfferedFields ==
  ASSUME NEW q, NEW to, NEW kind, NEW until
  PROVE  LET w == [Plan(q, to) EXCEPT !.offer = Offer(kind, until)] IN
         /\ w.pc = "commit" /\ w.req = q /\ w.to = to /\ w.nth = 0
         /\ w.offer # <<>> /\ Len(w.offer) = 1 /\ w.offer[1].st = "sent" /\ w.offer[1].kind = kind
<1>1. /\ Offer(kind, until) # <<>> /\ Len(Offer(kind, until)) = 1
      /\ Offer(kind, until)[1].st = "sent" /\ Offer(kind, until)[1].kind = kind
  BY DEF Offer
<1> QED BY <1>1 DEF Plan, Nothing

LEMMA RulingFields ==
  ASSUME NEW q, NEW to, NEW verdict
  PROVE  /\ Ruling(q, to, verdict).pc = "commit" /\ Ruling(q, to, verdict).req = q
         /\ Ruling(q, to, verdict).to = to /\ Ruling(q, to, verdict).offer = <<>>
         /\ Ruling(q, to, verdict).nth = Latest(q) /\ Ruling(q, to, verdict).verdict = verdict
BY DEF Ruling, Plan, Nothing

LEMMA MovesAre ==
  ASSUME IInv, NEW q \in Reqs
  PROVE  /\ status[q] \in Statuses
         /\ CanMove(q, "under_review") <=> status[q] \in {"submitted", "quoted"}
         /\ CanMove(q, "quoted") <=> status[q] = "under_review"
         /\ CanMove(q, "approved") <=> status[q] \in {"quoted", "workers_assigned"}
         /\ CanMove(q, "completed") <=> status[q] = "in_progress"
         /\ \A to : CanMove(q, to) => status[q] # "completed"
<1>1. status[q] \in Statuses
  BY DEF IInv, TablesOK
<1> QED BY <1>1, StatusesAre DEF CanMove, Transitions

(* What the desk plans fits.                                               *)
LEMMA DeskReads ==
  ASSUME NEW desk, NEW client, OneDesk(desk, client), IInv, DealInv(desk, client), NEW s \in Sessions, NEW q \in Reqs,
         \/ MarkReview(s, q) \/ RejectRequirement(s, q) \/ CancelRequirement(s, q)
         \/ CompleteRequirement(s, q) \/ RequestExtension(s, q)
         \/ \E until \in 0..MaxDay : SendQuote(s, q, until)
  PROVE  \E w : Prepare(s, w) /\ FitsNow(desk, client, s, w)
<1>1. s = desk /\ s # client
  BY DEF OneDesk, DeskEndpoints, Serving, MarkReview, RejectRequirement, CancelRequirement, CompleteRequirement,
         RequestExtension, SendQuote
<1>2. RowOK(status[q], quotes[q])
  BY DEF DealInv
<1>3. ASSUME NEW w, w.req = q, DeskFits(w, status[q], quotes[q]), Prepare(s, w)
      PROVE  \E v : Prepare(s, v) /\ FitsNow(desk, client, s, v)
  BY <1>1, <1>3 DEF FitsNow, Fits
<1>4. CASE MarkReview(s, q)
  <2>1. DeskFits(Plan(q, "under_review"), status[q], quotes[q])
    BY <1>2, <1>4, MovesAre, PlanFields DEF MarkReview, DeskFits, RowOK, OpenStates
  <2> QED BY <1>3, <1>4, <2>1, PlanFields DEF MarkReview
<1>5. CASE RejectRequirement(s, q)
  <2>1. DeskFits(Plan(q, "rejected"), status[q], quotes[q])
    BY <1>5, MovesAre, PlanFields DEF RejectRequirement, DeskFits
  <2> QED BY <1>3, <1>5, <2>1, PlanFields DEF RejectRequirement
<1>6. CASE CancelRequirement(s, q)
  <2>1. DeskFits(Plan(q, "cancelled"), status[q], quotes[q])
    BY <1>6, MovesAre, PlanFields DEF CancelRequirement, DeskFits
  <2> QED BY <1>3, <1>6, <2>1, PlanFields DEF CancelRequirement
<1>7. CASE CompleteRequirement(s, q)
  <2>1. DeskFits(Plan(q, "completed"), status[q], quotes[q])
    BY <1>7, MovesAre, PlanFields DEF CompleteRequirement, DeskFits
  <2> QED BY <1>3, <1>7, <2>1, PlanFields DEF CompleteRequirement
<1>8. CASE RequestExtension(s, q)
  <2> DEFINE w == [Plan(q, "same") EXCEPT !.offer = Offer("extension", today + ExtensionTerm)]
  <2>1. /\ w.req = q /\ w.to = "same" /\ w.nth = 0 /\ w.offer # <<>> /\ Len(w.offer) = 1
        /\ w.offer[1].st = "sent" /\ w.offer[1].kind = "extension"
    BY OfferedFields
  <2>2. Prepare(s, w)
    BY <1>8 DEF RequestExtension
  <2> HIDE DEF w
  <2>3. status[q] \in Agreed
    BY <1>8 DEF RequestExtension, Agreed
  <2>4. DeskFits(w, status[q], quotes[q])
    BY <2>1, <2>3 DEF DeskFits
  <2> QED BY <1>3, <2>1, <2>2, <2>4
<1>9. ASSUME NEW until \in 0..MaxDay, SendQuote(s, q, until)
      PROVE  \E w : Prepare(s, w) /\ FitsNow(desk, client, s, w)
  <2> DEFINE w == [Plan(q, "quoted") EXCEPT !.offer = Offer("standard", until)]
  <2>1. /\ w.req = q /\ w.to = "quoted" /\ w.nth = 0 /\ w.offer # <<>> /\ Len(w.offer) = 1
        /\ w.offer[1].st = "sent" /\ w.offer[1].kind = "standard"
    BY OfferedFields
  <2>2. Prepare(s, w)
    BY <1>9 DEF SendQuote
  <2> HIDE DEF w
  <2>3. status[q] = "under_review" /\ CleanRow(quotes[q])
    BY <1>2, <1>9, MovesAre DEF SendQuote, RowOK, OpenStates
  <2>4. \A n \in DOMAIN quotes[q] : ~Standing(quotes[q][n])
    <3>1. DOMAIN quotes[q] = 1..Len(quotes[q]) /\ Len(quotes[q]) \in Nat
      BY DEF IInv, TablesOK
    <3>2. Len(quotes[q]) = 0 \/ quotes[q][Len(quotes[q])].st \in {"rejected", "expired"}
      BY <1>9 DEF SendQuote, LatestIs, LatestQuote, Latest
    <3>3. CASE Len(quotes[q]) = 0
      BY <3>1, <3>3
    <3>4. CASE quotes[q][Len(quotes[q])].st \in {"rejected", "expired"}
      BY <2>3, <3>4 DEF CleanRow, Standing
    <3> QED BY <3>2, <3>3, <3>4
  <2>5. DeskFits(w, status[q], quotes[q])
    BY <2>1, <2>3, <2>4 DEF DeskFits
  <2> QED BY <1>3, <2>1, <2>2, <2>5
<1> QED BY <1>4, <1>5, <1>6, <1>7, <1>8, <1>9

(* What the client plans fits.                                             *)
LEMMA ClientReads ==
  ASSUME NEW desk, NEW client, OneDesk(desk, client), IInv, DealInv(desk, client), NEW s \in Sessions, NEW q \in Reqs,
         \/ WithdrawRequirement(s, q) \/ ApproveTooLate(s, q) \/ ApproveQuote(s, q) \/ RejectQuote(s, q)
         \/ \E verdict \in {"approved", "rejected"} : DecideExtension(s, q, verdict)
  PROVE  \E w : Prepare(s, w) /\ FitsNow(desk, client, s, w)
<1>1. s = client /\ s # desk
  BY DEF OneDesk, Serving, WithdrawRequirement, ApproveTooLate, ApproveQuote, RejectQuote, DecideExtension
<1>2. RowOK(status[q], quotes[q]) /\ Latest(q) = Len(quotes[q]) /\ DOMAIN quotes[q] = 1..Len(quotes[q])
      /\ Len(quotes[q]) \in Nat /\ LatestQuote(q) = quotes[q][Latest(q)]
  BY DEF DealInv, IInv, TablesOK, Latest, LatestQuote
<1>3. ASSUME NEW w, w.req = q, ClientFits(w, status[q], quotes[q]), Prepare(s, w)
      PROVE  \E v : Prepare(s, v) /\ FitsNow(desk, client, s, v)
  BY <1>1, <1>3 DEF FitsNow, Fits
<1>4. CASE WithdrawRequirement(s, q)
  <2>1. ClientFits(Plan(q, "cancelled"), status[q], quotes[q])
    BY <1>4, PlanFields DEF WithdrawRequirement, ClientFits, Agreed
  <2> QED BY <1>3, <1>4, <2>1, PlanFields DEF WithdrawRequirement
<1>5. ASSUME NEW to \in {"same", "under_review"}, NEW verdict \in {"rejected", "expired"}, LatestIs(q, {"sent"}),
             to = "under_review" => CanMove(q, "under_review"), Prepare(s, Ruling(q, to, verdict))
      PROVE  \E w : Prepare(s, w) /\ FitsNow(desk, client, s, w)
  <2>1. to = "under_review" => status[q] \notin Agreed /\ CleanRow(quotes[q])
    BY <1>2, <1>5, MovesAre DEF RowOK, OpenStates, Agreed
  <2>2. ClientFits(Ruling(q, to, verdict), status[q], quotes[q])
    BY <1>2, <1>5, <2>1, RulingFields DEF ClientFits, LatestIs
  <2> QED BY <1>3, <1>5, <2>2, RulingFields
<1>6. CASE ApproveTooLate(s, q)
  BY <1>5, <1>6 DEF ApproveTooLate
<1>7. CASE RejectQuote(s, q)
  BY <1>5, <1>7 DEF RejectQuote
<1>8. CASE DecideExtension(s, q, "rejected")
  BY <1>5, <1>8 DEF DecideExtension
<1>9. CASE DecideExtension(s, q, "approved")
  <2>1. ClientFits(Ruling(q, "same", "approved"), status[q], quotes[q])
    BY <1>2, <1>9, RulingFields DEF DecideExtension, ClientFits, LatestIs
  <2> QED BY <1>3, <1>9, <2>1, RulingFields DEF DecideExtension
<1>10. CASE ApproveQuote(s, q)
  <2>1. quotes[q][Len(quotes[q])].st = "sent" /\ quotes[q][Len(quotes[q])].kind = "standard" /\ Len(quotes[q]) > 0
    BY <1>2, <1>10 DEF ApproveQuote, LatestIs
  <2>2. ~AgreedRow(quotes[q])
    BY <1>2, <2>1 DEF AgreedRow, Standing
  <2>3. status[q] = "quoted" /\ CleanRow(quotes[q]) /\ status[q] \notin Agreed
    BY <1>2, <1>10, <2>2, MovesAre DEF ApproveQuote, RowOK, OpenStates, Agreed
  <2>4. ClientFits(Ruling(q, "approved", "approved"), status[q], quotes[q])
    BY <1>2, <2>1, <2>3, RulingFields DEF ClientFits
  <2> QED BY <1>3, <1>10, <2>4, RulingFields DEF ApproveQuote
<1> QED BY <1>4, <1>6, <1>7, <1>8, <1>9, <1>10

LEMMA InitDeal ==
  ASSUME NEW desk, NEW client
  PROVE  Init => DealInv(desk, client)
<1> SUFFICES ASSUME Init PROVE DealInv(desk, client)
  OBVIOUS
<1>1. \A s \in Sessions : sess[s].pc # "commit"
  BY NothingIs DEF Init
<1>2. ASSUME NEW q \in Reqs PROVE RowOK(status[q], quotes[q])
  <2>1. quotes[q] = IF status[q] \in Agreed THEN <<Signed>> ELSE <<>>
    BY DEF Init
  <2>2. CASE status[q] \in Agreed
    <3>1. quotes[q] = <<Signed>> /\ DOMAIN quotes[q] = {1} /\ quotes[q][1] = Signed
      BY <2>1, <2>2
    <3> QED BY <2>2, <3>1 DEF RowOK, AgreedRow, Agreed, OpenStates, Signed
  <2>3. CASE status[q] \notin Agreed
    BY <2>1, <2>3 DEF RowOK, CleanRow
  <2> QED BY <2>2, <2>3
<1> QED BY <1>1, <1>2 DEF DealInv, Fits

LEMMA PrepareDeal ==
  ASSUME NEW desk, NEW client, IInv, DealInv(desk, client), NEW s \in Sessions, NEW w, Prepare(s, w),
         FitsNow(desk, client, s, w)
  PROVE  DealInv(desk, client)'
<1>1. \A t \in Sessions : sess'[t] = IF t = s THEN w ELSE sess[t]
  BY DEF Prepare, IInv, SessionsOK
<1>2. status' = status /\ quotes' = quotes
  BY DEF Prepare
<1>3. \A t \in Sessions : Fits(desk, client, t, sess'[t], status'[sess'[t].req], quotes'[sess'[t].req])
  BY <1>1, <1>2 DEF DealInv, FitsNow
<1>4. \A q \in Reqs : RowOK(status'[q], quotes'[q])
  BY <1>2 DEF DealInv
<1> QED BY <1>3, <1>4 DEF DealInv, RowOK, CleanRow, AgreedRow, Standing, Fits, ClientFits, DeskFits

LEMMA ReadDeal ==
  ASSUME NEW desk, NEW client, OneDesk(desk, client), IInv, DealInv(desk, client), NEW s \in Sessions, Reads(s)
  PROVE  DealInv(desk, client)'
<1>1. CASE FindStale(s)
  <2>1. PICK w : Prepare(s, w) /\ w.pc = "expire"
    BY <1>1, JobPlans
  <2> QED BY <2>1, PrepareDeal DEF FitsNow, Fits
<1>2. CASE Abort(s)
  BY <1>2, NothingIs, PrepareDeal DEF Abort, FitsNow, Fits
<1> QED BY <1>1, <1>2, DeskReads, ClientReads, PrepareDeal DEF Reads

LEMMA CommitDeal ==
  ASSUME NEW desk, NEW client, OneDesk(desk, client), IInv, DealInv(desk, client), NEW s \in Sessions, Commit(s)
  PROVE  DealInv(desk, client)'
<1> DEFINE v == sess[s]
           r == v.req
<1>1. /\ v \in Requests /\ v.pc = "commit" /\ r \in Reqs /\ (v.nth # 0 => v.verdict # "none")
      /\ quotes[r] \in Seq(Quote) /\ status[r] \in Statuses
  BY DEF Commit, IInv, TablesOK, SessionsOK, WellFormed
<1>2. \A t \in Sessions : sess'[t] = IF t = s THEN Nothing ELSE sess[t]
  BY DEF Commit, IInv, SessionsOK
<1>3. /\ \A q \in Reqs : quotes'[q] = IF q = r THEN Written(quotes[q], v) ELSE quotes[q]
      /\ \A q \in Reqs : status'[q] = IF q = r THEN Moved(status[q], v) ELSE status[q]
  BY <1>1 DEF Commit, IInv, TablesOK, Written, Moved
<1>4. RowOK(status[r], quotes[r]) /\ Fits(desk, client, s, v, status[r], quotes[r])
  BY <1>1 DEF DealInv
<1>5. \A t \in Sessions : /\ Fits(desk, client, t, sess[t], status[sess[t].req], quotes[sess[t].req])
                          /\ sess[t] \in Requests /\ (sess[t].pc = "commit" => sess[t].req \in Reqs)
  BY DEF DealInv, IInv, SessionsOK, WellFormed
<1> HIDE DEF v, r
<1>6. /\ RowOK(Moved(status[r], v), Written(quotes[r], v))
      /\ \A t \in Sessions : t # s /\ sess[t].pc = "commit" /\ sess[t].req = r =>
           Fits(desk, client, t, sess[t], Moved(status[r], v), Written(quotes[r], v))
  <2>1. CASE s = client
    <3>1. ClientFits(v, status[r], quotes[r])
      BY <1>1, <1>4, <2>1 DEF Fits
    <3>2. /\ RowOK(Moved(status[r], v), Written(quotes[r], v))
          /\ \A w : DeskFits(w, status[r], quotes[r]) => DeskFits(w, Moved(status[r], v), Written(quotes[r], v))
      BY <1>1, <1>4, <3>1, ClientCommits
    <3> QED BY <1>5, <2>1, <3>2 DEF Fits
  <2>2. CASE s = desk
    <3>1. DeskFits(v, status[r], quotes[r])
      BY <1>1, <1>4, <2>2 DEF Fits
    <3>2. /\ RowOK(Moved(status[r], v), Written(quotes[r], v))
          /\ \A w \in Requests : ClientFits(w, status[r], quotes[r]) =>
               ClientFits(w, Moved(status[r], v), Written(quotes[r], v))
      BY <1>1, <1>4, <3>1, DeskCommits
    <3> QED BY <1>5, <2>2, <3>2 DEF Fits
  <2> QED BY <1>1, <1>4, <2>1, <2>2 DEF Fits
<1>7. \A q \in Reqs : RowOK(status'[q], quotes'[q])
  BY <1>3, <1>6 DEF DealInv
<1>8. ASSUME NEW t \in Sessions
      PROVE  Fits(desk, client, t, sess'[t], status'[sess'[t].req], quotes'[sess'[t].req])
  <2>1. CASE t = s
    BY <1>2, <2>1, NothingIs DEF Fits
  <2>2. CASE t # s /\ sess[t].pc # "commit"
    BY <1>2, <2>2 DEF Fits
  <2>3. CASE t # s /\ sess[t].pc = "commit"
    <3>1. sess'[t] = sess[t] /\ sess[t].req \in Reqs
      BY <1>2, <1>5, <2>3
    <3>2. CASE sess[t].req = r
      BY <1>3, <1>6, <2>3, <3>1, <3>2
    <3>3. CASE sess[t].req # r
      BY <1>3, <1>5, <3>1, <3>3
    <3> QED BY <3>2, <3>3
  <2> QED BY <2>1, <2>2, <2>3
<1> QED BY <1>7, <1>8 DEF DealInv, RowOK, CleanRow, AgreedRow, Standing, Fits, ClientFits, DeskFits

LEMMA ExpireRows ==
  ASSUME IInv, NEW s \in Sessions, ExpireStale(s), NEW q \in Reqs
  PROVE  /\ quotes'[q] \in Seq(Quote) /\ Len(quotes'[q]) = Len(quotes[q])
         /\ \A n \in 1..Len(quotes[q]) :
              /\ quotes'[q][n].kind = quotes[q][n].kind
              /\ quotes'[q][n].st = IF <<q, n>> \in sess[s].stale THEN "expired" ELSE quotes[q][n].st
<1> DEFINE Q == quotes[q]
           R == [n \in DOMAIN Q |-> IF <<q, n>> \in sess[s].stale THEN [Q[n] EXCEPT !.st = "expired"] ELSE Q[n]]
<1>1. quotes'[q] = R
  BY DEF ExpireStale
<1>2. Q \in Seq(Quote) /\ DOMAIN Q = 1..Len(Q) /\ Len(Q) \in Nat
  BY DEF IInv, TablesOK
<1> HIDE DEF Q
<1>3. \A n \in 1..Len(Q) : Q[n] \in Quote
  BY <1>2
<1>4. \A n \in 1..Len(Q) : /\ R[n] \in Quote /\ R[n].kind = Q[n].kind
                           /\ R[n].st = IF <<q, n>> \in sess[s].stale THEN "expired" ELSE Q[n].st
  BY <1>2, <1>3 DEF Quote
<1>5. R \in [1..Len(Q) -> Quote]
  BY <1>2, <1>4
<1>6. R \in Seq(Quote) /\ Len(R) = Len(Q)
  BY <1>2, <1>5
<1> QED BY <1>1, <1>4, <1>6 DEF Q

LEMMA ExpireDeal ==
  ASSUME NEW desk, NEW client, OneDesk(desk, client), IInv, DecidedInv(client), DealInv(desk, client),
         NEW s \in Sessions, ExpireStale(s)
  PROVE  DealInv(desk, client)'
<1>1. \A t \in Sessions : sess'[t] = IF t = s THEN Nothing ELSE sess[t]
  BY DEF ExpireStale, IInv, SessionsOK
<1>2. ASSUME NEW q \in Reqs
      PROVE  /\ RowOK(status'[q], quotes'[q])
             /\ \A w : DeskFits(w, status[q], quotes[q]) => DeskFits(w, status'[q], quotes'[q])
             /\ \A w \in Requests :
                  /\ ClientFits(w, status[q], quotes[q])
                  /\ w.nth # 0 /\ w.verdict = "approved" => quotes'[q][w.nth].st = quotes[q][w.nth].st
                  => ClientFits(w, status'[q], quotes'[q])
  <2>1. quotes[q] \in Seq(Quote) /\ quotes'[q] \in Seq(Quote) /\ status[q] \in Statuses
        /\ Len(quotes'[q]) = Len(quotes[q]) /\ RowOK(status[q], quotes[q])
    BY ExpireRows DEF IInv, TablesOK, DealInv
  <2>2. \A n \in 1..Len(quotes[q]) :
          /\ quotes'[q][n].kind = quotes[q][n].kind
          /\ quotes'[q][n].st = quotes[q][n].st \/ (quotes'[q][n].st = "expired" /\ quotes[q][n].st # "approved")
    <3>1. \A n \in 1..Len(quotes[q]) : <<q, n>> \in sess[s].stale => quotes[q][n].st # "approved"
      BY DEF ExpireStale, DecidedInv, StaleFits
    <3> QED BY <3>1, ExpireRows
  <2>3. status'[q] = status[q] \/ (status'[q] = "under_review" /\ status[q] \in {"submitted", "quoted"})
    BY MovesAre DEF ExpireStale
  <2> QED BY <2>1, <2>2, <2>3, JobCommits
<1>3. ASSUME NEW t \in Sessions, t # s, sess[t].pc = "commit"
      PROVE  Fits(desk, client, t, sess[t], status'[sess[t].req], quotes'[sess[t].req])
  <2>1. /\ sess[t] \in Requests /\ sess[t].req \in Reqs
        /\ Fits(desk, client, t, sess[t], status[sess[t].req], quotes[sess[t].req])
    BY <1>3 DEF DealInv, IInv, SessionsOK, WellFormed
  <2>2. sess[t].nth # 0 /\ sess[t].verdict = "approved" =>
          quotes'[sess[t].req][sess[t].nth].st = quotes[sess[t].req][sess[t].nth].st
    <3> SUFFICES ASSUME sess[t].nth # 0, sess[t].verdict = "approved"
                 PROVE  quotes'[sess[t].req][sess[t].nth].st = quotes[sess[t].req][sess[t].nth].st
      OBVIOUS
    <3>1. sess[t].nth \in DOMAIN quotes[sess[t].req] /\ ~Past(quotes[sess[t].req][sess[t].nth])
      BY <1>3 DEF DecidedInv, RulingFits
    <3>2. sess[t].nth \in 1..Len(quotes[sess[t].req]) /\ sess[t].nth \in Nat
      BY <2>1, <3>1 DEF IInv, TablesOK
    <3>3. <<sess[t].req, sess[t].nth>> \notin sess[s].stale
      BY <2>1, <3>1, <3>2 DEF ExpireStale, DecidedInv, StaleFits
    <3> QED BY <2>1, <3>2, <3>3, ExpireRows
  <2> QED BY <1>2, <2>1, <2>2 DEF Fits
<1>4. \A t \in Sessions : Fits(desk, client, t, sess'[t], status'[sess'[t].req], quotes'[sess'[t].req])
  BY <1>1, <1>3, NothingIs DEF Fits
<1> QED BY <1>2, <1>4 DEF DealInv, RowOK, CleanRow, AgreedRow, Standing, Fits, ClientFits, DeskFits

LEMMA StaffingDeal ==
  ASSUME NEW desk, NEW client, IInv, DealInv(desk, client), NEW q \in Reqs, StaffingMoves(q)
  PROVE  DealInv(desk, client)'
<1>1. /\ sess' = sess /\ quotes' = quotes
      /\ \A p \in Reqs : status'[p] = status[p]
                         \/ /\ status[p] \in {"approved", "workers_assigned"}
                            /\ status'[p] \in {"approved", "workers_assigned", "in_progress"}
  BY DEF StaffingMoves, IInv, TablesOK
<1>2. \A p \in Reqs : RowOK(status'[p], quotes'[p])
  BY <1>1 DEF DealInv, RowOK, Agreed, OpenStates
<1>3. ASSUME NEW t \in Sessions
      PROVE  Fits(desk, client, t, sess[t], status'[sess[t].req], quotes[sess[t].req])
  <2> SUFFICES ASSUME sess[t].pc = "commit"
               PROVE  Fits(desk, client, t, sess[t], status'[sess[t].req], quotes[sess[t].req])
    BY DEF Fits
  <2>1. sess[t].req \in Reqs /\ Fits(desk, client, t, sess[t], status[sess[t].req], quotes[sess[t].req])
    BY DEF DealInv, IInv, SessionsOK, WellFormed
  <2>2. PICK st : st = status[sess[t].req]
    OBVIOUS
  <2>3. PICK at : at = status'[sess[t].req]
    OBVIOUS
  <2>4. at = st \/ (st \in {"approved", "workers_assigned"} /\ at \in {"approved", "workers_assigned", "in_progress"})
    BY <1>1, <2>1, <2>2, <2>3
  <2>5. \A w, Q : (ClientFits(w, st, Q) => ClientFits(w, at, Q)) /\ (DeskFits(w, st, Q) => DeskFits(w, at, Q))
    BY <2>4 DEF ClientFits, DeskFits, Agreed
  <2> QED BY <2>1, <2>2, <2>3, <2>5 DEF Fits
<1> QED BY <1>1, <1>2, <1>3 DEF DealInv, RowOK, CleanRow, AgreedRow, Standing, Fits, ClientFits, DeskFits

LEMMA NextDeal ==
  ASSUME NEW desk, NEW client, OneDesk(desk, client)
  PROVE  IInv /\ DecidedInv(client) /\ DealInv(desk, client) /\ [Next]_quoteVars => DealInv(desk, client)'
<1> SUFFICES ASSUME IInv, DecidedInv(client), DealInv(desk, client), [Next]_quoteVars PROVE DealInv(desk, client)'
  OBVIOUS
<1>1. CASE NextDay \/ UNCHANGED quoteVars
  <2>1. UNCHANGED <<status, quotes, sess>>
    BY <1>1 DEF NextDay, quoteVars
  <2> QED BY <2>1 DEF DealInv, RowOK, CleanRow, AgreedRow, Standing, Fits, ClientFits, DeskFits
<1> QED BY <1>1, ReadDeal, CommitDeal, ExpireDeal, StaffingDeal DEF Next, Reads

(* Work that is approved, staffed, under way or done rests on exactly one  *)
(* approved standard quote with no other left to decide                    *)
(* (admin_requirements.py:234-246, client_requirements.py:468-485), if one *)
(* session runs the desk, one decides for the client, and no request spans *)
(* midnight.                                                               *)
THEOREM WorkStaysAgreed ==
  ASSUME NEW desk, NEW client, OneDesk(desk, client), ~SpansMidnight
  PROVE  Spec => []WorkIsAgreed
<1>1. OneClient(client)
  BY DEF OneDesk, OneClient
<1>2. Init => DecidedInv(client) /\ DealInv(desk, client)
  BY InitDecided, InitDeal
<1>3. IInv /\ DecidedInv(client) /\ [Next]_quoteVars => DecidedInv(client)'
  BY <1>1, NextDecided
<1>4. IInv /\ DecidedInv(client) /\ DealInv(desk, client) /\ [Next]_quoteVars => DealInv(desk, client)'
  BY NextDeal
<1>5. DealInv(desk, client) => WorkIsAgreed
  BY DEF DealInv, RowOK, AgreedRow, Standing, WorkIsAgreed
<1> QED BY <1>2, <1>3, <1>4, <1>5, InitIInv, NextIInv, PTL DEF Spec

-----------------------------------------------------------------------------
(* Invoices.                                                               *)
Holders == {"locked", "numbered"}

(* A request that holds an invoice holds a draft, and alone; one that      *)
(* holds a year's counter knows its next value, and is alone, too.         *)
ClerksOK ==
  /\ \A c \in Clerks : clerk[c].pc # "idle" => clerk[c].req \in Reqs
  /\ \A c \in Clerks : clerk[c].pc \in Holders =>
       clerk[c].year \in Years /\ invoices[clerk[c].req].at = "draft"
  /\ \A c \in Clerks : clerk[c].pc = "numbered" => clerk[c].no = counter[clerk[c].year] + 1
  /\ \A c, d \in Clerks :
       c # d /\ clerk[c].pc \in Holders /\ clerk[d].pc \in Holders => clerk[c].req # clerk[d].req
  /\ \A c, d \in Clerks :
       c # d /\ clerk[c].pc = "numbered" /\ clerk[d].pc = "numbered" => clerk[c].year # clerk[d].year

BillInv == BillTypeOK /\ today \in 1..MaxDay /\ ClerksOK /\ NumbersConsecutive

LEMMA InitBillInv == BillingInit => BillInv
<1> SUFFICES ASSUME BillingInit PROVE BillInv
  OBVIOUS
<1>1. BillTypeOK
  BY DEF BillingInit, BillInit, BillTypeOK, Unbilled, NoTask
<1>2. today \in 1..MaxDay
  BY QuotesAssumption DEF BillingInit, Init
<1>3. ClerksOK
  BY DEF BillingInit, BillInit, ClerksOK, NoTask, Holders
<1>4. \A y \in Years : Issued(y) = {} /\ counter[y] = 0
  BY DEF BillingInit, BillInit, Issued, Unbilled
<1>5. NumbersConsecutive
  BY <1>4 DEF NumbersConsecutive
<1> QED BY <1>1, <1>2, <1>3, <1>5 DEF BillInv

(* A request that begins, changes its mind or ends without a commit.       *)
LEMMA TaskStep ==
  ASSUME BillInv, NEW c \in Clerks,
         NEW task \in [pc : {"idle", "draft", "locked", "numbered"}, req : Reqs \cup {"none"},
                       year : Years \cup {0}, no : Nat],
         Take(c, task), UNCHANGED <<invoices, counter, quoteVars>>,
         task.pc # "idle" => task.req \in Reqs,
         task.pc \in Holders => /\ task.year \in Years /\ invoices[task.req].at = "draft"
                                /\ \A d \in Clerks \ {c} : clerk[d].pc \in Holders => clerk[d].req # task.req,
         task.pc = "numbered" => /\ task.no = counter[task.year] + 1
                                 /\ \A d \in Clerks \ {c} : clerk[d].pc = "numbered" => clerk[d].year # task.year
  PROVE  BillInv'
<1>1. \A d \in Clerks : clerk'[d] = IF d = c THEN task ELSE clerk[d]
  BY DEF Take, BillInv, BillTypeOK
<1>2. BillTypeOK'
  BY DEF Take, BillInv, BillTypeOK
<1>3. ClerksOK'
  BY <1>1 DEF BillInv, ClerksOK
<1>4. NumbersConsecutive' /\ (today \in 1..MaxDay)'
  BY DEF BillInv, NumbersConsecutive, Issued, quoteVars
<1> QED BY <1>2, <1>3, <1>4 DEF BillInv

LEMMA InsertStep ==
  ASSUME BillInv, NEW c \in Clerks, InsertDraft(c), UNCHANGED quoteVars
  PROVE  BillInv'
<1> DEFINE r == clerk[c].req
<1>1. r \in Reqs /\ invoices[r].at = "none"
  BY DEF InsertDraft, BillInv, ClerksOK
<1>2. invoices' = [invoices EXCEPT ![r].at = "draft"] /\ counter' = counter
  BY DEF InsertDraft
<1>3. \A d \in Clerks : clerk'[d] = IF d = c THEN NoTask ELSE clerk[d]
  BY DEF InsertDraft, Take, BillInv, BillTypeOK
<1>4. BillTypeOK'
  BY <1>1, <1>2 DEF InsertDraft, Take, BillInv, BillTypeOK, NoTask
<1>5. \A q \in Reqs : /\ invoices[q].at = "draft" => invoices'[q].at = "draft"
                      /\ invoices'[q].at = "issued" <=> invoices[q].at = "issued"
                      /\ invoices'[q].year = invoices[q].year /\ invoices'[q].no = invoices[q].no
  BY <1>1, <1>2 DEF BillInv, BillTypeOK
<1>6. ClerksOK'
  BY <1>2, <1>3, <1>5 DEF BillInv, ClerksOK, NoTask, Holders
<1>7. \A y \in Years : Issued(y)' = Issued(y)
  BY <1>5 DEF Issued
<1>8. NumbersConsecutive'
  <2> SUFFICES ASSUME NEW y \in Years
               PROVE  /\ {invoices'[q].no : q \in Issued(y)'} = 1..counter'[y]
                      /\ \A p, q \in Issued(y)' : invoices'[p].no = invoices'[q].no => p = q
    BY DEF NumbersConsecutive
  <2>1. \A q \in Issued(y) : q \in Reqs /\ invoices'[q].no = invoices[q].no
    BY <1>5 DEF Issued
  <2> QED BY <2>1, <1>2, <1>7 DEF BillInv, NumbersConsecutive
<1>9. (today \in 1..MaxDay)'
  BY DEF BillInv, quoteVars
<1> QED BY <1>4, <1>6, <1>8, <1>9 DEF BillInv

LEMMA IssueStep ==
  ASSUME BillInv, NEW c \in Clerks, IssueInvoice(c), UNCHANGED quoteVars
  PROVE  BillInv'
<1> DEFINE r == clerk[c].req
           z == clerk[c].year
           n == clerk[c].no
<1>1. /\ r \in Reqs /\ z \in Years /\ invoices[r].at = "draft" /\ n = counter[z] + 1
      /\ counter \in [Years -> Nat]
  BY DEF IssueInvoice, BillInv, ClerksOK, Holders, BillTypeOK
<1>2. /\ invoices' = [invoices EXCEPT ![r] = [at |-> "issued", year |-> z, no |-> n]]
      /\ counter' = [counter EXCEPT ![z] = n]
  BY DEF IssueInvoice
<1>3. \A d \in Clerks : clerk'[d] = IF d = c THEN NoTask ELSE clerk[d]
  BY DEF IssueInvoice, Take, BillInv, BillTypeOK
<1>4. BillTypeOK'
  BY <1>1, <1>2 DEF IssueInvoice, Take, BillInv, BillTypeOK, NoTask
<1>5. \A q \in Reqs : invoices'[q] = IF q = r THEN [at |-> "issued", year |-> z, no |-> n] ELSE invoices[q]
  BY <1>1, <1>2 DEF BillInv, BillTypeOK
<1>6. \A y \in Years : counter'[y] = IF y = z THEN n ELSE counter[y]
  BY <1>1, <1>2
<1>7. ClerksOK'
  <2>1. \A d \in Clerks \ {c} : clerk[d].pc \in Holders => clerk[d].req # r
    BY DEF IssueInvoice, BillInv, ClerksOK, Holders
  <2>2. \A d \in Clerks \ {c} : clerk[d].pc = "numbered" => clerk[d].year # z
    BY DEF IssueInvoice, BillInv, ClerksOK
  <2> QED BY <1>3, <1>5, <1>6, <2>1, <2>2 DEF BillInv, ClerksOK, NoTask, Holders
<1>8. NumbersConsecutive'
  <2> SUFFICES ASSUME NEW y \in Years
               PROVE  /\ {invoices'[q].no : q \in Issued(y)'} = 1..counter'[y]
                      /\ \A p, q \in Issued(y)' : invoices'[p].no = invoices'[q].no => p = q
    BY DEF NumbersConsecutive
  <2>1. /\ {invoices[q].no : q \in Issued(y)} = 1..counter[y]
        /\ \A p, q \in Issued(y) : invoices[p].no = invoices[q].no => p = q
    BY DEF BillInv, NumbersConsecutive
  <2>2. \A q \in Issued(y) : q \in Reqs /\ q # r /\ invoices'[q] = invoices[q]
    BY <1>1, <1>5 DEF Issued
  <2>3. CASE y = z
    <3>1. Issued(y)' = Issued(y) \cup {r}
      BY <1>1, <1>5, <2>3 DEF Issued
    <3>2. invoices'[r].no = counter[y] + 1 /\ counter'[y] = counter[y] + 1 /\ counter[y] \in Nat
      BY <1>1, <1>5, <1>6, <2>3
    <3>3. 1..(counter[y] + 1) = (1..counter[y]) \cup {counter[y] + 1}
      BY <3>2
    <3>4. {invoices'[q].no : q \in Issued(y)'} = {invoices[q].no : q \in Issued(y)} \cup {invoices'[r].no}
      BY <2>2, <3>1
    <3>5. \A q \in Issued(y) : invoices'[q].no \in 1..counter[y]
      BY <2>1, <2>2
    <3>6. \A q \in Issued(y) : invoices'[q].no # invoices'[r].no
      BY <3>2, <3>5
    <3>7. \A p, q \in Issued(y)' : invoices'[p].no = invoices'[q].no => p = q
      BY <2>1, <2>2, <3>1, <3>6
    <3> QED BY <2>1, <3>2, <3>3, <3>4, <3>7
  <2>4. CASE y # z
    <3>1. Issued(y)' = Issued(y)
      BY <1>1, <1>5, <2>4 DEF Issued
    <3> QED BY <1>6, <2>1, <2>2, <2>4, <3>1
  <2> QED BY <2>3, <2>4
<1>9. (today \in 1..MaxDay)'
  BY DEF BillInv, quoteVars
<1> QED BY <1>4, <1>7, <1>8, <1>9 DEF BillInv

LEMMA BillNextStep ==
  ASSUME BillInv, BillNext, UNCHANGED quoteVars
  PROVE  BillInv'
<1> USE DEF Holders
<1> PICK c \in Clerks :
      \/ \E q \in Reqs : GenerateInvoice(c, q) \/ LockInvoice(c, q)
      \/ InsertDraft(c) \/ AllocateNumber(c) \/ IssueInvoice(c) \/ DropTask(c)
  BY DEF BillNext
<1>1. ASSUME NEW q \in Reqs, GenerateInvoice(c, q) PROVE BillInv'
  <2> DEFINE task == [NoTask EXCEPT !.pc = "draft", !.req = q]
  <2>1. task.pc = "draft" /\ task.req = q /\ task.year = 0 /\ task.no = 0
        /\ task \in [pc : {"idle", "draft", "locked", "numbered"}, req : Reqs \cup {"none"},
                     year : Years \cup {0}, no : Nat]
    BY DEF NoTask
  <2>2. Take(c, task) /\ UNCHANGED <<invoices, counter>>
    BY <1>1 DEF GenerateInvoice
  <2> HIDE DEF task
  <2> QED BY <2>1, <2>2, TaskStep
<1>2. ASSUME NEW q \in Reqs, LockInvoice(c, q) PROVE BillInv'
  <2> DEFINE task == [NoTask EXCEPT !.pc = "locked", !.req = q, !.year = YearOf[today]]
  <2>1. YearOf[today] \in Years
    BY DEF Years, BillInv
  <2>2. task.pc = "locked" /\ task.req = q /\ task.year \in Years
        /\ task \in [pc : {"idle", "draft", "locked", "numbered"}, req : Reqs \cup {"none"},
                     year : Years \cup {0}, no : Nat]
    BY <2>1 DEF NoTask
  <2>3. Take(c, task) /\ UNCHANGED <<invoices, counter>> /\ invoices[q].at = "draft"
        /\ \A d \in Clerks : clerk[d].pc \in {"locked", "numbered"} => clerk[d].req # q
    BY <1>2 DEF LockInvoice
  <2> HIDE DEF task
  <2> QED BY <2>2, <2>3, TaskStep
<1>3. CASE InsertDraft(c)
  BY <1>3, InsertStep
<1>4. CASE AllocateNumber(c)
  <2> DEFINE task == [clerk[c] EXCEPT !.pc = "numbered", !.no = counter[clerk[c].year] + 1]
  <2>1. clerk[c].pc = "locked" /\ CounterFree(clerk[c].year) /\ clerk[c].year \in Years
        /\ clerk[c].req \in Reqs /\ invoices[clerk[c].req].at = "draft"
        /\ clerk[c] \in [pc : {"idle", "draft", "locked", "numbered"}, req : Reqs \cup {"none"},
                         year : Years \cup {0}, no : Nat]
    BY <1>4 DEF AllocateNumber, BillInv, ClerksOK, BillTypeOK
  <2>2. counter[clerk[c].year] + 1 \in Nat
    BY <2>1 DEF BillInv, BillTypeOK
  <2>3. /\ task.pc = "numbered" /\ task.req = clerk[c].req /\ task.year = clerk[c].year
        /\ task.no = counter[clerk[c].year] + 1
        /\ task \in [pc : {"idle", "draft", "locked", "numbered"}, req : Reqs \cup {"none"},
                     year : Years \cup {0}, no : Nat]
    BY <2>1, <2>2
  <2>4. Take(c, task) /\ UNCHANGED <<invoices, counter>>
    BY <1>4 DEF AllocateNumber
  <2>5. \A d \in Clerks \ {c} : clerk[d].pc \in Holders => clerk[d].req # clerk[c].req
    BY <2>1 DEF BillInv, ClerksOK
  <2>6. \A d \in Clerks \ {c} : clerk[d].pc = "numbered" => clerk[d].year # clerk[c].year
    BY <2>1 DEF CounterFree
  <2> HIDE DEF task
  <2> QED BY <2>1, <2>3, <2>4, <2>5, <2>6, TaskStep
<1>5. CASE IssueInvoice(c)
  BY <1>5, IssueStep
<1>6. CASE DropTask(c)
  <2>1. NoTask.pc = "idle" /\ NoTask \in [pc : {"idle", "draft", "locked", "numbered"}, req : Reqs \cup {"none"},
                                          year : Years \cup {0}, no : Nat]
    BY DEF NoTask
  <2>2. Take(c, NoTask) /\ UNCHANGED <<invoices, counter>>
    BY <1>6 DEF DropTask
  <2> QED BY <2>1, <2>2, TaskStep
<1> QED BY <1>1, <1>2, <1>3, <1>4, <1>5, <1>6

(* The negotiation moves the day and nothing else of this.                 *)
LEMMA QuoteStep ==
  ASSUME BillInv, Next, UNCHANGED billVars
  PROVE  BillInv'
<1>1. (today \in 1..MaxDay)'
  <2>1. today' = today \/ NextDay
    BY DEF Next, MarkReview, RejectRequirement, CancelRequirement, CompleteRequirement, RequestExtension,
           SendQuote, WithdrawRequirement, ApproveTooLate, DecideExtension, ApproveQuote, RejectQuote,
           FindStale, ExpireStale, Commit, Abort, Prepare, StaffingMoves
  <2>2. CASE NextDay
    BY <2>2, QuotesAssumption DEF NextDay, BillInv
  <2> QED BY <2>1, <2>2 DEF BillInv
<1>2. (BillTypeOK /\ ClerksOK /\ NumbersConsecutive)'
  BY DEF BillInv, billVars, BillTypeOK, ClerksOK, NumbersConsecutive, Issued
<1> QED BY <1>1, <1>2 DEF BillInv

LEMMA NextBillInv == BillInv /\ [BillingNext]_vars => BillInv'
<1> SUFFICES ASSUME BillInv, [BillingNext]_vars PROVE BillInv'
  OBVIOUS
<1>1. CASE Next /\ UNCHANGED billVars
  BY <1>1, QuoteStep
<1>2. CASE BillNext /\ UNCHANGED quoteVars
  BY <1>2, BillNextStep
<1>3. CASE UNCHANGED vars
  BY <1>3 DEF vars, quoteVars, billVars, BillInv, BillTypeOK, ClerksOK, NumbersConsecutive, Issued
<1> QED BY <1>1, <1>2, <1>3 DEF BillingNext

(* Type correctness of the invoices, the counters and the requests.        *)
THEOREM InvoicesTypeCorrect == BillingSpec => []BillTypeOK
<1>1. BillInv => BillTypeOK
  BY DEF BillInv
<1> QED BY <1>1, InitBillInv, NextBillInv, PTL DEF BillingSpec

(* The invoices issued in a financial year carry the numbers 1 to n, each  *)
(* once (gst_invoice_service.py:156-180).                                  *)
THEOREM NumbersHaveNoGap == BillingSpec => []NumbersConsecutive
<1>1. BillInv => NumbersConsecutive
  BY DEF BillInv
<1> QED BY <1>1, InitBillInv, NextBillInv, PTL DEF BillingSpec

-----------------------------------------------------------------------------
(* The book of a year: what is issued in it, each at its number.           *)
LEMMA InTurn ==
  ASSUME NEW k \in Nat, NEW e \in [1..k -> Reqs]
  PROVE  e \in Seq(Reqs) /\ Len(e) = k /\ DOMAIN e = 1..k
<1>1. e \in Seq(Reqs)
  OBVIOUS
<1>2. Len(e) = k
  BY <1>1, LenProperties
<1> QED BY <1>1, <1>2

LEMMA EntriesAre ==
  ASSUME BillInv, NEW y \in Years
  PROVE  /\ Entries(y) \in Seq(Reqs) /\ Len(Entries(y)) = counter[y] /\ DOMAIN Entries(y) = 1..counter[y]
         /\ \A n \in 1..counter[y] : Entries(y)[n] \in Issued(y) /\ invoices[Entries(y)[n]].no = n
         /\ \A q \in Issued(y) : invoices[q].no \in 1..counter[y] /\ Entries(y)[invoices[q].no] = q
<1>1. Issued(y) \in SUBSET Reqs /\ counter[y] \in Nat
  BY DEF Issued, BillInv, BillTypeOK
<1>2. /\ Numbers(y) = 1..counter[y]
      /\ \A p, q \in Issued(y) : invoices[p].no = invoices[q].no => p = q
  BY DEF BillInv, NumbersConsecutive, Numbers
<1>3. /\ \A q \in Issued(y) : invoices[q].no \in 1..counter[y]
      /\ \A n \in 1..counter[y] : \E q \in Issued(y) : invoices[q].no = n
  BY <1>2 DEF Numbers
<1>4. /\ Entries(y) = [n \in 1..counter[y] |-> Entries(y)[n]]
      /\ \A n \in 1..counter[y] : Entries(y)[n] = CHOOSE q \in Issued(y) : invoices[q].no = n
  BY <1>2 DEF Entries
<1>5. \A n \in 1..counter[y] : Entries(y)[n] \in Issued(y) /\ invoices[Entries(y)[n]].no = n
  BY <1>3, <1>4
<1>6. Entries(y) \in [1..counter[y] -> Reqs]
  <2>1. \A n \in 1..counter[y] : Entries(y)[n] \in Reqs
    BY <1>1, <1>5
  <2> QED BY <1>4, <2>1
<1>7. /\ Entries(y) \in Seq(Reqs)
      /\ Len(Entries(y)) = counter[y]
      /\ DOMAIN Entries(y) = 1..counter[y]
  BY <1>1, <1>6, InTurn
<1>8. ASSUME NEW q \in Issued(y) PROVE Entries(y)[invoices[q].no] = q
  <2>1. invoices[q].no \in 1..counter[y]
    BY <1>3
  <2>2. /\ Entries(y)[invoices[q].no] \in Issued(y)
        /\ invoices[Entries(y)[invoices[q].no]].no = invoices[q].no
    BY <1>5, <2>1
  <2> QED BY <1>2, <2>2
<1> QED BY <1>3, <1>5, <1>7, <1>8

LEMMA EntriesNext ==
  ASSUME BillInv', NEW y \in Years
  PROVE  /\ Entries(y)' \in Seq(Reqs) /\ Len(Entries(y)') = counter'[y] /\ DOMAIN Entries(y)' = 1..counter'[y]
         /\ \A n \in 1..counter'[y] : Entries(y)'[n] \in Issued(y)' /\ invoices'[Entries(y)'[n]].no = n
         /\ \A q \in Issued(y)' : invoices'[q].no \in 1..counter'[y] /\ Entries(y)'[invoices'[q].no] = q
<1>1. Issued(y)' \in SUBSET Reqs /\ counter'[y] \in Nat
  BY DEF Issued, BillInv, BillTypeOK
<1>2. /\ Numbers(y)' = 1..counter'[y]
      /\ \A p, q \in Issued(y)' : invoices'[p].no = invoices'[q].no => p = q
  BY DEF BillInv, NumbersConsecutive, Numbers
<1>3. /\ \A q \in Issued(y)' : invoices'[q].no \in 1..counter'[y]
      /\ \A n \in 1..counter'[y] : \E q \in Issued(y)' : invoices'[q].no = n
  BY <1>2 DEF Numbers
<1>4. /\ Entries(y)' = [n \in 1..counter'[y] |-> Entries(y)'[n]]
      /\ \A n \in 1..counter'[y] : Entries(y)'[n] = CHOOSE q \in Issued(y)' : invoices'[q].no = n
  BY <1>2 DEF Entries
<1>5. \A n \in 1..counter'[y] : Entries(y)'[n] \in Issued(y)' /\ invoices'[Entries(y)'[n]].no = n
  BY <1>3, <1>4
<1>6. Entries(y)' \in [1..counter'[y] -> Reqs]
  <2>1. \A n \in 1..counter'[y] : Entries(y)'[n] \in Reqs
    BY <1>1, <1>5
  <2> QED BY <1>4, <2>1
<1>7. /\ Entries(y)' \in Seq(Reqs)
      /\ Len(Entries(y)') = counter'[y]
      /\ DOMAIN Entries(y)' = 1..counter'[y]
  BY <1>1, <1>6, InTurn
<1>8. ASSUME NEW q \in Issued(y)' PROVE Entries(y)'[invoices'[q].no] = q
  <2>1. invoices'[q].no \in 1..counter'[y]
    BY <1>3
  <2>2. /\ Entries(y)'[invoices'[q].no] \in Issued(y)'
        /\ invoices'[Entries(y)'[invoices'[q].no]].no = invoices'[q].no
    BY <1>5, <2>1
  <2> QED BY <1>2, <2>2
<1> QED BY <1>3, <1>5, <1>7, <1>8

LEMMA BookStarts == BillingInit => Book!Init
<1> SUFFICES ASSUME BillingInit PROVE Book!Init
  OBVIOUS
<1>1. Drafted = {}
  BY DEF BillingInit, BillInit, Unbilled, Drafted
<1>2. ASSUME NEW y \in Years PROVE Entries(y) = << >>
  <2>1. counter[y] = 0
    BY DEF BillingInit, BillInit
  <2> QED BY <2>1, InitBillInv, EntriesAre, EmptySeq
<1> QED BY <1>1, <1>2 DEF Book!Init

(* An insertion is a draft of a requirement not entered, an issue an entry *)
(* behind the last, and the rest leaves the book alone.                    *)
LEMMA InsertDrafts ==
  ASSUME BillInv, NEW c \in Clerks, InsertDraft(c)
  PROVE  Book!Next
<1> DEFINE r == clerk[c].req
<1>0. /\ r \in Reqs /\ invoices[r].at = "none" /\ invoices' = [invoices EXCEPT ![r].at = "draft"]
      /\ invoices \in [Reqs -> [at : {"none", "draft", "issued"}, year : Years \cup {0}, no : Nat]]
  BY DEF InsertDraft, BillInv, ClerksOK, BillTypeOK
<1> HIDE DEF r
<1>1. /\ invoices'[r].at = "draft"
      /\ \A q \in Reqs : invoices'[q].no = invoices[q].no /\ invoices'[q].year = invoices[q].year
      /\ \A q \in Reqs : q # r => invoices'[q].at = invoices[q].at
  BY <1>0
<1>2. ASSUME NEW y \in Years PROVE Entries(y)' = Entries(y)
  <2>1. Issued(y)' = Issued(y)
    BY <1>0, <1>1 DEF Issued
  <2>2. \A q \in Issued(y) : invoices'[q].no = invoices[q].no
    BY <1>0, <1>1 DEF Issued
  <2>3. Numbers(y)' = Numbers(y)
    BY <2>1, <2>2 DEF Numbers
  <2>4. \A n : (CHOOSE q \in Issued(y) : invoices'[q].no = n) = (CHOOSE q \in Issued(y) : invoices[q].no = n)
    BY <2>2
  <2> QED BY <2>1, <2>3, <2>4 DEF Entries
<1>3. Drafted' = Drafted \cup {r} /\ r \notin Drafted
  BY <1>0, <1>1 DEF Drafted
<1>4. ASSUME NEW y \in Years, NEW n \in DOMAIN Entries(y) PROVE Entries(y)[n] # r
  <2>1. Entries(y)[n] \in Issued(y)
    BY <1>4, EntriesAre
  <2> QED BY <1>0, <2>1 DEF Issued
<1>5. Book!Draft(r)
  BY <1>2, <1>3, <1>4 DEF Book!Draft, Book!Entered
<1> QED BY <1>0, <1>5 DEF Book!Next

LEMMA IssueEnters ==
  ASSUME BillInv, BillInv', NEW c \in Clerks, IssueInvoice(c)
  PROVE  Book!Next
<1>1. PICK r \in Reqs, z \in Years :
        /\ invoices[r].at = "draft" /\ counter \in [Years -> Nat]
        /\ invoices \in [Reqs -> [at : {"none", "draft", "issued"}, year : Years \cup {0}, no : Nat]]
        /\ invoices' = [invoices EXCEPT ![r] = [at |-> "issued", year |-> z, no |-> counter[z] + 1]]
        /\ counter' = [counter EXCEPT ![z] = counter[z] + 1]
  <2> DEFINE r == clerk[c].req
             z == clerk[c].year
  <2>1. /\ r \in Reqs /\ z \in Years /\ invoices[r].at = "draft" /\ counter \in [Years -> Nat]
        /\ invoices \in [Reqs -> [at : {"none", "draft", "issued"}, year : Years \cup {0}, no : Nat]]
        /\ invoices' = [invoices EXCEPT ![r] = [at |-> "issued", year |-> z, no |-> counter[z] + 1]]
        /\ counter' = [counter EXCEPT ![z] = counter[z] + 1]
    BY DEF IssueInvoice, BillInv, ClerksOK, Holders, BillTypeOK
  <2> HIDE DEF r, z
  <2> QED BY <2>1
<1>2. /\ invoices'[r].at = "issued" /\ invoices'[r].year = z /\ invoices'[r].no = counter[z] + 1
      /\ \A q \in Reqs : q # r => invoices'[q] = invoices[q]
      /\ counter'[z] = counter[z] + 1 /\ \A y \in Years : y # z => counter'[y] = counter[y]
  BY <1>1
<1>3. /\ Issued(z)' = Issued(z) \cup {r}
      /\ \A y \in Years : y # z => Issued(y)' = Issued(y)
      /\ \A y \in Years : \A q \in Issued(y) : q # r /\ invoices'[q] = invoices[q]
  <2>1. \A q \in Reqs : q \in Issued(z)' <=> q \in Issued(z) \/ q = r
    BY <1>1, <1>2 DEF Issued
  <2>2. \A y \in Years : y # z => \A q \in Reqs : q \in Issued(y)' <=> q \in Issued(y)
    BY <1>1, <1>2 DEF Issued
  <2>3. \A y \in Years : \A q \in Issued(y) : q # r /\ invoices'[q] = invoices[q]
    BY <1>1, <1>2 DEF Issued
  <2>4. \A y \in Years : Issued(y) \subseteq Reqs /\ Issued(y)' \subseteq Reqs
    BY DEF Issued
  <2>5. Issued(z)' = Issued(z) \cup {r}
    BY <1>1, <2>1, <2>4
  <2> QED BY <2>2, <2>3, <2>4, <2>5
<1>4. Entries(z)' = Append(Entries(z), r)
  <2>1. /\ Entries(z) \in Seq(Reqs) /\ Len(Entries(z)) = counter[z]
        /\ \A n \in 1..counter[z] : Entries(z)[n] \in Issued(z) /\ invoices[Entries(z)[n]].no = n
    BY <1>1, EntriesAre
  <2>2. /\ Entries(z)' \in Seq(Reqs) /\ Len(Entries(z)') = counter[z] + 1
        /\ \A q \in Issued(z)' : Entries(z)'[invoices'[q].no] = q
    BY <1>1, <1>2, EntriesNext
  <2>3. /\ Append(Entries(z), r) \in Seq(Reqs) /\ Len(Append(Entries(z), r)) = counter[z] + 1
        /\ Append(Entries(z), r)[counter[z] + 1] = r
        /\ \A n \in 1..counter[z] : Append(Entries(z), r)[n] = Entries(z)[n]
    BY <1>1, <2>1, AppendProperties
  <2>4. \A n \in 1..counter[z] : Entries(z)'[n] = Entries(z)[n]
    BY <1>3, <2>1, <2>2
  <2>5. Entries(z)'[counter[z] + 1] = r
    BY <1>2, <1>3, <2>2
  <2>6. \A n \in 1..(counter[z] + 1) : Entries(z)'[n] = Append(Entries(z), r)[n]
    <3>1. \A n \in 1..(counter[z] + 1) : n = counter[z] + 1 \/ n \in 1..counter[z]
      BY <1>1
    <3> QED BY <2>3, <2>4, <2>5, <3>1
  <2> QED BY <2>2, <2>3, <2>6, SeqEqual
<1>5. ASSUME NEW y \in Years, y # z PROVE Entries(y)' = Entries(y)
  <2>1. Issued(y)' = Issued(y) /\ \A q \in Issued(y) : invoices'[q] = invoices[q]
    BY <1>3, <1>5
  <2>2. Numbers(y)' = Numbers(y)
    BY <2>1 DEF Numbers
  <2>3. \A n : (CHOOSE q \in Issued(y) : invoices'[q].no = n) = (CHOOSE q \in Issued(y) : invoices[q].no = n)
    BY <2>1
  <2> QED BY <2>1, <2>2, <2>3 DEF Entries
<1>6. Drafted' = Drafted \ {r} /\ r \in Drafted
  BY <1>1, <1>2 DEF Drafted
<1>7. [y \in Years |-> Entries(y)]' = [[y \in Years |-> Entries(y)] EXCEPT ![z] = Append(@, r)]
  BY <1>1, <1>4, <1>5
<1>8. Book!Issue(r, z)
  BY <1>6, <1>7 DEF Book!Issue
<1> QED BY <1>1, <1>8 DEF Book!Next

LEMMA BookStands == ASSUME UNCHANGED <<invoices, counter>> PROVE UNCHANGED Book!vars
BY DEF Book!vars, Drafted, Entries, Numbers, Issued

(* The endpoints implement InvoiceBook: however many requests issue at     *)
(* once and whichever die, an issue is an entry behind the last of its     *)
(* year, and no entry is struck out, moved or made twice.                  *)
THEOREM IssuesAreEntries == BillingSpec => BookIsKept
<1>1. BillInv /\ BillInv' /\ [BillingNext]_vars => [Book!Next]_(Book!vars)
  <2> SUFFICES ASSUME BillInv, BillInv', [BillingNext]_vars PROVE [Book!Next]_(Book!vars)
    OBVIOUS
  <2>1. CASE UNCHANGED billVars
    BY <2>1, BookStands DEF billVars
  <2>2. CASE UNCHANGED vars
    BY <2>2, BookStands DEF vars, billVars
  <2>3. ASSUME NEW c \in Clerks,
               \/ \E q \in Reqs : GenerateInvoice(c, q) \/ LockInvoice(c, q)
               \/ AllocateNumber(c) \/ DropTask(c)
        PROVE  [Book!Next]_(Book!vars)
    <3>1. UNCHANGED <<invoices, counter>>
      BY <2>3 DEF GenerateInvoice, LockInvoice, AllocateNumber, DropTask
    <3> QED BY <3>1, BookStands
  <2>4. ASSUME NEW c \in Clerks, InsertDraft(c) PROVE [Book!Next]_(Book!vars)
    BY <2>4, InsertDrafts
  <2>5. ASSUME NEW c \in Clerks, IssueInvoice(c) PROVE [Book!Next]_(Book!vars)
    BY <2>5, IssueEnters
  <2> QED BY <2>1, <2>2, <2>3, <2>4, <2>5 DEF BillingNext, BillNext
<1> QED BY <1>1, BookStarts, InitBillInv, NextBillInv, PTL DEF BillingSpec, BookIsKept, Book!Spec

-----------------------------------------------------------------------------
(* What is invoiced, or about to be, was completed.                        *)
BilledInv ==
  /\ BilledIsCompleted
  /\ \A c \in Clerks : clerk[c].pc # "idle" => status[clerk[c].req] = "completed"

(* The end of the work is final: the plans that fit leave it alone.        *)
LEMMA CompletedStays ==
  ASSUME NEW desk, NEW client, IInv, DealInv(desk, client), [Next]_quoteVars, NEW q \in Reqs, status[q] = "completed"
  PROVE  status'[q] = "completed"
<1>1. ASSUME NEW s \in Sessions, Commit(s) PROVE status'[q] = "completed"
  <2>1. sess[s].req \in Reqs /\ Fits(desk, client, s, sess[s], status[sess[s].req], quotes[sess[s].req])
        /\ sess[s].pc = "commit"
    BY <1>1 DEF Commit, IInv, SessionsOK, WellFormed, DealInv
  <2>2. sess[s].req = q => sess[s].to = "same"
    BY <2>1 DEF Fits, ClientFits, DeskFits, Agreed
  <2> QED BY <1>1, <2>1, <2>2 DEF Commit, IInv, TablesOK
<1>2. ASSUME NEW s \in Sessions, ExpireStale(s) PROVE status'[q] = "completed"
  BY <1>2, MovesAre DEF ExpireStale
<1>3. ASSUME NEW s \in Sessions, Reads(s) PROVE status'[q] = "completed"
  BY <1>3, ReadStep DEF Prepare
<1>4. ASSUME NEW p \in Reqs, StaffingMoves(p) PROVE status'[q] = "completed"
  BY <1>4 DEF StaffingMoves, IInv, TablesOK
<1>5. CASE NextDay \/ UNCHANGED quoteVars
  BY <1>5 DEF NextDay, quoteVars
<1> QED BY <1>1, <1>2, <1>3, <1>4, <1>5 DEF Next, Reads

LEMMA BillNextBilled ==
  ASSUME BillInv, BilledInv, BillNext, UNCHANGED quoteVars
  PROVE  BilledInv'
<1>1. status' = status
  BY DEF quoteVars
<1> PICK c \in Clerks :
      \/ \E q \in Reqs : GenerateInvoice(c, q) \/ LockInvoice(c, q)
      \/ InsertDraft(c) \/ AllocateNumber(c) \/ IssueInvoice(c) \/ DropTask(c)
  BY DEF BillNext
<1>2. \A task : Take(c, task) => \A d \in Clerks : clerk'[d] = IF d = c THEN task ELSE clerk[d]
  BY DEF Take, BillInv, BillTypeOK
<1>3. NoTask.pc = "idle"
  BY DEF NoTask
<1>4. ASSUME NEW q \in Reqs, GenerateInvoice(c, q) \/ LockInvoice(c, q) PROVE BilledInv'
  <2>1. /\ [NoTask EXCEPT !.pc = "draft", !.req = q].req = q
        /\ [NoTask EXCEPT !.pc = "locked", !.req = q, !.year = YearOf[today]].req = q
    BY DEF NoTask
  <2>2. PICK task : Take(c, task) /\ task.req = q
    BY <1>4, <2>1 DEF GenerateInvoice, LockInvoice
  <2>3. invoices' = invoices /\ status[q] = "completed"
    BY <1>4 DEF GenerateInvoice, LockInvoice, BilledInv, BilledIsCompleted
  <2> QED BY <1>1, <1>2, <2>2, <2>3 DEF BilledInv, BilledIsCompleted
<1>5. CASE InsertDraft(c) \/ IssueInvoice(c)
  <2>1. clerk[c].pc # "idle" /\ Take(c, NoTask) /\ clerk[c].req \in Reqs
    BY <1>5 DEF InsertDraft, IssueInvoice, BillInv, ClerksOK
  <2>2. \A q \in Reqs : invoices'[q].at # "none" => invoices[q].at # "none" \/ q = clerk[c].req
    BY <1>5, <2>1 DEF InsertDraft, IssueInvoice, BillInv, BillTypeOK
  <2> QED BY <1>1, <1>2, <1>3, <2>1, <2>2 DEF BilledInv, BilledIsCompleted
<1>6. CASE AllocateNumber(c)
  <2>1. PICK task : Take(c, task) /\ task.req = clerk[c].req /\ clerk[c].pc # "idle"
    BY <1>6 DEF AllocateNumber, BillInv, BillTypeOK
  <2>2. invoices' = invoices
    BY <1>6 DEF AllocateNumber
  <2> QED BY <1>1, <1>2, <2>1, <2>2 DEF BilledInv, BilledIsCompleted
<1>7. CASE DropTask(c)
  BY <1>1, <1>2, <1>3, <1>7 DEF DropTask, BilledInv, BilledIsCompleted
<1> QED BY <1>4, <1>5, <1>6, <1>7

(* The billing is a refinement of the negotiation: each of its steps is    *)
(* one of Quotes or leaves it alone.                                       *)
LEMMA BillingStep == [BillingNext]_vars => [Next]_quoteVars
BY DEF BillingNext, vars

(* CANCELLED and REJECTED requirements must not generate invoices          *)
(* (docs/BUSINESS_RULES.md:56): what is invoiced was completed, and stays, *)
(* for any number of clerks and whenever they read, if one session runs    *)
(* the desk, one decides for the client, and no request spans midnight.    *)
THEOREM OnlyCompletedIsBilled ==
  ASSUME NEW desk, NEW client, OneDesk(desk, client), ~SpansMidnight
  PROVE  BillingSpec => []BilledIsCompleted
<1> DEFINE Deal == IInv /\ DecidedInv(client) /\ DealInv(desk, client)
<1>1. BillingInit => Deal /\ BillInv /\ BilledInv
  BY InitIInv, InitDecided, InitDeal, InitBillInv
     DEF BillingInit, BillInit, BilledInv, BilledIsCompleted, Unbilled, NoTask
<1>2. OneClient(client)
  BY DEF OneDesk, OneClient
<1>3. Deal /\ [BillingNext]_vars => Deal'
  BY <1>2, BillingStep, NextIInv, NextDecided, NextDeal
<1>4. Deal /\ BillInv /\ BilledInv /\ [BillingNext]_vars => BilledInv'
  <2> SUFFICES ASSUME Deal, BillInv, BilledInv, [BillingNext]_vars PROVE BilledInv'
    OBVIOUS
  <2>1. CASE BillNext /\ UNCHANGED quoteVars
    BY <2>1, BillNextBilled
  <2>2. CASE UNCHANGED billVars
    <3>1. \A q \in Reqs : status[q] = "completed" => status'[q] = "completed"
      BY BillingStep, CompletedStays
    <3>2. \A c \in Clerks : clerk[c].pc # "idle" => clerk[c].req \in Reqs
      BY DEF BillInv, ClerksOK
    <3> QED BY <2>2, <3>1, <3>2 DEF billVars, BilledInv, BilledIsCompleted
  <2> QED BY <2>1, <2>2 DEF BillingNext, vars, billVars
<1>5. BilledInv => BilledIsCompleted
  BY DEF BilledInv
<1> HIDE DEF Deal
<1> QED BY <1>1, <1>3, <1>4, <1>5, NextBillInv, PTL DEF BillingSpec
=============================================================================
