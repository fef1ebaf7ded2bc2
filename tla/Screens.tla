------------------------------ MODULE Screens -------------------------------
(***************************************************************************)
(* One screen at work, of the admin's web application or of a phone: it     *)
(* fetches its queries, offers handlers for the copies it shows, sends one  *)
(* request at a time and refetches what the handler names, while the        *)
(* server's rows move under it.  The tables of the desks say what each      *)
(* screen offers and what the server makes of it.                           *)
(***************************************************************************)
EXTENDS RequirementDesk, StaffingDesk, MoneyDesk, PeopleDesk, CareDesk, WorkerDesk, ClientDesk

CONSTANTS
  Desks,      \* the desks checked, of "job", "board", "money", "people", "care", "worker", "client"
  MaxTurns    \* bound on the requests the page sends and the moves others make

ASSUME DesksAssumption ==
  /\ Desks \subseteq {"job", "board", "money", "people", "care", "worker", "client"}
  /\ MaxTurns \in Nat

VARIABLES
  desk,  \* the desk at work, "none" while no page is open
  rows,  \* the server's rows
  page   \* what the browser holds of them, and the request under way

screen == <<desk, rows, page>>

-----------------------------------------------------------------------------
(* The desks' tables.                                                       *)
Starts(d) ==
  CASE d = "job"    -> JobStarts
    [] d = "board"  -> BoardStarts
    [] d = "money"  -> MoneyStarts
    [] d = "people" -> PeopleStarts
    [] d = "care"   -> CareStarts
    [] d = "worker" -> WorkerStarts
    [] d = "client" -> ClientStarts

RowsOf(d) ==
  CASE d = "job"    -> JobRows
    [] d = "board"  -> BoardRows
    [] d = "money"  -> MoneyRows
    [] d = "people" -> PeopleRows
    [] d = "care"   -> CareRows
    [] d = "worker" -> WorkerRows
    [] d = "client" -> ClientRows

Queries(row) ==
  CASE desk = "job"    -> JobQueries
    [] desk = "board"  -> BoardQueries
    [] desk = "money"  -> MoneyQueries(row)
    [] desk = "people" -> PeopleQueries(row)
    [] desk = "care"   -> CareQueries(row)
    [] desk = "worker" -> WorkerQueries(row)
    [] desk = "client" -> ClientQueries(row)

Offers(copy) ==
  CASE desk = "job"    -> JobOffers(copy)
    [] desk = "board"  -> BoardOffers(copy)
    [] desk = "money"  -> MoneyOffers(copy)
    [] desk = "people" -> PeopleOffers(copy)
    [] desk = "care"   -> CareOffers(copy)
    [] desk = "worker" -> WorkerOffers(copy)
    [] desk = "client" -> ClientOffers(copy)

Shows(copy) ==
  CASE desk = "job"    -> JobShows(copy)
    [] desk = "board"  -> BoardShows(copy)
    [] desk = "money"  -> MoneyShows(copy)
    [] desk = "people" -> PeopleShows(copy)
    [] desk = "care"   -> CareShows(copy)
    [] desk = "worker" -> WorkerShows(copy)
    [] desk = "client" -> ClientShows(copy)

Accepts(row, h) ==
  CASE desk = "job"    -> JobAccepts(row, h)
    [] desk = "board"  -> BoardAccepts(row, h)
    [] desk = "money"  -> MoneyAccepts(row, h)
    [] desk = "people" -> PeopleAccepts(row, h)
    [] desk = "care"   -> CareAccepts(row, h)
    [] desk = "worker" -> WorkerAccepts(row, h)
    [] desk = "client" -> ClientAccepts(row, h)

After(row, h) ==
  CASE desk = "job"    -> JobAfter(row, h)
    [] desk = "board"  -> BoardAfter(row, h)
    [] desk = "money"  -> MoneyAfter(row, h)
    [] desk = "people" -> PeopleAfter(row, h)
    [] desk = "care"   -> CareAfter(row, h)
    [] desk = "worker" -> WorkerAfter(row, h)
    [] desk = "client" -> ClientAfter(row, h)

Refused(row, h) ==
  CASE desk = "board"  -> BoardRefused(row, h)
    [] desk = "client" -> ClientRefused(row, h)
    [] OTHER           -> row

Moved(row) ==
  CASE desk = "job"    -> JobMoves(row)
    [] desk = "board"  -> BoardMoves(row)
    [] desk = "money"  -> MoneyMoves(row)
    [] desk = "people" -> PeopleMoves(row)
    [] desk = "care"   -> CareMoves(row)
    [] desk = "worker" -> WorkerMoves(row)
    [] desk = "client" -> ClientMoves(row)

Loose(row) ==
  CASE desk = "job"    -> JobLoose(row)
    [] desk = "board"  -> BoardLoose(row)
    [] desk = "money"  -> MoneyLoose(row)
    [] desk = "people" -> PeopleLoose(row)
    [] desk = "care"   -> CareLoose(row)
    [] desk = "worker" -> WorkerLoose(row)
    [] desk = "client" -> ClientLoose(row)

Missed(op) ==
  CASE desk = "job"    -> {}
    [] desk = "board"  -> BoardMissed(op)
    [] desk = "money"  -> MoneyMissed(op)
    [] desk = "people" -> PeopleMissed(op)
    [] desk = "care"   -> CareMissed(op)
    [] OTHER           -> {}

Silent == JobSilent \cup PeopleSilent

LeftToServer(row, h) ==
  \/ h.op \in Loose(row)
  \/ desk = "board" /\ LeftTwice(row, h)
  \/ desk = "client" /\ TooLarge(h)

(* The loads that may fail for good, a console's query after a second try.  *)
GivesUp(copy) ==
  CASE desk = "worker" -> WorkerReloads(copy)
    [] desk = "client" -> ClientReloads(copy)
    [] OTHER           -> Shows(copy)

(* Those that fail without a word, the old copy left in place or blanked.   *)
Quiet(row) ==
  CASE desk = "job"    -> JobQuiet
    [] desk = "board"  -> BoardQuiet
    [] desk = "money"  -> {}
    [] desk = "people" -> PeopleQuiet(row)
    [] desk = "care"   -> CareQuiet(row)
    [] desk = "worker" -> WorkerQuiet(row)
    [] desk = "client" -> ClientQuiet(row)

Blank(row) == IF desk = "client" THEN ClientBlank(row) ELSE << >>

(* On the console the error of the query the page is about takes the place  *)
(* of the whole page.                                                       *)
WholePage == IF desk \in {"worker", "client"} THEN {} ELSE {"detail", "complaint"}

-----------------------------------------------------------------------------
(* `seen' are the copies, `due' the queries to be fetched again, `ask' the  *)
(* request under way, `behind' the queries the page's own operations        *)
(* changed, without a failure told, and that were not fetched since, `lost' *)
(* when their answer never came.                                            *)
NoAsk == [h |-> NoHandler, at |-> "none"]

Opened(row, turns) == [seen |-> row, due |-> {}, ask |-> NoAsk, behind |-> {}, turns |-> turns]

AllQueries == DOMAIN Queries(rows)

ScreenTypeOK ==
  desk # "none" =>
    /\ rows \in RowsOf(desk) /\ page.seen \in RowsOf(desk)
    /\ page.due \subseteq AllQueries
    /\ page.ask.at \in {"none", "asked", "ok", "refused"}
    /\ page.ask.at = "none" <=> page.ask.h = NoHandler
    /\ {b.query : b \in page.behind} \subseteq AllQueries
    /\ page.turns \in 0..MaxTurns

ScreenInit ==
  /\ desk \in Desks
  /\ rows \in Starts(desk)
  /\ page = Opened(rows, 0)

(* A query shows what the server holds.                                     *)
InStep(q) == Part(page.seen, Queries(rows)[q]) = Part(rows, Queries(rows)[q])
Fresh     == \A q \in AllQueries : InStep(q)

Changed(before, after) ==
  {q \in DOMAIN Queries(before) : Part(before, Queries(before)[q]) # Part(after, Queries(before)[q])}

-----------------------------------------------------------------------------
Submit ==
  /\ page.ask.at = "none" /\ page.turns < MaxTurns
  /\ \E h \in Offers(page.seen) :
       page' = [page EXCEPT !.ask = [h |-> h, at |-> "asked"], !.turns = @ + 1]
  /\ UNCHANGED <<desk, rows>>

ServeAsk ==
  /\ page.ask.at = "asked" /\ Accepts(rows, page.ask.h)
  /\ rows' = After(rows, page.ask.h)
  /\ page' = [page EXCEPT !.ask.at = "ok",
                          !.behind = @ \cup [op : {page.ask.h.op}, query : Changed(rows, rows'), lost : {FALSE}]]
  /\ UNCHANGED desk

RefuseAsk ==
  /\ page.ask.at = "asked" /\ ~Accepts(rows, page.ask.h)
  /\ rows' = Refused(rows, page.ask.h)
  /\ page' = [page EXCEPT !.ask.at = "refused"]
  /\ UNCHANGED desk

LoseRequest ==
  /\ page.ask.at = "asked"
  /\ page' = [page EXCEPT !.ask.at = "refused"]
  /\ UNCHANGED <<desk, rows>>

Succeed ==
  /\ page.ask.at = "ok"
  /\ page' = [page EXCEPT !.ask = NoAsk, !.due = @ \cup page.ask.h.refetch]
  /\ UNCHANGED <<desk, rows>>

(* A refusal arrives, or the answer is lost: an operation that tells of its *)
(* failure leaves the user to look again.                                   *)
Fail ==
  /\ page.ask.at \in {"ok", "refused"}
  /\ page' = [page EXCEPT !.ask = NoAsk,
                          !.due = IF page.ask.h.always THEN @ \cup page.ask.h.refetch ELSE @,
                          !.behind = {b \in @ : b.op # page.ask.h.op}
                             \cup When(~page.ask.h.told,
                                       {[b EXCEPT !.lost = TRUE] : b \in {c \in @ : c.op = page.ask.h.op}})]
  /\ UNCHANGED <<desk, rows>>

Fetch(q) ==
  /\ q \in page.due \cap Shows(page.seen)
  /\ page' = [page EXCEPT !.seen = Patched(@, Part(rows, Queries(rows)[q])),
                          !.due = @ \ {q},
                          !.behind = {b \in @ : b.query # q}]
  /\ UNCHANGED <<desk, rows>>

LoseFetch(q) ==
  /\ q \in page.due \cap GivesUp(page.seen)
  /\ IF q \in Quiet(rows)
     THEN page' = [page EXCEPT !.seen = Patched(@, Blank(rows)),
                               !.due = @ \ {q},
                               !.behind = {[b EXCEPT !.lost = b.lost \/ b.query = q] : b \in page.behind}]
     ELSE page' = [page EXCEPT !.due = @ \ {q},
                               !.behind = {b \in @ : b.query # q /\ q \notin WholePage}]
  /\ UNCHANGED <<desk, rows>>

Revisit ==
  /\ page.ask.at = "none" /\ ~Fresh
  /\ page' = Opened(rows, page.turns)
  /\ UNCHANGED <<desk, rows>>

(* The other apps, the scheduler and the other desks, or the same account   *)
(* or another admin on a second machine.                                    *)
Elsewhere(after) ==
  /\ page.turns < MaxTurns
  /\ after # rows
  /\ rows' = after
  /\ page' = [page EXCEPT !.turns = @ + 1]
  /\ UNCHANGED desk

OthersMove == \E after \in Moved(rows) : Elsewhere(after)
OtherUser == \E h \in Offers(rows) : Accepts(rows, h) /\ Elsewhere(After(rows, h))

ScreenNext ==
  /\ desk # "none"
  /\ \/ Submit \/ ServeAsk \/ RefuseAsk \/ LoseRequest \/ Succeed \/ Fail \/ Revisit
     \/ \E q \in AllQueries : Fetch(q) \/ LoseFetch(q)
     \/ OthersMove \/ OtherUser

-----------------------------------------------------------------------------
(* What a page offers while all it shows is current, the server takes,      *)
(* except what the page leaves to the server to check.                      *)
OffersAccepted ==
  desk # "none" /\ Fresh =>
    \A h \in Offers(page.seen) :
      LeftToServer(rows, h) \/ Accepts(rows, h)

(* Once a request is over and its fetches too, the page shows what it       *)
(* changed, or has told of a failure: in every query it shows but those the *)
(* handler is known to leave, and for every operation and load that tells   *)
(* of its failure at all.                                                   *)
ToldOrShown ==
  desk # "none" /\ page.ask.at = "none" /\ page.due \cap Shows(page.seen) = {}
    => \A b \in page.behind :
         b.query \in Shows(page.seen) =>
           \/ b.query \in Missed(b.op)
           \/ b.lost /\ (b.op \in Silent \/ b.query \in Quiet(rows))
=============================================================================
