---------------------------- MODULE StaffingDesk ----------------------------
(***************************************************************************)
(* The middle of a requirement's page: the coverage calendar, from which an *)
(* admin assigns a worker to the days selected                              *)
(* (features/assignments/coverage-calendar.tsx), and the list of the        *)
(* assignments, where each can be moved or given to another worker          *)
(* (requirement-assignments-list.tsx, update-assignment-status.tsx).        *)
(***************************************************************************)
EXTENDS ScreenHandlers

Staff    == {"w1", "w2"}
WorkDays == {1, 2}
Needed   == 1              \* workers a day

Open     == {"assigned", "accepted", "active"}
Excluded == {"declined", "cancelled", "replaced"}
Freeing  == Excluded \cup {"completed"}

(* An assignment per worker and day, the latest; `unpaid' while the advance *)
(* the quote asks for is not covered; `free' the workers marked available.  *)
BoardRows == [status : {"approved", "workers_assigned", "in_progress"}, unpaid : BOOLEAN,
              post : [Staff -> [WorkDays -> Open \cup Freeing \cup {"none"}]], free : SUBSET Staff]

NoPosts == [w \in Staff |-> [d \in WorkDays |-> "none"]]
Empty   == [status |-> "approved", unpaid |-> FALSE, post |-> NoPosts, free |-> Staff]

BoardStarts ==
  {Empty, [Empty EXCEPT !.unpaid = TRUE],
   [Empty EXCEPT !.status = "workers_assigned", !.post["w1"][1] = "accepted", !.free = {"w2"}],
   [Empty EXCEPT !.status = "workers_assigned", !.post["w1"] = <<"assigned", "accepted">>, !.free = {"w1", "w2"}]}

BoardQueries == [detail |-> {"status", "unpaid"}, board |-> {"post"}, matches |-> {"free"}]

Covering(board, d) == {w \in Staff : board.post[w][d] \notin Excluded \cup {"none"}}
OpenDays(board, w) == {d \in WorkDays : board.post[w][d] \in Open}
Posts(board)       == {p \in Staff \X WorkDays : board.post[p[1]][p[2]] # "none"}

-----------------------------------------------------------------------------
(* The calendar.  Days are selected one by one; the last one clicked hides  *)
(* the workers who already cover it.  A full day can be selected too, and a *)
(* conflict with this requirement does not keep a worker off the panel.     *)
CanAssign(board) == board.status \in {"approved", "workers_assigned"} /\ ~board.unpaid

CalendarPanel(board, focus) ==
  When(CanAssign(board), board.free \ Covering(board, focus))

HandleAssignWorker(w, days) ==
  HandlerAlways("assign", [worker |-> w, days |-> days], {"board", "matches"})

CalendarOffers(board) ==
  UNION {{HandleAssignWorker(w, days) : w \in UNION {CalendarPanel(board, focus) : focus \in days}} :
           days \in (SUBSET WorkDays) \ {{}}}

(* The list.  The status of a row is a select of every status, whatever the *)
(* present one.                                                             *)
HandleChange(p, to) == Handler("status", [post |-> p, to |-> to], {"board"}, TRUE)

ReplaceReasons == {"short", "long"}

HandleReplaceSubmit(p, w) ==
  {Handler("replace", [post |-> p, worker |-> w, reason |-> r], {"board", "matches"}, TRUE) :
     r \in ReplaceReasons \ {"short"}}

(* The dialog lists those free of any conflict, this requirement included.  *)
ReplaceDialog(board) == {w \in board.free : OpenDays(board, w) = {}}

RowOffers(board, p) ==
  {HandleChange(p, to) : to \in (Open \cup Freeing) \ {board.post[p[1]][p[2]]}}
    \cup When(board.post[p[1]][p[2]] \in Open,
              UNION {HandleReplaceSubmit(p, w) : w \in ReplaceDialog(board)})

ListOffers(board) == UNION {RowOffers(board, p) : p \in Posts(board)}

BoardOffers(board) == CalendarOffers(board) \cup ListOffers(board)
BoardShows(board)  == {"detail", "board"}

-----------------------------------------------------------------------------
(* The server.                                                              *)
PostMoves ==
  [assigned  |-> {"accepted", "declined", "cancelled", "replaced"},
   accepted  |-> {"active", "cancelled", "replaced"},
   active    |-> {"completed", "cancelled", "replaced"},
   completed |-> {}, declined |-> {}, cancelled |-> {}, replaced |-> {}]

(* One post of createAssignment: a worker for a day.                        *)
TakesDay(board, w, d) ==
  /\ board.status \in {"approved", "workers_assigned"} /\ ~board.unpaid
  /\ Cardinality({v \in Staff : d \in OpenDays(board, v)}) < Needed
  /\ w \in board.free
  /\ w \notin Covering(board, d)

AssignDay(board, w, d) ==
  IF TakesDay(board, w, d)
  THEN [board EXCEPT !.status = "workers_assigned", !.post[w][d] = "assigned", !.free = @ \ {w}]
  ELSE board

(* The days of one assignment are sent in order, each whatever became of    *)
(* the ones before.                                                         *)
AssignDays(board, w, days) ==
  LET one == IF 1 \in days THEN AssignDay(board, w, 1) ELSE board
  IN  IF 2 \in days THEN AssignDay(one, w, 2) ELSE one

AllTaken(board, w, days) ==
  \A d \in days : AssignDays(board, w, days).post[w][d] = "assigned" /\ w \notin Covering(board, d)

StatusTaken(board, w, d, to) ==
  /\ to \in PostMoves[board.post[w][d]]
  /\ to = "declined" /\ UNION {OpenDays(board, v) : v \in Staff} = {d} => board.status = "workers_assigned"

StatusAfter(board, w, d, to) ==
  LET moved == [board EXCEPT !.post[w][d] = to, !.free = IF to \in Freeing THEN @ \cup {w} ELSE @]
  IN  IF to = "declined" /\ \A v \in Staff : OpenDays(moved, v) = {}
      THEN [moved EXCEPT !.status = "approved"]
      ELSE moved

(* A second assignment of the incoming worker, whatever its status, breaks  *)
(* the query for one.                                                       *)
ReplaceTaken(board, p, w) ==
  /\ board.post[p[1]][p[2]] \in Open
  /\ Cardinality({d \in WorkDays : board.post[w][d] # "none"}) <= 1
  /\ OpenDays(board, w) = {}
  /\ w \in board.free

BoardAccepts(board, h) ==
  CASE h.op = "assign"  -> AllTaken(board, h.arg.worker, h.arg.days)
    [] h.op = "status"  -> StatusTaken(board, h.arg.post[1], h.arg.post[2], h.arg.to)
    [] h.op = "replace" -> ReplaceTaken(board, h.arg.post, h.arg.worker)

BoardAfter(board, h) ==
  CASE h.op = "status"  -> StatusAfter(board, h.arg.post[1], h.arg.post[2], h.arg.to)
    [] h.op = "replace" -> [board EXCEPT !.post[h.arg.post[1]][h.arg.post[2]] = "replaced",
                                         !.post[h.arg.worker][h.arg.post[2]] = "assigned",
                                         !.free = (@ \cup {h.arg.post[1]}) \ {h.arg.worker}]
    [] h.op = "assign"  -> AssignDays(board, h.arg.worker, h.arg.days)

(* A refused assignment may have put the worker on some of the days.        *)
BoardRefused(board, h) ==
  IF h.op = "assign" THEN AssignDays(board, h.arg.worker, h.arg.days) ELSE board

(* The workers answer and check in, the advance is paid, and the people     *)
(* desk marks a worker available.                                           *)
BoardMoves(board) ==
  (UNION {{StatusAfter(board, p[1], p[2], to) : to \in {"accepted", "declined"}} :
            p \in {q \in Posts(board) : board.post[q[1]][q[2]] = "assigned"}})
    \cup {[board EXCEPT !.post[p[1]][p[2]] = "active", !.status = "in_progress"] :
            p \in {q \in Posts(board) : board.post[q[1]][q[2]] = "accepted"}}
    \cup {[board EXCEPT !.free = @ \cup {w}] : w \in Staff}
    \cup {[board EXCEPT !.unpaid = FALSE]}

-----------------------------------------------------------------------------
(* Offered without a look at what the server will check: a status the present one does not  *)
(* lead to, a day that is full, a second day for a worker whom the first    *)
(* day occupies, and a worker who left this job twice.                      *)
BoardLoose(board) == {"status", "assign"}
LeftTwice(board, h) ==
  h.op = "replace" /\ Cardinality({d \in WorkDays : board.post[h.arg.worker][d] # "none"}) > 1

(* The first assignment, and the last refusal, move the requirement, which  *)
(* the calendar and the list do not fetch.                                  *)
BoardMissed(op) == When(op \in {"assign", "status"}, {"detail"})

(* The list tells of a load that fails; the calendar, whose copy of the     *)
(* same days is a load of its own, and the matches do not.                  *)
BoardQuiet == {"board", "matches"}
=============================================================================
