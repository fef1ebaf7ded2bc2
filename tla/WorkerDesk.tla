----------------------------- MODULE WorkerDesk -----------------------------
(***************************************************************************)
(* The worker's phone: a shift on the home screen or on its own page        *)
(* (worker/screens/HomeScreen.tsx, JobDetailScreen.tsx), an open job on the *)
(* board (JobsBoardScreen.tsx), and the worker's availability               *)
(* (AvailabilityScreen.tsx, ProfileScreen.tsx).                             *)
(***************************************************************************)
EXTENDS ScreenHandlers

ShiftDays == 1..2
Standings == {"none", "noshow", "in", "out"}     \* of one day's attendance record

(* A shift of one or two days.  `near' the site, and the server asks for a  *)
(* `selfie' only where storage is set up; `alone' is the last open          *)
(* assignment of its requirement, `begun' a requirement in progress.        *)
ShiftRows ==
  [about : {"shift"}, screen : {"home", "detail"},
   post : {"assigned", "accepted", "active", "declined", "gone"},
   today : ShiftDays, last : ShiftDays, day : [ShiftDays -> Standings],
   near : BOOLEAN, selfie : BOOLEAN, alone : BOOLEAN, begun : BOOLEAN]

OpeningRows ==
  [about : {"opening"}, open : BOOLEAN, mine : BOOLEAN, interest : {"none", "interested", "withdrawn"}]

Weekdays     == {"mon", "tue"}
DateStatuses == {"available", "unavailable", "leave"}

AvailabilityRows ==
  [about : {"availability"}, screen : {"calendar", "profile"}, days : SUBSET Weekdays,
   mark : DateStatuses \cup {"none"}, free : BOOLEAN]

WorkerRows == ShiftRows \cup OpeningRows \cup AvailabilityRows

NewShift(screen, selfie) ==
  [about |-> "shift", screen |-> screen, post |-> "assigned", today |-> 1, last |-> 2,
   day |-> [d \in ShiftDays |-> "none"], near |-> TRUE, selfie |-> selfie, alone |-> FALSE, begun |-> FALSE]

Started(shift, standing) ==
  [shift EXCEPT !.post = "active", !.begun = TRUE, !.day[1] = standing]

NewShifts == {NewShift("home", FALSE), NewShift("home", TRUE), NewShift("detail", TRUE)}

WorkerStarts ==
  NewShifts
    \cup {[s EXCEPT !.post = "accepted"] : s \in NewShifts}
    \cup (UNION {{Started(s, standing) : standing \in {"in", "out"}} : s \in NewShifts})
    \cup {[about |-> "opening", open |-> TRUE, mine |-> FALSE, interest |-> "none"]}
    \cup {[about |-> "availability", screen |-> s, days |-> {}, mark |-> "none", free |-> TRUE] :
            s \in {"calendar", "profile"}}

WorkerQueries(row) ==
  CASE row.about = "shift"        -> [assignments |-> {"post", "last"}, attendance |-> {"day", "today"}]
    [] row.about = "opening"      -> [jobs |-> {"open", "mine", "interest"}]
    [] row.about = "availability" -> IF row.screen = "calendar" THEN [profile |-> {"days"}, records |-> {"mark"}]
                                                                ELSE [profile |-> {"free"}]

WorkerShows(row) == DOMAIN WorkerQueries(row)

-----------------------------------------------------------------------------
(* A shift.  The home screen's check-in sends a position and no selfie.     *)
HasCheckedIn(row)  == row.day[row.today] \in {"in", "out"}
HasCheckedOut(row) == row.day[row.today] = "out"
Covered(row)       == row.today <= row.last

CanCheckIn(row)  == Covered(row) /\ row.post = "accepted" /\ ~HasCheckedIn(row)
CanCheckOut(row) == Covered(row) /\ (row.post = "active" \/ HasCheckedIn(row)) /\ ~HasCheckedOut(row)

OnShift(op, arg) == Handler(op, arg, {"assignments", "attendance"}, TRUE)

DecideAssignment == {OnShift(action, "none") : action \in {"accept", "decline"}}
ConfirmCheckIn(screen) == OnShift("check_in", IF screen = "detail" THEN "selfie" ELSE "position")
CheckOut         == OnShift("check_out", "none")

ShiftOffers(row) ==
  When(row.post = "assigned", DecideAssignment)
    \cup When(CanCheckIn(row), {ConfirmCheckIn(row.screen)})
    \cup When(row.post # "assigned" /\ CanCheckOut(row), {CheckOut})

(* An open job: the card's button goes by the interest shown.               *)
Listed(row) == row.open /\ ~row.mine

ToggleInterest(row) ==
  Handler(IF row.interest = "interested" THEN "withdraw" ELSE "express", "none", {"jobs"}, TRUE)

(* Availability.  Each answer carries what the screen then shows.           *)
ToggleDayPreference(row, d) ==
  Handler("prefer", IF d \in row.days THEN row.days \ {d} ELSE row.days \cup {d}, {"profile"}, TRUE)
SetDateStatus(status)   == Handler("mark", status, {"records"}, TRUE)
SetAvailable(row) == Handler("free", ~row.free, {"profile"}, TRUE)

AvailabilityOffers(row) ==
  IF row.screen = "profile" THEN {SetAvailable(row)}
  ELSE {ToggleDayPreference(row, d) : d \in Weekdays} \cup {SetDateStatus(s) : s \in DateStatuses}

WorkerOffers(row) ==
  CASE row.about = "shift"        -> ShiftOffers(row)
    [] row.about = "opening"      -> When(Listed(row), {ToggleInterest(row)})
    [] row.about = "availability" -> AvailabilityOffers(row)

-----------------------------------------------------------------------------
(* The server.  A check-in activates the assignment and its requirement; a  *)
(* check-out closes the latest open record, of whatever day.                *)
Unclosed(row) == {d \in ShiftDays : row.day[d] = "in"}

WorkerAccepts(row, h) ==
  CASE h.op = "accept"    -> row.post = "assigned"
    [] h.op = "decline"   -> row.post = "assigned" /\ ~(row.alone /\ row.begun)
    [] h.op = "check_in"  -> /\ row.post \in {"assigned", "accepted", "active"}
                             /\ Covered(row) /\ row.near /\ (row.selfie => h.arg = "selfie")
                             /\ row.day[row.today] = "none"
    [] h.op = "check_out" -> row.post = "active" /\ Unclosed(row) # {}
    [] h.op = "express"   -> row.open /\ ~row.mine
    [] h.op = "withdraw"  -> row.interest # "none"
    [] h.op \in {"prefer", "mark", "free"} -> TRUE

WorkerAfter(row, h) ==
  CASE h.op = "accept"    -> [row EXCEPT !.post = "accepted"]
    [] h.op = "decline"   -> [row EXCEPT !.post = "declined"]
    [] h.op = "check_in"  -> [row EXCEPT !.post = "active", !.begun = TRUE, !.day[row.today] = "in"]
    [] h.op = "check_out" -> [row EXCEPT !.day[CHOOSE d \in Unclosed(row) : \A e \in Unclosed(row) : e <= d] = "out"]
    [] h.op = "express"   -> [row EXCEPT !.interest = "interested"]
    [] h.op = "withdraw"  -> [row EXCEPT !.interest = "withdrawn"]
    [] h.op = "prefer"    -> [row EXCEPT !.days = h.arg]
    [] h.op = "mark"      -> [row EXCEPT !.mark = h.arg, !.free = (h.arg = "available")]
    [] h.op = "free"      -> [row EXCEPT !.free = h.arg]

(* Midnight, the walk to and from the site, the crew around the worker, the *)
(* first check-in of another, an admin taking the worker off the job or     *)
(* closing a day, the no-show the scheduler notes for a day not begun.      *)
ShiftMoves(row) ==
  {[row EXCEPT !.today = 2], [row EXCEPT !.near = ~@]}
    \cup When(row.post \in {"assigned", "accepted", "active"},
              {[row EXCEPT !.post = "gone"], [row EXCEPT !.alone = ~@], [row EXCEPT !.begun = TRUE]})
    \cup {[row EXCEPT !.day[d] = "out"] : d \in Unclosed(row)}
    \cup When(row.begun /\ row.post \in {"accepted", "active"} /\ Covered(row) /\ row.day[row.today] = "none",
              {[row EXCEPT !.day[row.today] = "noshow"]})

WorkerMoves(row) ==
  CASE row.about = "shift"   -> ShiftMoves(row)
    [] row.about = "opening" -> {[row EXCEPT !.open = ~@], [row EXCEPT !.mine = ~@]}
    [] OTHER                 -> {}

-----------------------------------------------------------------------------
(* Refused though the screen shows all there is to know of it: a check-in   *)
(* away from the site, without the selfie the home screen never takes or on *)
(* a day noted as a no-show; a check-out with nothing open, which is all an *)
(* active assignment offers from its second day on, or after the worker was *)
(* taken off the job; the last assignment of a begun job declined.          *)
WorkerLoose(row) ==
  When(row.about = "shift",
       When(~row.near \/ (row.selfie /\ row.screen = "home") \/ row.day[row.today] = "noshow", {"check_in"})
         \cup When(row.post # "active" \/ Unclosed(row) = {}, {"check_out"})
         \cup When(row.alone /\ row.begun, {"decline"}))

(* Loads that fail without a word.                                          *)
WorkerQuiet(row) ==
  When(row.about = "shift", {"attendance"} \cup When(row.screen = "home", {"assignments"}))

(* The answer brings the row: no load follows that could fail.              *)
WorkerReloads(row) == IF row.about = "availability" THEN {} ELSE WorkerShows(row)
=============================================================================
