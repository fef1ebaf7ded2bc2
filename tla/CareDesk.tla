------------------------------ MODULE CareDesk ------------------------------
(***************************************************************************)
(* What an admin settles case by case: a day's attendance                   *)
(* (app/(dashboard)/attendance/page.tsx, features/attendance), a complaint  *)
(* and the replacement of its worker (features/complaints,                  *)
(* app/(dashboard)/replacements/page.tsx), a dispute                        *)
(* (app/(dashboard)/disputes), a privacy request                            *)
(* (app/(dashboard)/privacy-requests/page.tsx) and the hours a complaint    *)
(* may take (app/(dashboard)/sla/page.tsx).                                 *)
(***************************************************************************)
EXTENDS ScreenHandlers

Marks    == {"present", "late", "approved"}            \* of six
Standbys == {"w1", "w2"}
Sendings == {"created", "completed"}                   \* of four
Outcomes == {"completed", "rejected"}
Credits  == {0, 100, 200}                              \* rupees an admin enters

AttendanceRows ==
  [about : {"attendance"}, mark : Marks, approval : {"pending", "approved", "rejected"},
   shift : {"absent", "open", "closed"}, locked : BOOLEAN]

(* `sent' are the replacements of the complaint's worker, `fit' the workers *)
(* the matches list as free for the requirement, `refused' those who once   *)
(* left it.                                                                 *)
ComplaintRows ==
  [about : {"complaint"}, status : {"open", "under_review", "resolved", "closed"},
   sent : [Standbys -> Sendings \cup {"none"}],
   fit : SUBSET Standbys, refused : SUBSET Standbys]

DisputeRows ==
  [about : {"dispute"}, status : {"open", "under_review", "resolved", "closed"},
   credit : Credits]

PrivacyRows ==
  [about : {"privacy"}, kind : {"deletion", "export"}, status : {"pending", "in_review"} \cup Outcomes,
   erased : BOOLEAN]

SlaRows == [about : {"sla"}, response : 1..2, resolution : 1..2]

CareRows == AttendanceRows \cup ComplaintRows \cup DisputeRows \cup PrivacyRows \cup SlaRows

CareStarts ==
  {[about |-> "attendance", mark |-> "present", approval |-> "pending", shift |-> s, locked |-> FALSE] :
     s \in {"absent", "open"}}
    \cup {[about |-> "complaint", status |-> "open", sent |-> [w \in Standbys |-> "none"],
           fit |-> Standbys, refused |-> r] : r \in {{}, {"w2"}}}
    \cup {[about |-> "dispute", status |-> "open", credit |-> 0]}
    \cup {[about |-> "privacy", kind |-> k, status |-> "pending", erased |-> FALSE] : k \in {"deletion", "export"}}
    \cup {[about |-> "sla", response |-> 1, resolution |-> 2]}

CareQueries(row) ==
  CASE row.about = "attendance" -> [records |-> {"mark", "approval", "shift"}]
    [] row.about = "complaint"  -> [complaint |-> {"status", "sent"}, matches |-> {"fit"}]
    [] row.about = "dispute"    -> [dispute |-> {"status", "credit"}]
    [] row.about = "privacy"    -> [requests |-> {"kind", "status"}]
    [] row.about = "sla"        -> [policies |-> {"response", "resolution"}]

CareShows(row) == DOMAIN CareQueries(row)

-----------------------------------------------------------------------------
(* Attendance.  Verifying a record in an assignment's list corrects its     *)
(* mark and leaves its approval pending.                                    *)
HandleApproveDay  == Handler("approve_day", "none", {"records"}, TRUE)
HandleRejectDay   == {Handler("reject_day", n, {"records"}, TRUE) : n \in {"blank", "reason"} \ {"blank"}}
HandleCloseShift  == Handler("close_shift", "none", {"records"}, TRUE)
HandleCorrect     == {Handler("correct", m, {"records"}, TRUE) : m \in Marks}
VerifyAttendance  == Handler("correct", "approved", {"records"}, TRUE)

AttendanceOffers(row) ==
  HandleCorrect
    \cup When(row.approval = "pending", {HandleApproveDay} \cup HandleRejectDay)
    \cup When(row.shift = "open", {HandleCloseShift})

AttendanceList(row) == HandleCorrect \cup When(row.mark # "approved", {VerifyAttendance})

-----------------------------------------------------------------------------
(* Complaints.  Any of the three outcomes can be given at any time, and a   *)
(* replacement can be sent again and again.                                 *)
UpdateStatus == {Handler("complaint", to, {"complaint"}, TRUE) : to \in {"under_review", "resolved", "closed"}}

HandleReplacement(w)  == Handler("replacement", w, {"complaint"}, TRUE)
HandleUpdate(w, to)   == Handler("replacement_status", [worker |-> w, to |-> to], {"complaint"}, TRUE)

ReplacementForm(row) == {HandleReplacement(w) : w \in row.fit}

ReplacementsPage(row) ==
  {HandleUpdate(w, to) : w \in {v \in Standbys : row.sent[v] # "none"},
                         to \in Sendings}

-----------------------------------------------------------------------------
(* Disputes, privacy requests and SLA policies.                             *)
HandleReview == Handler("review_dispute", "none", {"dispute"}, TRUE)
HandleClose  == Handler("close_dispute", "none", {"dispute"}, TRUE)
HandleResolve == {Handler("resolve_dispute", credit, {"dispute"}, TRUE) : credit \in Credits}

CanResolveOrClose(row) == row.status \in {"open", "under_review"}

DisputeOffers(row) ==
  When(row.status = "open", {HandleReview})
    \cup When(CanResolveOrClose(row), {HandleClose} \cup HandleResolve)

HandleOutcome(to) == Handler("privacy", to, {"requests"}, TRUE)

PrivacyOffers(row) ==
  When(row.status = "pending", {HandleOutcome("in_review")})
    \cup When(row.status \in {"pending", "in_review"}, {HandleOutcome(to) : to \in Outcomes})

SlaRow == {Handler("sla", [response |-> a, resolution |-> b], {"policies"}, TRUE) : a \in 1..2, b \in 1..2}

CareOffers(row) ==
  CASE row.about = "attendance" -> AttendanceOffers(row) \cup AttendanceList(row)
    [] row.about = "complaint"  -> UpdateStatus \cup ReplacementForm(row) \cup ReplacementsPage(row)
    [] row.about = "dispute"    -> DisputeOffers(row)
    [] row.about = "privacy"    -> PrivacyOffers(row)
    [] row.about = "sla"        -> SlaRow

-----------------------------------------------------------------------------
(* The server.                                                              *)
AttendanceTakes(row, h) ==
  CASE h.op = "approve_day" -> row.approval # "approved"
    [] h.op = "reject_day"  -> row.approval # "rejected"
    [] h.op = "close_shift" -> row.shift = "open"
    [] h.op = "correct"     -> ~row.locked

AttendanceAfter(row, h) ==
  CASE h.op = "approve_day" -> [row EXCEPT !.approval = "approved"]
    [] h.op = "reject_day"  -> [row EXCEPT !.approval = "rejected"]
    [] h.op = "close_shift" -> [row EXCEPT !.shift = "closed"]
    [] h.op = "correct"     -> [row EXCEPT !.mark = h.arg]

ComplaintTakes(row, h) ==
  h.op = "replacement" => row.sent[h.arg] = "none" /\ h.arg \notin row.refused

ComplaintAfter(row, h) ==
  CASE h.op = "complaint"   -> [row EXCEPT !.status = h.arg]
    [] h.op = "replacement" -> [row EXCEPT !.sent[h.arg] = "created", !.fit = @ \ {h.arg}]
    [] h.op = "replacement_status" -> [row EXCEPT !.sent[h.arg.worker] = h.arg.to]

DisputeTakes(row, h) ==
  row.status \in IF h.op = "review_dispute" THEN {"open"} ELSE {"open", "under_review"}

DisputeAfter(row, h) ==
  CASE h.op = "review_dispute"  -> [row EXCEPT !.status = "under_review"]
    [] h.op = "close_dispute"   -> [row EXCEPT !.status = "closed"]
    [] h.op = "resolve_dispute" -> [row EXCEPT !.status = "resolved", !.credit = h.arg]

PrivacyTakes(row, h) == row.status \in Outcomes => row.status = h.arg

PrivacyAfter(row, h) ==
  [row EXCEPT !.status = h.arg, !.erased = @ \/ (h.arg = "completed" /\ row.kind = "deletion")]

SlaAfter(row, h) == Patched(row, h.arg)

CareAccepts(row, h) ==
  CASE row.about = "attendance" -> AttendanceTakes(row, h)
    [] row.about = "complaint"  -> ComplaintTakes(row, h)
    [] row.about = "dispute"    -> DisputeTakes(row, h)
    [] row.about = "privacy"    -> PrivacyTakes(row, h)
    [] row.about = "sla"        -> TRUE

CareAfter(row, h) ==
  CASE row.about = "attendance" -> AttendanceAfter(row, h)
    [] row.about = "complaint"  -> ComplaintAfter(row, h)
    [] row.about = "dispute"    -> DisputeAfter(row, h)
    [] row.about = "privacy"    -> PrivacyAfter(row, h)
    [] row.about = "sla"        -> SlaAfter(row, h)

(* A worker checks in and out, payroll locks the period, a worker declines  *)
(* a replacement's assignment or is taken elsewhere.                        *)
AttendanceMoves(row) ==
  {[row EXCEPT !.shift = IF @ = "absent" THEN "open" ELSE "closed"], [row EXCEPT !.locked = TRUE]}

MatchesMove(row) ==
  UNION {{[row EXCEPT !.fit = @ \cup {w}], [row EXCEPT !.fit = @ \ {w}]} : w \in Standbys}

CareMoves(row) ==
  CASE row.about = "attendance" -> AttendanceMoves(row)
    [] row.about = "complaint"  -> MatchesMove(row)
    [] OTHER                    -> {}

(* Offered without a look at what the server will check: a correction in a  *)
(* locked period, a worker who once left the requirement.                   *)
CareLoose(row) == {"correct", "replacement"}

(* A worker just sent is still listed as free.                              *)
CareMissed(op) == When(op = "replacement", {"matches"})

(* The form for a replacement says nothing of a list it could not load.     *)
CareQuiet(row) == When(row.about = "complaint", {"matches"})
=============================================================================
