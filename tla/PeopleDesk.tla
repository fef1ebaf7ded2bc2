----------------------------- MODULE PeopleDesk -----------------------------
(***************************************************************************)
(* The people an admin looks after: the review queue of workers and a       *)
(* worker's page (app/(dashboard)/workers/page.tsx, features/workers), the  *)
(* clients with their blacklists (app/(dashboard)/clients/page.tsx,         *)
(* features/clients), and the admins with the clients they answer for       *)
(* (app/(dashboard)/admin-users/page.tsx, features/admin-users).            *)
(***************************************************************************)
EXTENDS ScreenHandlers

(* Of two values of a form's field, one is as good as another; a phone      *)
(* number or an address in use elsewhere is refused.                        *)
Details == {"a", "b"}

WorkerRecords ==
  [about : {"worker"}, step : {"identity_uploaded", "profile_submitted", "approved"},
   verdict : {"pending", "under_review", "approved", "rejected"}, free : BOOLEAN,
   city : Details, phone : Details]

ClientRecords ==
  [about : {"client"}, account : {"none", "active", "off"}, taken : BOOLEAN,
   name : Details, gst : Details, barred : BOOLEAN]

AdminRows == [about : {"admin"}, listed : BOOLEAN, scoped : BOOLEAN, client : {"active", "off"}]

PeopleRows == WorkerRecords \cup ClientRecords \cup AdminRows

PeopleStarts ==
  {[about |-> "worker", step |-> "profile_submitted", verdict |-> "under_review", free |-> TRUE,
    city |-> "a", phone |-> "a"]}
    \cup {[about |-> "client", account |-> account, taken |-> FALSE, name |-> "a", gst |-> "a",
           barred |-> FALSE] : account \in {"none", "active"}}
    \cup {[about |-> "admin", listed |-> listed, scoped |-> FALSE, client |-> "active"] : listed \in BOOLEAN}

PeopleQueries(row) ==
  CASE row.about = "worker" -> [panel |-> {"step", "verdict", "free"}, worker |-> {"city", "phone"}]
    [] row.about = "client" -> [clients |-> {"account", "name", "gst"}, barred |-> {"barred"}]
    [] row.about = "admin"  -> [admins |-> {"listed"}, scope |-> {"scoped"}, choices |-> {"client"}]

-----------------------------------------------------------------------------
(* Workers.  The panel beside the queue shows the row that was clicked as   *)
(* it was then, or else the first row of the list.  An approval drops the   *)
(* clicked row; a rejection and a leave fetch the list and keep it.  None   *)
(* of the three tells of a failure.                                         *)
ListRefetch(clicked) == IF clicked THEN {} ELSE {"panel"}

HandleApprove == Handler("approve", "none", {"panel"}, FALSE)

HandleRejectWorker ==
  {Handler("reject_worker", reason, ListRefetch(clicked), FALSE) :
     reason \in {"short", "long"} \ {"short"}, clicked \in BOOLEAN}

ToggleAvailability(free) ==
  {Handler("availability", free, ListRefetch(clicked), FALSE) : clicked \in BOOLEAN}

CanReview(row) == row.step = "profile_submitted"

WorkerReviewPanel(row) ==
  When(CanReview(row), {HandleApprove} \cup HandleRejectWorker)
    \cup When(row.step = "approved", ToggleAvailability(~row.free))

(* The edit form is filled from the page and sent whole.                    *)
HandleSave(row) ==
  {Handler("edit_worker", [city |-> c, phone |-> p], {"worker"}, TRUE) :
     c \in Details, p \in {row.phone, "b", "taken"}}

-----------------------------------------------------------------------------
(* Clients.                                                                 *)
HandleCreateClient == Handler("create_client", "none", {"clients"}, TRUE)

HandleEditClient ==
  {Handler("edit_client", [name |-> n, gst |-> g], {"clients"}, TRUE) : n \in Details, g \in Details}

HandleDeactivate == Handler("deactivate", "none", {"clients"}, TRUE)

ClientsPage(row) ==
  When(row.account = "none", {HandleCreateClient})
    \cup When(row.account # "none", HandleEditClient)
    \cup When(row.account = "active", {HandleDeactivate})

(* A worker is barred by number, checked to be one and no more.             *)
HandleBar   == {Handler("bar", id, {"barred"}, TRUE) : id \in {"bad", "unknown", "known"} \ {"bad"}}
HandleUnbar == Handler("unbar", "none", {"barred"}, FALSE)

BlacklistSection(row) ==
  When(row.account # "none", HandleBar \cup When(row.barred, {HandleUnbar}))

-----------------------------------------------------------------------------
(* Admins, for a super admin's eyes.                                        *)
HandleCreateAdmin == {Handler("create_admin", mail, {"admins"}, TRUE) : mail \in {"fresh", "used"}}
HandleAdd         == Handler("scope", "none", {"scope"}, TRUE)
HandleRemove      == Handler("unscope", "none", {"scope"}, FALSE)

AvailableClients(row) == When(row.client = "active" /\ ~row.scoped, {"client"})

AdminUserRow(row) ==
  When(row.listed, When(AvailableClients(row) # {}, {HandleAdd}) \cup When(row.scoped, {HandleRemove}))

PeopleOffers(row) ==
  CASE row.about = "worker" -> WorkerReviewPanel(row) \cup HandleSave(row)
    [] row.about = "client" -> ClientsPage(row) \cup BlacklistSection(row)
    [] row.about = "admin"  -> AdminUserRow(row) \cup When(~row.listed, HandleCreateAdmin)

PeopleShows(row) == DOMAIN PeopleQueries(row)

-----------------------------------------------------------------------------
(* The server.                                                              *)
PeopleAccepts(row, h) ==
  CASE h.op \in {"approve", "reject_worker"} -> row.step = "profile_submitted"
    [] h.op = "availability"                 -> TRUE
    [] h.op = "edit_worker"                  -> h.arg.phone # "taken"
    [] h.op = "create_client"                -> row.account = "none" /\ ~row.taken
    [] h.op = "edit_client"                  -> row.account # "none"
    [] h.op = "deactivate"                   -> row.account = "active"
    [] h.op = "bar"                          -> h.arg = "known" /\ ~row.barred
    [] h.op = "unbar"                        -> row.barred
    [] h.op = "create_admin"                 -> h.arg = "fresh" /\ ~row.listed
    [] h.op = "scope"                        -> ~row.scoped
    [] h.op = "unscope"                      -> row.scoped

PeopleAfter(row, h) ==
  CASE h.op = "approve"       -> [row EXCEPT !.step = "approved", !.verdict = "approved"]
    [] h.op = "reject_worker" -> [row EXCEPT !.step = "identity_uploaded", !.verdict = "rejected"]
    [] h.op = "availability"  -> [row EXCEPT !.free = h.arg]
    [] h.op \in {"edit_worker", "edit_client"} -> Patched(row, h.arg)
    [] h.op = "create_client" -> [row EXCEPT !.account = "active"]
    [] h.op = "deactivate"    -> [row EXCEPT !.account = "off"]
    [] h.op = "bar"           -> [row EXCEPT !.barred = TRUE]
    [] h.op = "unbar"         -> [row EXCEPT !.barred = FALSE]
    [] h.op = "create_admin"  -> [row EXCEPT !.listed = TRUE]
    [] h.op = "scope"         -> [row EXCEPT !.scoped = TRUE]
    [] h.op = "unscope"       -> [row EXCEPT !.scoped = FALSE]

(* A worker sends the profile again, is taken by a job or let go; a phone   *)
(* number is registered from the app; a client is deactivated elsewhere.    *)
PeopleMoves(row) ==
  CASE row.about = "worker" ->
         When(row.step = "identity_uploaded", {[row EXCEPT !.step = "profile_submitted", !.verdict = "under_review"]})
           \cup When(row.step = "approved", {[row EXCEPT !.free = ~@]})
    [] row.about = "client" -> When(row.account = "none", {[row EXCEPT !.taken = TRUE]})
    [] row.about = "admin"  -> {[row EXCEPT !.client = "off"]}

(* Offered without a look at what the server will check: a phone number or  *)
(* an address in use, a number that is no worker's or one's already barred. *)
PeopleLoose(row) == {"edit_worker", "create_client", "bar", "create_admin"}

(* The panel keeps the row that was clicked.                                *)
PeopleMissed(op) == When(op \in {"reject_worker", "availability"}, {"panel"})

PeopleSilent == {"approve", "reject_worker", "availability", "unbar", "unscope"}

(* The bars on a client's page and the scope of an admin user say nothing   *)
(* of a load that fails.                                                    *)
PeopleQuiet(row) ==
  When(row.about = "client", {"barred"}) \cup When(row.about = "admin", {"scope", "choices"})
=============================================================================
