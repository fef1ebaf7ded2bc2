--------------------------- MODULE StaffingProofs ---------------------------
(***************************************************************************)
(* Proofs about Staffing.  The types hold for any number of requests in    *)
(* flight, whatever endpoints they call.  That a day is never overfull,    *)
(* that a worker covers a day of a requirement once and that requirements  *)
(* follow their state machine hold for any number of administrators        *)
(* assigning at once, beside one session that does the rest; that an       *)
(* assigned worker is occupied, when they assign to one requirement or     *)
(* only one of them assigns.  That declining reverts a requirement, that   *)
(* closing is final and that an extension reaches every assignment need    *)
(* one session that closes, and one that extends, out of any number.       *)
(***************************************************************************)
EXTENDS Staffing, FiniteSetTheorems, TLAPS

USE StaffingAssumption

States   == DOMAIN AssignmentTransitions
Statuses == DOMAIN RequirementTransitions

WritesOK(w) ==
  /\ \A q \in DOMAIN w.status : q \in Reqs /\ w.status[q] \in Statuses
  /\ \A q \in DOMAIN w.last : q \in Reqs /\ w.last[q] \in Days
  /\ \A q \in DOMAIN w.offer : q \in Reqs /\ w.offer[q] \in BOOLEAN
  /\ \A a \in DOMAIN w.state : w.state[a] \in States
  /\ \A a \in DOMAIN w.to : w.to[a] \in Days \cup {Unset}
  /\ \A x \in DOMAIN w.avail : x \in Workers /\ w.avail[x] \in BOOLEAN
  /\ w.new \subseteq Assignment

TablesOK ==
  /\ status \in [Reqs -> Statuses]
  /\ last \in [Reqs -> Days]
  /\ offer \in [Reqs -> BOOLEAN]
  /\ DOMAIN asg \subseteq Slots /\ \A a \in DOMAIN asg : asg[a] \in Assignment
  /\ avail \in [Workers -> BOOLEAN]
  /\ lock \in [Reqs -> Sessions \cup {NoSession}]

IInv ==
  /\ TablesOK
  /\ DOMAIN sess = Sessions
  /\ \A s \in Sessions : sess[s].pc \in {"idle", "commit"} /\ WritesOK(sess[s].writes)

LEMMA TableValues ==
  /\ States = {"assigned", "accepted", "active", "declined", "completed", "cancelled", "replaced"}
  /\ Statuses = {"approved", "workers_assigned", "in_progress", "completed", "cancelled"}
BY DEF States, Statuses, AssignmentTransitions, RequirementTransitions

LEMMA NothingOK == WritesOK(Nothing)
BY DEF WritesOK, Nothing

LEMMA InitIInv == Init => IInv
<1> SUFFICES ASSUME Init PROVE IInv
  OBVIOUS
<1>1. TablesOK
  BY TableValues DEF Init, TablesOK
<1>2. \A s \in Sessions : sess[s] = Idle
  BY DEF Init
<1>3. Idle.pc = "idle" /\ Idle.writes = Nothing
  BY DEF Idle
<1> QED BY <1>1, <1>2, <1>3, NothingOK DEF IInv, Init

LEMMA PlanStep ==
  ASSUME IInv, NEW s \in Sessions, NEW w, Plan(s, w), WritesOK(w),
         lock' \in [Reqs -> Sessions \cup {NoSession}]
  PROVE  IInv'
<1>1. DOMAIN sess' = Sessions /\ \A t \in Sessions : sess'[t].pc \in {"idle", "commit"}
  BY DEF IInv, Plan
<1>2. \A t \in Sessions : WritesOK(sess'[t].writes)
  BY DEF IInv, Plan
<1>3. TablesOK'
  BY DEF IInv, Plan, TablesOK
<1>4. \A t \in Sessions : WritesOK(sess[t].writes)'
  BY <1>2 DEF WritesOK
<1> QED BY <1>1, <1>3, <1>4 DEF IInv

LEMMA SetStateIs ==
  ASSUME NEW as, NEW v
  PROVE  DOMAIN SetState(as, v) \subseteq as
         /\ \A x \in DOMAIN SetState(as, v) : SetState(as, v)[x] = v
BY DEF SetState

LEMMA AtIs ==
  ASSUME NEW x, NEW v
  PROVE  DOMAIN At(x, v) = {x} /\ At(x, v)[x] = v
BY DEF At

-----------------------------------------------------------------------------
(* The units of work requests leave, each with its types.                  *)
LEMMA CreateStep ==
  ASSUME IInv, NEW s \in Sessions, NEW new \in Requests, CreateAssignment(s, new)
  PROVE  IInv'
<1> DEFINE occ == Occupy(new.worker)
           st  == SetStatus(new.job, "workers_assigned")
           w   == [Nothing EXCEPT !.new = {new}, !.avail = occ, !.status = st]
<1>1. Plan(s, w)
  BY DEF CreateAssignment
<1>2. new \in Assignment /\ new.job \in Reqs /\ new.worker \in Workers
  BY TableValues DEF Requests, Assignment, States, Unset
<1>3. DOMAIN occ \subseteq {new.worker} /\ \A x \in DOMAIN occ : occ[x] = FALSE
  BY DEF Occupy, Changed
<1>4. DOMAIN st \subseteq {new.job} /\ \A q \in DOMAIN st : st[q] = "workers_assigned"
  BY DEF SetStatus, Changed
<1>5. lock' \in [Reqs -> Sessions \cup {NoSession}]
  BY <1>2 DEF CreateAssignment, Locks, IInv, TablesOK
<1> HIDE DEF occ, st
<1>6. /\ w.status = st /\ w.avail = occ /\ w.new = {new}
      /\ w.last = <<>> /\ w.offer = <<>> /\ w.state = <<>> /\ w.to = <<>>
  BY DEF Nothing
<1> HIDE DEF w
<1>7. WritesOK(w)
  <2>1. \A q \in DOMAIN w.status : q \in Reqs /\ w.status[q] \in Statuses
    BY <1>2, <1>4, <1>6, TableValues
  <2>2. \A x \in DOMAIN w.avail : x \in Workers /\ w.avail[x] \in BOOLEAN
    BY <1>2, <1>3, <1>6
  <2>3. w.new \subseteq Assignment
    BY <1>2, <1>6
  <2> QED BY <1>6, <2>1, <2>2, <2>3 DEF WritesOK
<1> QED BY <1>1, <1>5, <1>7, PlanStep

(* A unit of work that adds and moves no assignment, closes or advances    *)
(* open ones, and moves requirements along their state machine.            *)
Plain(w) ==
  /\ w.last = <<>> /\ w.to = <<>> /\ w.new = {}
  /\ \A a \in DOMAIN w.state : a \in DOMAIN asg /\ Open(a)
  /\ \A q \in DOMAIN w.status :
       w.status[q] \in RequirementTransitions[status[q]] \ {"workers_assigned"}

PlansChange(s) == \E w : Plan(s, w) /\ UNCHANGED lock /\ WritesOK(w) /\ Plain(w)

LEMMA ChangeStep ==
  ASSUME IInv, NEW s \in Sessions,
         NEW st, NEW ss, NEW av, NEW w, Plan(s, w), UNCHANGED lock,
         w.status = st, w.state = ss, w.avail = av,
         w.last = <<>>, w.offer = <<>>, w.to = <<>>, w.new = {},
         \A q \in DOMAIN st :
           /\ q \in Reqs /\ st[q] \in Statuses
           /\ st[q] \in RequirementTransitions[status[q]] \ {"workers_assigned"},
         \A a \in DOMAIN ss : ss[a] \in States /\ a \in DOMAIN asg /\ Open(a),
         \A x \in DOMAIN av : x \in Workers /\ av[x] \in BOOLEAN
  PROVE  PlansChange(s)
<1>1. WritesOK(w)
  BY DEF WritesOK
<1>2. Plain(w)
  BY DEF Plain
<1> QED BY <1>1, <1>2 DEF PlansChange

LEMMA AssignmentsTyped ==
  ASSUME IInv, NEW a \in DOMAIN asg
  PROVE  asg[a] \in Assignment /\ asg[a].job \in Reqs /\ asg[a].worker \in Workers
BY DEF IInv, TablesOK, Assignment

(* Only an open assignment has anywhere to go.                             *)
LEMMA MovesFromOpen ==
  ASSUME IInv, NEW a \in DOMAIN asg, NEW to, to \in AssignmentTransitions[asg[a].state]
  PROVE  Open(a)
BY DEF IInv, TablesOK, Assignment, AssignmentTransitions, Open, OpenStates

LEMMA DeclineWrites ==
  ASSUME IInv, NEW s \in Sessions, NEW a \in DOMAIN asg, NEW freed \in SUBSET {asg[a].worker},
         MayDecline(a), Plan(s, Decline(a, freed)), UNCHANGED lock
  PROVE  PlansChange(s)
<1> DEFINE ss == At(a, "declined")
           av == Release(freed)
           st == IF LastOpen(a) THEN At(asg[a].job, "approved") ELSE <<>>
           w  == [Nothing EXCEPT !.state = ss, !.avail = av, !.status = st]
<1>1. Plan(s, w)
  BY DEF Decline
<1>2. \A q \in DOMAIN st :
        q \in Reqs /\ st[q] \in Statuses /\ st[q] \in RequirementTransitions[status[q]] \ {"workers_assigned"}
  BY AssignmentsTyped, TableValues DEF At, MayDecline
<1>3. \A b \in DOMAIN ss : ss[b] \in States /\ b \in DOMAIN asg /\ Open(b)
  BY MovesFromOpen, TableValues DEF At, MayDecline
<1>4. \A x \in DOMAIN av : x \in Workers /\ av[x] \in BOOLEAN
  BY AssignmentsTyped DEF Release, Changed
<1> HIDE DEF ss, av, st
<1>5. /\ w.status = st /\ w.state = ss /\ w.avail = av
      /\ w.last = <<>> /\ w.offer = <<>> /\ w.to = <<>> /\ w.new = {}
  BY DEF Nothing
<1> HIDE DEF w
<1> QED BY <1>1, <1>2, <1>3, <1>4, <1>5, ChangeStep

LEMMA RespondStep ==
  ASSUME IInv, NEW s \in Sessions, NEW a \in DOMAIN asg
  PROVE  /\ Acknowledge(s, a) => PlansChange(s)
         /\ DeclineAssignment(s, a) => PlansChange(s)
<1>1. ASSUME Acknowledge(s, a) PROVE PlansChange(s)
  <2> DEFINE ss == At(a, "accepted")
             w  == [Nothing EXCEPT !.state = ss]
             no == <<>>
  <2>1. Plan(s, w) /\ UNCHANGED lock
    BY <1>1 DEF Acknowledge
  <2>2. \A b \in DOMAIN ss : ss[b] \in States /\ b \in DOMAIN asg /\ Open(b)
    BY <1>1, TableValues DEF At, Acknowledge, Open, OpenStates
  <2>3. DOMAIN no = {}
    OBVIOUS
  <2> HIDE DEF ss
  <2>4. /\ w.status = no /\ w.state = ss /\ w.avail = no
        /\ w.last = <<>> /\ w.offer = <<>> /\ w.to = <<>> /\ w.new = {}
    BY DEF Nothing
  <2> HIDE DEF w, no
  <2> QED BY <2>1, <2>2, <2>3, <2>4, ChangeStep
<1>2. ASSUME DeclineAssignment(s, a) PROVE PlansChange(s)
  BY <1>2, DeclineWrites DEF DeclineAssignment
<1> QED BY <1>1, <1>2

LEMMA UpdateStatusStep ==
  ASSUME IInv, NEW s \in Sessions, NEW a \in DOMAIN asg, NEW to \in States, UpdateStatus(s, a, to)
  PROVE  PlansChange(s)
<1>1. CASE to = "declined"
  BY <1>1, DeclineWrites DEF UpdateStatus
<1>2. CASE to # "declined"
  <2> DEFINE ss == At(a, to)
             av == Release(IF to \in FreeingStates THEN {asg[a].worker} ELSE {})
             w  == [Nothing EXCEPT !.state = ss, !.avail = av]
             no == <<>>
  <2>1. Plan(s, w) /\ UNCHANGED lock
    BY <1>2 DEF UpdateStatus
  <2>2. \A b \in DOMAIN ss : ss[b] \in States /\ b \in DOMAIN asg /\ Open(b)
    BY MovesFromOpen DEF At, UpdateStatus
  <2>3. \A x \in DOMAIN av : x \in Workers /\ av[x] \in BOOLEAN
    BY AssignmentsTyped DEF Release, Changed
  <2>4. DOMAIN no = {}
    OBVIOUS
  <2> HIDE DEF ss, av
  <2>5. /\ w.status = no /\ w.state = ss /\ w.avail = av
        /\ w.last = <<>> /\ w.offer = <<>> /\ w.to = <<>> /\ w.new = {}
    BY DEF Nothing
  <2> HIDE DEF w, no
  <2> QED BY <2>1, <2>2, <2>3, <2>4, <2>5, ChangeStep
<1> QED BY <1>1, <1>2

LEMMA AttendStep ==
  ASSUME IInv, NEW s \in Sessions, NEW a \in DOMAIN asg, CheckIn(s, a) \/ HalfDay(s, a)
  PROVE  PlansChange(s)
<1> DEFINE ss == At(a, "active")
           no == <<>>
           q  == asg[a].job
           started == SetStatus(q, "in_progress")
           moved   == IF status[q] = "workers_assigned" THEN At(q, "in_progress") ELSE <<>>
<1>1. PICK st \in {started, moved} :
        /\ Plan(s, [Nothing EXCEPT !.state = ss, !.status = st]) /\ UNCHANGED lock
        /\ DOMAIN st \subseteq {q} /\ \A x \in DOMAIN st : st[x] = "in_progress"
        /\ q \in DOMAIN st => "in_progress" \in RequirementTransitions[status[q]]
  BY DEF CheckIn, HalfDay, SetStatus, Changed, At, RequirementTransitions
<1>2. \A x \in DOMAIN st :
        x \in Reqs /\ st[x] \in Statuses /\ st[x] \in RequirementTransitions[status[x]] \ {"workers_assigned"}
  BY <1>1, AssignmentsTyped, TableValues
<1>3. \A b \in DOMAIN ss : ss[b] \in States /\ b \in DOMAIN asg /\ Open(b)
  BY TableValues DEF At, CheckIn, HalfDay, Open, OpenStates
<1>4. DOMAIN no = {}
  OBVIOUS
<1> DEFINE w == [Nothing EXCEPT !.state = ss, !.status = st]
<1> HIDE DEF ss
<1>5. /\ w.status = st /\ w.state = ss /\ w.avail = no
      /\ w.last = <<>> /\ w.offer = <<>> /\ w.to = <<>> /\ w.new = {}
  BY DEF Nothing
<1>6. Plan(s, w) /\ UNCHANGED lock
  BY <1>1
<1> HIDE DEF w, no
<1> QED BY <1>2, <1>3, <1>4, <1>5, <1>6, ChangeStep

LEMMA CompleteStep ==
  ASSUME IInv, NEW s \in Sessions, NEW q \in Reqs, CompleteRequirement(s, q)
  PROVE  PlansChange(s)
<1> DEFINE st == At(q, "completed")
           ss == SetState(OpenOn(q), "completed")
           w  == [Nothing EXCEPT !.status = st, !.state = ss]
           no == <<>>
<1>1. Plan(s, w) /\ UNCHANGED lock
  BY DEF CompleteRequirement
<1>2. \A x \in DOMAIN st :
        x \in Reqs /\ st[x] \in Statuses /\ st[x] \in RequirementTransitions[status[x]] \ {"workers_assigned"}
  BY TableValues DEF At, CompleteRequirement
<1>3. \A a \in DOMAIN ss : ss[a] \in States /\ a \in DOMAIN asg /\ Open(a)
  BY TableValues DEF SetState, OpenOn
<1>4. DOMAIN no = {}
  OBVIOUS
<1> HIDE DEF st, ss
<1>5. /\ w.status = st /\ w.state = ss /\ w.avail = no
      /\ w.last = <<>> /\ w.offer = <<>> /\ w.to = <<>> /\ w.new = {}
  BY DEF Nothing
<1> HIDE DEF w, no
<1> QED BY <1>1, <1>2, <1>3, <1>4, <1>5, ChangeStep

LEMMA CancelStep ==
  ASSUME IInv, NEW s \in Sessions, NEW q \in Reqs, CancelRequirement(s, q)
  PROVE  PlansChange(s)
<1> DEFINE st == At(q, "cancelled")
           ss == SetState(OpenOn(q), "cancelled")
           av == Release({asg[a].worker : a \in OpenOn(q)})
           w  == [Nothing EXCEPT !.status = st, !.state = ss, !.avail = av]
<1>1. Plan(s, w) /\ UNCHANGED lock
  BY DEF CancelRequirement
<1>2. \A x \in DOMAIN st :
        x \in Reqs /\ st[x] \in Statuses /\ st[x] \in RequirementTransitions[status[x]] \ {"workers_assigned"}
  BY TableValues DEF At, CancelRequirement
<1>3. \A a \in DOMAIN ss : ss[a] \in States /\ a \in DOMAIN asg /\ Open(a)
  BY TableValues DEF SetState, OpenOn
<1>4. \A x \in DOMAIN av : x \in Workers /\ av[x] \in BOOLEAN
  <2>1. \A a \in OpenOn(q) : asg[a].worker \in Workers
    BY AssignmentsTyped DEF OpenOn
  <2> QED BY <2>1 DEF Release, Changed
<1> HIDE DEF st, ss, av
<1>5. /\ w.status = st /\ w.state = ss /\ w.avail = av
      /\ w.last = <<>> /\ w.offer = <<>> /\ w.to = <<>> /\ w.new = {}
  BY DEF Nothing
<1> HIDE DEF w
<1> QED BY <1>1, <1>2, <1>3, <1>4, <1>5, ChangeStep

LEMMA AvailabilityStep ==
  ASSUME IInv, NEW s \in Sessions, NEW x \in Workers, SetAvailability(s, x)
  PROVE  PlansChange(s)
<1> DEFINE av == At(x, ~avail[x])
           w  == [Nothing EXCEPT !.avail = av]
           no == <<>>
<1>1. Plan(s, w) /\ UNCHANGED lock
  BY DEF SetAvailability
<1>2. \A y \in DOMAIN av : y \in Workers /\ av[y] \in BOOLEAN
  BY DEF At
<1>3. DOMAIN no = {}
  OBVIOUS
<1> HIDE DEF av
<1>4. /\ w.status = no /\ w.state = no /\ w.avail = av
      /\ w.last = <<>> /\ w.offer = <<>> /\ w.to = <<>> /\ w.new = {}
  BY DEF Nothing
<1> HIDE DEF w, no
<1> QED BY <1>1, <1>2, <1>3, <1>4, ChangeStep

-----------------------------------------------------------------------------
(* Replacements and extensions: their types.                               *)
LEMMA NewWorkerTyped ==
  ASSUME IInv, NEW a \in DOMAIN asg, NEW x \in Workers
  PROVE  /\ [asg[a] EXCEPT !.worker = x, !.state = "assigned"] \in Assignment
         /\ [asg[a] EXCEPT !.worker = x, !.state = "assigned", !.from = Unset, !.to = Unset] \in Assignment
BY AssignmentsTyped, TableValues DEF Assignment, States

LEMMA ReplaceStep ==
  ASSUME IInv, NEW s \in Sessions, NEW a \in DOMAIN asg, NEW x \in Workers, ReplaceWorker(s, a, x)
  PROVE  IInv'
<1> DEFINE new == [asg[a] EXCEPT !.worker = x, !.state = "assigned"]
           ss  == At(a, "replaced")
           av  == Update(Occupy(x), Release({asg[a].worker}))
           w   == [Nothing EXCEPT !.state = ss, !.new = {new}, !.avail = av]
<1>1. Plan(s, w) /\ UNCHANGED lock
  BY DEF ReplaceWorker
<1>2. \A b \in DOMAIN ss : ss[b] \in States
  BY TableValues DEF At
<1>3. \A y \in DOMAIN av : y \in Workers /\ av[y] \in BOOLEAN
  BY AssignmentsTyped DEF Update, Occupy, Release, Changed
<1>4. new \in Assignment
  BY NewWorkerTyped
<1> HIDE DEF ss, av, new
<1>5. /\ w.status = <<>> /\ w.state = ss /\ w.avail = av
      /\ w.last = <<>> /\ w.offer = <<>> /\ w.to = <<>> /\ w.new = {new}
  BY DEF Nothing
<1> HIDE DEF w
<1>6. WritesOK(w)
  BY <1>2, <1>3, <1>4, <1>5 DEF WritesOK
<1>7. lock' \in [Reqs -> Sessions \cup {NoSession}]
  BY <1>1 DEF IInv, TablesOK
<1> QED BY <1>1, <1>6, <1>7, PlanStep

LEMMA ComplaintStep ==
  ASSUME IInv, NEW s \in Sessions, NEW a \in DOMAIN asg, NEW x \in Workers,
         ReplaceForComplaint(s, a, x)
  PROVE  IInv'
<1> DEFINE new == [asg[a] EXCEPT !.worker = x, !.state = "assigned", !.from = Unset, !.to = Unset]
           ss  == SetState({a}, "replaced")
           w   == [Nothing EXCEPT !.state = ss, !.new = {new}]
<1>1. Plan(s, w) /\ UNCHANGED lock
  BY DEF ReplaceForComplaint
<1>2. \A b \in DOMAIN ss : ss[b] \in States
  BY TableValues DEF SetState
<1>3. new \in Assignment
  BY NewWorkerTyped
<1> HIDE DEF ss, new
<1>4. /\ w.status = <<>> /\ w.state = ss /\ w.avail = <<>>
      /\ w.last = <<>> /\ w.offer = <<>> /\ w.to = <<>> /\ w.new = {new}
  BY DEF Nothing
<1> HIDE DEF w
<1>5. WritesOK(w)
  BY <1>2, <1>3, <1>4 DEF WritesOK
<1>6. lock' \in [Reqs -> Sessions \cup {NoSession}]
  BY <1>1 DEF IInv, TablesOK
<1> QED BY <1>1, <1>5, <1>6, PlanStep

LEMMA OfferStep ==
  ASSUME IInv, NEW s \in Sessions, NEW q \in Reqs, RequestExtension(s, q) \/ RejectExtension(s, q)
  PROVE  IInv'
<1>1. PICK v \in BOOLEAN : Plan(s, [Nothing EXCEPT !.offer = At(q, v)]) /\ UNCHANGED lock
  BY DEF RequestExtension, RejectExtension
<1> DEFINE of == At(q, v)
           w  == [Nothing EXCEPT !.offer = of]
<1>2. Plan(s, w)
  BY <1>1
<1>3. \A x \in DOMAIN of : x \in Reqs /\ of[x] \in BOOLEAN
  BY DEF At
<1> HIDE DEF of
<1>4. /\ w.status = <<>> /\ w.state = <<>> /\ w.avail = <<>>
      /\ w.last = <<>> /\ w.offer = of /\ w.to = <<>> /\ w.new = {}
  BY DEF Nothing
<1> HIDE DEF w
<1>5. WritesOK(w)
  BY <1>3, <1>4 DEF WritesOK
<1>6. lock' \in [Reqs -> Sessions \cup {NoSession}]
  BY <1>1 DEF IInv, TablesOK
<1> QED BY <1>2, <1>5, <1>6, PlanStep

LEMMA ExtendStep ==
  ASSUME IInv, NEW s \in Sessions, NEW q \in Reqs, NEW days \in Days, ApproveExtension(s, q, days)
  PROVE  IInv'
<1> DEFINE of == At(q, FALSE)
           la == At(q, last[q] + days)
           to == [a \in {b \in OpenOn(q) : asg[b].to # Unset} |-> asg[a].to + days]
           w  == [Nothing EXCEPT !.offer = of, !.last = la, !.to = to]
<1>1. Plan(s, w) /\ UNCHANGED lock
  BY DEF ApproveExtension
<1>2. \A x \in DOMAIN of : x \in Reqs /\ of[x] \in BOOLEAN
  BY DEF At
<1>3. \A x \in DOMAIN la : x \in Reqs /\ la[x] \in Days
  BY DEF At, ApproveExtension, Days, IInv, TablesOK
<1>4. ASSUME NEW a \in DOMAIN to
      PROVE  to[a] \in Days
  <2>1. a \in OpenOn(q) /\ to[a] = asg[a].to + days /\ asg[a].to \in Days
    BY AssignmentsTyped DEF OpenOn, Assignment
  <2> QED BY <2>1 DEF ApproveExtension, Days
<1> HIDE DEF of, la, to
<1>5. /\ w.status = <<>> /\ w.state = <<>> /\ w.avail = <<>>
      /\ w.last = la /\ w.offer = of /\ w.to = to /\ w.new = {}
  BY DEF Nothing
<1> HIDE DEF w
<1>6. WritesOK(w)
  BY <1>2, <1>3, <1>4, <1>5 DEF WritesOK
<1>7. lock' \in [Reqs -> Sessions \cup {NoSession}]
  BY <1>1 DEF IInv, TablesOK
<1> QED BY <1>1, <1>6, <1>7, PlanStep

-----------------------------------------------------------------------------
LEMMA UpdatedColumn ==
  ASSUME NEW S, NEW T, NEW column \in [S -> T], NEW writes,
         \A x \in DOMAIN writes : x \in S /\ writes[x] \in T
  PROVE  Update(column, writes) \in [S -> T]
<1>1. DOMAIN column \cup DOMAIN writes = S
  OBVIOUS
<1>2. \A x \in S : (IF x \in DOMAIN writes THEN writes[x] ELSE column[x]) \in T
  OBVIOUS
<1> QED BY <1>1, <1>2 DEF Update

(* What a commit does to the assignments.                                  *)
LEMMA CommitAssignments ==
  ASSUME IInv, NEW s \in Sessions, Commit(s)
  PROVE  /\ \A b \in DOMAIN asg :
              /\ b \in DOMAIN asg'
              /\ asg'[b] \in Assignment
              /\ asg'[b].job = asg[b].job /\ asg'[b].worker = asg[b].worker
              /\ asg'[b].from = asg[b].from
              /\ asg'[b].to = IF b \in DOMAIN sess[s].writes.to THEN sess[s].writes.to[b] ELSE asg[b].to
              /\ asg'[b].state = IF b \in DOMAIN sess[s].writes.state
                                 THEN sess[s].writes.state[b] ELSE asg[b].state
         /\ \/ sess[s].writes.new = {} /\ DOMAIN asg' = DOMAIN asg
            \/ \E r \in sess[s].writes.new, a \in Slots \ DOMAIN asg :
                 DOMAIN asg' = DOMAIN asg \cup {a} /\ asg'[a] = r
<1> DEFINE w == sess[s].writes
           u == Updated(w)
<1>1. WritesOK(w)
  BY DEF IInv
<1>2. ASSUME NEW b \in DOMAIN asg
      PROVE  /\ u[b] \in Assignment
             /\ u[b].job = asg[b].job /\ u[b].worker = asg[b].worker /\ u[b].from = asg[b].from
             /\ u[b].to = IF b \in DOMAIN w.to THEN w.to[b] ELSE asg[b].to
             /\ u[b].state = IF b \in DOMAIN w.state THEN w.state[b] ELSE asg[b].state
  <2> DEFINE to == IF b \in DOMAIN w.to THEN w.to[b] ELSE asg[b].to
             st == IF b \in DOMAIN w.state THEN w.state[b] ELSE asg[b].state
  <2>1. u[b] = [asg[b] EXCEPT !.state = st, !.to = to]
    BY DEF Updated
  <2>2. asg[b] \in Assignment
    BY AssignmentsTyped
  <2>3. st \in States /\ to \in Days \cup {Unset}
    BY <1>1, <2>2 DEF WritesOK, Assignment, States
  <2> HIDE DEF u, st, to, w
  <2>4. u[b] \in Assignment /\ u[b].state = st /\ u[b].to = to
        /\ u[b].job = asg[b].job /\ u[b].worker = asg[b].worker /\ u[b].from = asg[b].from
    BY <2>1, <2>2, <2>3 DEF Assignment, States
  <2> QED BY <2>4 DEF st, to
<1>3. DOMAIN u = DOMAIN asg
  BY DEF Updated
<1>4. \/ w.new = {} /\ asg' = u
      \/ \E r \in w.new, a \in Slots \ DOMAIN asg : asg' = Update(u, At(a, r))
  BY DEF Commit
<1> HIDE DEF w, u
<1>5. CASE w.new = {} /\ asg' = u
  BY <1>2, <1>3, <1>5 DEF w
<1>6. CASE \E r \in w.new, a \in Slots \ DOMAIN asg : asg' = Update(u, At(a, r))
  <2>1. PICK r \in w.new, a \in Slots \ DOMAIN asg : asg' = Update(u, At(a, r))
    BY <1>6
  <2>2. DOMAIN asg' = DOMAIN asg \cup {a} /\ asg'[a] = r
        /\ \A b \in DOMAIN asg : asg'[b] = u[b]
    BY <1>3, <2>1 DEF Update, At
  <2> QED BY <1>2, <2>2 DEF w
<1> QED BY <1>4, <1>5, <1>6

LEMMA FinishStep ==
  ASSUME IInv, NEW s \in Sessions, Finish(s)
  PROVE  /\ DOMAIN sess' = Sessions
         /\ \A t \in Sessions : sess'[t].pc \in {"idle", "commit"} /\ WritesOK(sess'[t].writes)
         /\ sess'[s].pc = "idle" /\ sess'[s].writes = Nothing
         /\ \A t \in Sessions \ {s} : sess'[t] = sess[t]
         /\ lock' \in [Reqs -> Sessions \cup {NoSession}]
<1>1. sess'[s] = Idle /\ DOMAIN sess' = Sessions /\ \A t \in Sessions \ {s} : sess'[t] = sess[t]
  BY DEF IInv, Finish
<1>2. Idle.pc = "idle" /\ Idle.writes = Nothing
  BY DEF Idle
<1>3. lock' \in [Reqs -> Sessions \cup {NoSession}]
  BY DEF IInv, TablesOK, Finish
<1> QED BY <1>1, <1>2, <1>3, NothingOK DEF IInv

LEMMA CommitStep ==
  ASSUME IInv, NEW s \in Sessions, Commit(s)
  PROVE  IInv'
<1> DEFINE w == sess[s].writes
<1>1. WritesOK(w) /\ TablesOK
  BY DEF IInv
<1>2. /\ DOMAIN sess' = Sessions
      /\ \A t \in Sessions : sess'[t].pc \in {"idle", "commit"} /\ WritesOK(sess'[t].writes)
      /\ lock' \in [Reqs -> Sessions \cup {NoSession}]
  BY FinishStep DEF Commit
<1>3. status' = Update(status, w.status) /\ last' = Update(last, w.last)
      /\ offer' = Update(offer, w.offer) /\ avail' = Update(avail, w.avail)
  BY DEF Commit
<1> HIDE DEF w
<1>4. status' \in [Reqs -> Statuses]
  BY <1>1, <1>3, UpdatedColumn DEF WritesOK, TablesOK
<1>5. last' \in [Reqs -> Days]
  BY <1>1, <1>3, UpdatedColumn DEF WritesOK, TablesOK
<1>6. offer' \in [Reqs -> BOOLEAN]
  BY <1>1, <1>3, UpdatedColumn DEF WritesOK, TablesOK
<1>7. avail' \in [Workers -> BOOLEAN]
  BY <1>1, <1>3, UpdatedColumn DEF WritesOK, TablesOK
<1>8. DOMAIN asg' \subseteq Slots /\ \A a \in DOMAIN asg' : asg'[a] \in Assignment
  <2>1. CASE DOMAIN asg' = DOMAIN asg
    BY <1>1, <2>1, CommitAssignments DEF TablesOK
  <2>2. ASSUME NEW r \in sess[s].writes.new, NEW a \in Slots,
               DOMAIN asg' = DOMAIN asg \cup {a}, asg'[a] = r
        PROVE  DOMAIN asg' \subseteq Slots /\ \A b \in DOMAIN asg' : asg'[b] \in Assignment
    <3>1. r \in Assignment
      BY <1>1 DEF WritesOK, w
    <3> QED BY <1>1, <2>2, <3>1, CommitAssignments DEF TablesOK
  <2> QED BY <2>1, <2>2, CommitAssignments
<1>9. TablesOK'
  BY <1>2, <1>4, <1>5, <1>6, <1>7, <1>8 DEF TablesOK
<1>10. \A t \in Sessions : WritesOK(sess[t].writes)'
  BY <1>2 DEF WritesOK
<1> QED BY <1>2, <1>9, <1>10 DEF IInv

LEMMA AbortStep ==
  ASSUME IInv, NEW s \in Sessions, Abort(s)
  PROVE  IInv'
<1>1. /\ DOMAIN sess' = Sessions
      /\ \A t \in Sessions : sess'[t].pc \in {"idle", "commit"} /\ WritesOK(sess'[t].writes)
      /\ lock' \in [Reqs -> Sessions \cup {NoSession}]
  BY FinishStep DEF Abort
<1>2. TablesOK'
  BY <1>1 DEF IInv, TablesOK, Abort
<1>3. \A t \in Sessions : WritesOK(sess[t].writes)'
  BY <1>1 DEF WritesOK
<1> QED BY <1>1, <1>2, <1>3 DEF IInv

(* The steps of a session, by what they leave in it.                       *)
LEMMA PlainSteps ==
  ASSUME IInv, NEW s \in Sessions
  PROVE  /\ \A a \in DOMAIN asg :
              \/ Acknowledge(s, a) \/ DeclineAssignment(s, a)
              \/ \E to \in States : UpdateStatus(s, a, to)
              \/ CheckIn(s, a) \/ HalfDay(s, a)
              => PlansChange(s)
         /\ \A q \in Reqs : CompleteRequirement(s, q) \/ CancelRequirement(s, q) => PlansChange(s)
         /\ \A x \in Workers : SetAvailability(s, x) => PlansChange(s)
BY RespondStep, UpdateStatusStep, AttendStep, CompleteStep, CancelStep, AvailabilityStep

LEMMA PlannedTyped ==
  ASSUME IInv, NEW s \in Sessions, PlansChange(s)
  PROVE  IInv'
<1>1. lock' \in [Reqs -> Sessions \cup {NoSession}]
  BY DEF PlansChange, IInv, TablesOK
<1> QED BY <1>1, PlanStep DEF PlansChange

LEMMA NextIInv == IInv /\ [Next]_vars => IInv'
<1> SUFFICES ASSUME IInv, [Next]_vars PROVE IInv'
  OBVIOUS
<1>1. CASE Next
  <2> SUFFICES ASSUME NEW s \in Sessions,
         \/ \E new \in Requests : CreateAssignment(s, new)
         \/ PlansChange(s)
         \/ \E a \in DOMAIN asg, x \in Workers : ReplaceWorker(s, a, x) \/ ReplaceForComplaint(s, a, x)
         \/ \E q \in Reqs : RequestExtension(s, q) \/ RejectExtension(s, q)
         \/ \E q \in Reqs, days \in Days : ApproveExtension(s, q, days)
         \/ Commit(s) \/ Abort(s)
       PROVE  IInv'
    BY <1>1, PlainSteps DEF Next, States
  <2> QED BY CreateStep, PlannedTyped, ReplaceStep, ComplaintStep, OfferStep, ExtendStep,
             CommitStep, AbortStep
<1>2. CASE UNCHANGED vars
  BY <1>2 DEF vars, IInv, TablesOK, WritesOK
<1> QED BY <1>1, <1>2

LEMMA Invariance == Spec => []IInv
<1> QED BY InitIInv, NextIInv, PTL DEF Spec

-----------------------------------------------------------------------------
(* Type correctness of the requirements, assignments and flags, and of     *)
(* what requests in flight would write, under any overlap of requests.     *)
THEOREM TypeCorrect == Spec => []TypeOK
<1>1. IInv => TypeOK
  BY DEF IInv, TablesOK, WritesOK, TypeOK, Statuses
<1> QED BY <1>1, Invariance, PTL

-----------------------------------------------------------------------------
(* Any number of administrators create assignments; one session, the desk, *)
(* serves whatever else neither adds nor moves assignments.                *)
OneDesk(desk) ==
  /\ desk \in Sessions
  /\ \A s \in Sessions :
       Serves[s] \subseteq IF s = desk THEN Endpoints \ {"replace", "complaint", "extend"}
                           ELSE {"create"}

(* Until it commits, a creation holds the lock, and what it found under it *)
(* stays true: the room on each day, no assignment of the worker on them,  *)
(* and the status.                                                         *)
Creates(s, r) ==
  /\ sess[s].writes.new = {r} /\ r \in Assignment /\ r.state = "assigned"
  /\ lock[r.job] = s /\ HasRoom(r) /\ ~OnSameDays(r)
  /\ sess[s].writes.state = <<>> /\ sess[s].writes.to = <<>> /\ sess[s].writes.last = <<>>
  /\ \A q \in DOMAIN sess[s].writes.status :
       q = r.job /\ status[q] = "approved" /\ sess[s].writes.status[q] = "workers_assigned"

InFlight(s, desk) ==
  sess[s].pc = "commit" =>
    \/ \E r \in Assignment : Creates(s, r)
    \/ s = desk /\ Plain(sess[s].writes)

DeskInv(desk) ==
  /\ IInv
  /\ IsFiniteSet(DOMAIN asg)
  /\ DayCapacity /\ WorkerOncePerDay
  /\ \A s \in Sessions : InFlight(s, desk)

Present(q, d) == {a \in OpenOn(q) : d \in DaysOf(asg[a])}

LEMMA InitDeskInv ==
  ASSUME NEW desk, Init
  PROVE  DeskInv(desk)
<1>1. DOMAIN asg = {} /\ \A s \in Sessions : sess[s].pc = "idle"
  BY DEF Init, Idle
<1>2. DayCapacity
  <2> SUFFICES ASSUME NEW q \in Reqs, NEW d \in Days
               PROVE  Cardinality({a \in OpenOn(q) : d \in DaysOf(asg[a])}) <= Needed[q]
    BY DEF DayCapacity
  <2>1. {a \in OpenOn(q) : d \in DaysOf(asg[a])} = {}
    BY <1>1 DEF OpenOn
  <2>2. Needed[q] \in Nat
    OBVIOUS
  <2>3. Cardinality({a \in OpenOn(q) : d \in DaysOf(asg[a])}) = 0
    BY <2>1, FS_EmptySet
  <2> QED BY <2>2, <2>3
<1>3. WorkerOncePerDay
  BY <1>1 DEF WorkerOncePerDay
<1>4. IsFiniteSet(DOMAIN asg)
  BY <1>1, FS_EmptySet
<1> QED BY <1>1, <1>2, <1>3, <1>4, InitIInv DEF DeskInv, InFlight

(* A step that leaves the tables alone keeps what they owe each other.     *)
LEMMA TablesKept ==
  ASSUME DayCapacity, WorkerOncePerDay, UNCHANGED <<asg, last>>
  PROVE  DayCapacity' /\ WorkerOncePerDay'
BY DEF DayCapacity, WorkerOncePerDay, OpenOn, Open, DaysOf, Begin, End, Overlap

LEMMA CreatesKept ==
  ASSUME NEW t \in Sessions, NEW r \in Assignment, Creates(t, r),
         UNCHANGED <<asg, last, status>>, sess'[t] = sess[t], lock'[r.job] = lock[r.job]
  PROVE  Creates(t, r)'
BY DEF Creates, HasRoom, OnSameDays, Between, OpenOn, Open, DaysOf, Begin, End, Overlap

LEMMA PlainKept ==
  ASSUME NEW t \in Sessions, Plain(sess[t].writes),
         UNCHANGED <<asg, status>>, sess'[t] = sess[t]
  PROVE  Plain(sess[t].writes)'
BY DEF Plain, Open

(* Requests that stay in flight while another reads.                       *)
LEMMA OthersKept ==
  ASSUME NEW desk, NEW s \in Sessions, DeskInv(desk),
         UNCHANGED <<status, last, asg>>,
         \A t \in Sessions \ {s} : sess'[t] = sess[t],
         \A q \in Reqs : lock[q] \in Sessions \ {s} => lock'[q] = lock[q]
  PROVE  \A t \in Sessions \ {s} : InFlight(t, desk)'
<1> SUFFICES ASSUME NEW t \in Sessions \ {s}, sess[t].pc = "commit" PROVE InFlight(t, desk)'
  BY DEF InFlight
<1>1. CASE \E r \in Assignment : Creates(t, r)
  <2>1. PICK r \in Assignment : Creates(t, r)
    BY <1>1
  <2>2. lock'[r.job] = lock[r.job]
    BY <2>1 DEF Creates, Assignment
  <2>3. Creates(t, r)'
    BY <2>1, <2>2, CreatesKept
  <2> QED BY <2>3 DEF InFlight
<1>2. CASE t = desk /\ Plain(sess[t].writes)
  BY <1>2, PlainKept DEF InFlight
<1> QED BY <1>1, <1>2 DEF DeskInv, InFlight

LEMMA CreateKeepsDesk ==
  ASSUME NEW desk, NEW s \in Sessions, DeskInv(desk), NEW new \in Requests, CreateAssignment(s, new)
  PROVE  DeskInv(desk)'
<1> DEFINE occ == Occupy(new.worker)
           st  == SetStatus(new.job, "workers_assigned")
           w   == [Nothing EXCEPT !.new = {new}, !.avail = occ, !.status = st]
<1>1. Plan(s, w)
  BY DEF CreateAssignment
<1>2. new \in Assignment /\ new.job \in Reqs /\ new.state = "assigned"
  BY TableValues DEF Requests, Assignment, States, Unset
<1>3. \A q \in DOMAIN st : q = new.job /\ status[q] = "approved" /\ st[q] = "workers_assigned"
  BY DEF SetStatus, Changed, CreateAssignment
<1>4. lock[new.job] = NoSession /\ lock'[new.job] = s
      /\ \A q \in Reqs \ {new.job} : lock'[q] = lock[q]
  BY <1>2 DEF CreateAssignment, Locks, DeskInv, IInv, TablesOK
<1>5. IInv'
  BY CreateStep DEF DeskInv
<1>6. UNCHANGED <<status, last, asg>> /\ \A t \in Sessions \ {s} : sess'[t] = sess[t]
  BY <1>1 DEF Plan, DeskInv, IInv
<1>7. sess'[s].writes = w
  BY <1>1 DEF Plan, DeskInv, IInv
<1> HIDE DEF occ, st
<1>8. /\ w.status = st /\ w.new = {new} /\ w.last = <<>> /\ w.state = <<>> /\ w.to = <<>>
  BY DEF Nothing
<1> HIDE DEF w
<1>9. HasRoom(new)' /\ (~OnSameDays(new))'
  BY <1>6 DEF CreateAssignment, HasRoom, OnSameDays, Between, OpenOn, Open, DaysOf, Begin, End, Overlap
<1>10. Creates(s, new)'
  BY <1>2, <1>3, <1>4, <1>6, <1>7, <1>8, <1>9 DEF Creates
<1>11. \A t \in Sessions \ {s} : InFlight(t, desk)'
  BY <1>4, <1>6, OthersKept
<1> QED BY <1>2, <1>5, <1>6, <1>10, <1>11, TablesKept DEF DeskInv, InFlight

LEMMA ChangeKeepsDesk ==
  ASSUME NEW desk \in Sessions, DeskInv(desk), PlansChange(desk)
  PROVE  DeskInv(desk)'
<1>1. PICK w : Plan(desk, w) /\ UNCHANGED lock /\ Plain(w)
  BY DEF PlansChange
<1>2. /\ UNCHANGED <<status, last, asg>>
      /\ \A t \in Sessions \ {desk} : sess'[t] = sess[t]
      /\ sess'[desk].writes = w
  BY <1>1 DEF Plan, DeskInv, IInv
<1>3. Plain(sess[desk].writes)'
  BY <1>1, <1>2 DEF Plain, Open
<1>4. \A t \in Sessions \ {desk} : InFlight(t, desk)'
  BY <1>1, <1>2, OthersKept
<1>5. IInv'
  BY PlannedTyped DEF DeskInv
<1> QED BY <1>2, <1>3, <1>4, <1>5, TablesKept DEF DeskInv, InFlight

LEMMA AbortKeepsDesk ==
  ASSUME NEW desk, NEW s \in Sessions, DeskInv(desk), Abort(s)
  PROVE  DeskInv(desk)'
<1>1. /\ UNCHANGED <<status, last, asg>>
      /\ \A t \in Sessions \ {s} : sess'[t] = sess[t]
      /\ sess'[s].pc = "idle"
  BY FinishStep DEF Abort, DeskInv
<1>2. \A q \in Reqs : lock[q] \in Sessions \ {s} => lock'[q] = lock[q]
  BY DEF Abort, Finish
<1>3. \A t \in Sessions \ {s} : InFlight(t, desk)'
  BY <1>1, <1>2, OthersKept
<1>4. IInv'
  BY AbortStep DEF DeskInv
<1>5. \A t \in Sessions : InFlight(t, desk)'
  <2>1. InFlight(s, desk)'
    BY <1>1 DEF InFlight
  <2> QED BY <1>3, <2>1
<1>6. DayCapacity' /\ WorkerOncePerDay' /\ IsFiniteSet(DOMAIN asg)'
  BY <1>1, TablesKept DEF DeskInv
<1> QED BY <1>4, <1>5, <1>6 DEF DeskInv

(* A commit of either kind closes or advances open assignments, moves no   *)
(* date, and inserts what the session creates, if anything.                *)
Settles(w) ==
  /\ w.last = <<>> /\ w.to = <<>>
  /\ \A a \in DOMAIN w.state : a \in DOMAIN asg /\ Open(a)

LEMMA CommitSettles ==
  ASSUME IInv, NEW s \in Sessions, Commit(s), Settles(sess[s].writes)
  PROVE  /\ last' = last
         /\ \A b \in DOMAIN asg :
              /\ b \in DOMAIN asg'
              /\ asg'[b].job = asg[b].job /\ asg'[b].worker = asg[b].worker
              /\ asg'[b].from = asg[b].from /\ asg'[b].to = asg[b].to
              /\ Open(b)' => Open(b)
              /\ asg'[b].state = asg[b].state \/ Open(b)
<1> DEFINE w == sess[s].writes
<1>1. last' = Update(last, w.last) /\ w.last = <<>>
  BY DEF Commit, Settles
<1>2. last' = last
  BY <1>1 DEF Update, IInv, TablesOK
<1>3. ASSUME NEW b \in DOMAIN asg
      PROVE  /\ b \in DOMAIN asg'
             /\ asg'[b].job = asg[b].job /\ asg'[b].worker = asg[b].worker
             /\ asg'[b].from = asg[b].from
             /\ asg'[b].to = IF b \in DOMAIN w.to THEN w.to[b] ELSE asg[b].to
             /\ asg'[b].state = IF b \in DOMAIN w.state THEN w.state[b] ELSE asg[b].state
  BY <1>3, CommitAssignments
<1>4. w.to = <<>> /\ \A a \in DOMAIN w.state : Open(a)
  BY DEF Settles
<1> HIDE DEF w
<1>5. ASSUME NEW b \in DOMAIN asg
      PROVE  /\ asg'[b].to = asg[b].to
             /\ asg'[b].state = asg[b].state \/ Open(b)
  BY <1>3, <1>4
<1>6. ASSUME NEW b \in DOMAIN asg, Open(b)'
      PROVE  Open(b)
  BY <1>5, <1>6 DEF Open
<1> QED BY <1>2, <1>3, <1>5, <1>6

(* The days an assignment covers, and the overlaps between assignments,    *)
(* then stay what they were.                                               *)
LEMMA SettledDays ==
  ASSUME last' = last, NEW b \in DOMAIN asg,
         asg'[b].job = asg[b].job, asg'[b].from = asg[b].from, asg'[b].to = asg[b].to
  PROVE  /\ Begin(asg[b])' = Begin(asg[b]) /\ End(asg[b])' = End(asg[b])
         /\ DaysOf(asg[b])' = DaysOf(asg[b])
BY DEF DaysOf, Begin, End

LEMMA PresentAfter ==
  ASSUME IInv, NEW s \in Sessions, Commit(s), Settles(sess[s].writes), NEW q \in Reqs, NEW d
  PROVE  /\ DOMAIN asg' = DOMAIN asg => Present(q, d)' \subseteq Present(q, d)
         /\ \A r, a : /\ DOMAIN asg' = DOMAIN asg \cup {a} /\ asg'[a] = r
                      => /\ Present(q, d)' \subseteq Present(q, d) \cup {a}
                         /\ r.job # q \/ d \notin DaysOf(r) => Present(q, d)' \subseteq Present(q, d)
<1>1. \A b \in DOMAIN asg : b \in Present(q, d)' => b \in Present(q, d)
  BY CommitSettles, SettledDays DEF Present, OpenOn
<1>2. Present(q, d)' \subseteq DOMAIN asg'
  BY DEF Present, OpenOn
<1>3. ASSUME NEW r, NEW a, asg'[a] = r, r.job # q \/ d \notin DaysOf(r)
      PROVE  a \notin Present(q, d)'
  <2>1. DaysOf(asg[a])' = DaysOf(r)
    BY <1>3, CommitSettles DEF DaysOf, Begin, End
  <2> QED BY <1>3, <2>1 DEF Present, OpenOn
<1> QED BY <1>1, <1>2, <1>3

LEMMA PresentFinite ==
  ASSUME IsFiniteSet(DOMAIN asg), NEW q, NEW d
  PROVE  IsFiniteSet(Present(q, d)) /\ Cardinality(Present(q, d)) \in Nat
BY FS_Subset, FS_CardinalityType DEF Present, OpenOn

LEMMA FewerPresent ==
  ASSUME IsFiniteSet(DOMAIN asg), NEW q, NEW d, NEW S \in SUBSET Present(q, d)
  PROVE  Cardinality(S) \in Nat /\ Cardinality(S) <= Cardinality(Present(q, d))
BY PresentFinite, FS_Subset, FS_CardinalityType

(* What a commit inserts: nothing, or the assignment a creation holds the  *)
(* lock for.                                                               *)
Inserts(s, r, a) ==
  /\ a \notin DOMAIN asg /\ DOMAIN asg' = DOMAIN asg \cup {a} /\ asg'[a] = r /\ Creates(s, r)

LEMMA CommitInserts ==
  ASSUME NEW desk, NEW s \in Sessions, DeskInv(desk), Commit(s)
  PROVE  /\ Settles(sess[s].writes)
         /\ \/ DOMAIN asg' = DOMAIN asg
            \/ \E r \in Assignment, a \in Slots : Inserts(s, r, a)
<1>1. InFlight(s, desk) /\ sess[s].pc = "commit"
  BY DEF DeskInv, Commit
<1>2. CASE \E r \in Assignment : Creates(s, r)
  <2>1. PICK r \in Assignment : Creates(s, r)
    BY <1>2
  <2>2. Settles(sess[s].writes)
    BY <2>1 DEF Creates, Settles
  <2>3. sess[s].writes.new = {r}
    BY <2>1 DEF Creates
  <2>4. \/ sess[s].writes.new = {}
        \/ \E x \in sess[s].writes.new, a \in Slots \ DOMAIN asg :
             DOMAIN asg' = DOMAIN asg \cup {a} /\ asg'[a] = x
    BY CommitAssignments DEF DeskInv
  <2>5. \E a \in Slots \ DOMAIN asg : DOMAIN asg' = DOMAIN asg \cup {a} /\ asg'[a] = r
    BY <2>3, <2>4
  <2> QED BY <2>1, <2>2, <2>5 DEF Inserts
<1>3. CASE Plain(sess[s].writes)
  <2>1. Settles(sess[s].writes) /\ sess[s].writes.new = {}
    BY <1>3 DEF Plain, Settles
  <2>2. DOMAIN asg' = DOMAIN asg
    BY <2>1, CommitAssignments DEF DeskInv
  <2> QED BY <2>1, <2>2
<1> QED BY <1>1, <1>2, <1>3 DEF InFlight

LEMMA CommitKeepsCapacity ==
  ASSUME NEW desk, NEW s \in Sessions, DeskInv(desk), Commit(s)
  PROVE  DayCapacity' /\ IsFiniteSet(DOMAIN asg)'
<1>1. IsFiniteSet(DOMAIN asg) /\ IInv
  BY DEF DeskInv
<1>2. \A q \in Reqs, d \in Days : Cardinality(Present(q, d)) <= Needed[q]
  BY DEF DeskInv, DayCapacity, Present
<1>3. IsFiniteSet(DOMAIN asg')
  <2>1. \A a : IsFiniteSet(DOMAIN asg \cup {a})
    BY <1>1, FS_AddElement
  <2> QED BY <1>1, <2>1, CommitInserts DEF Inserts
<1>4. ASSUME NEW q \in Reqs, NEW d \in Days
      PROVE  Cardinality(Present(q, d)') <= Needed[q]
  <2>0. Needed[q] \in Nat
    OBVIOUS
  <2>1. CASE Present(q, d)' \subseteq Present(q, d)
    <3>1. Cardinality(Present(q, d)') \in Nat
          /\ Cardinality(Present(q, d)') <= Cardinality(Present(q, d))
      BY <1>1, <2>1, FewerPresent
    <3> QED BY <1>1, <1>2, <2>0, <3>1, PresentFinite
  <2>2. ASSUME NEW r \in Assignment, NEW a, Inserts(s, r, a), r.job = q, d \in DaysOf(r)
        PROVE  Cardinality(Present(q, d)') <= Needed[q]
    <3>1. Cardinality(Present(q, d)) < Needed[q]
      BY <2>2 DEF Inserts, Creates, HasRoom, Present
    <3>2. Present(q, d)' \subseteq Present(q, d) \cup {a}
      BY <1>1, <2>2, CommitInserts, PresentAfter DEF Inserts
    <3>3. a \notin Present(q, d)
      BY <2>2 DEF Inserts, Present, OpenOn
    <3>4. IsFiniteSet(Present(q, d) \cup {a})
          /\ Cardinality(Present(q, d) \cup {a}) = Cardinality(Present(q, d)) + 1
      BY <1>1, <3>3, PresentFinite, FS_AddElement
    <3>5. Cardinality(Present(q, d)') <= Cardinality(Present(q, d) \cup {a})
          /\ Cardinality(Present(q, d)') \in Nat
      BY <3>2, <3>4, FS_Subset, FS_CardinalityType
    <3> QED BY <1>1, <2>0, <3>1, <3>4, <3>5, PresentFinite
  <2>3. CASE DOMAIN asg' = DOMAIN asg
    BY <1>1, <2>1, <2>3, CommitInserts, PresentAfter
  <2>4. ASSUME NEW r \in Assignment, NEW a \in Slots, Inserts(s, r, a)
        PROVE  Cardinality(Present(q, d)') <= Needed[q]
    <3>1. \/ r.job = q /\ d \in DaysOf(r)
          \/ Present(q, d)' \subseteq Present(q, d)
      BY <1>1, <2>4, CommitInserts, PresentAfter DEF Inserts
    <3> QED BY <2>1, <2>2, <2>4, <3>1
  <2> QED BY <2>3, <2>4, CommitInserts
<1>5. DayCapacity'
  BY <1>4 DEF DayCapacity, Present
<1> QED BY <1>3, <1>5

LEMMA CommitKeepsWorkers ==
  ASSUME NEW desk, NEW s \in Sessions, DeskInv(desk), Commit(s)
  PROVE  WorkerOncePerDay'
<1>1. IInv /\ Settles(sess[s].writes) /\ WorkerOncePerDay
  BY CommitInserts DEF DeskInv
<1>2. ASSUME NEW a \in DOMAIN asg, NEW b \in DOMAIN asg, a # b, Open(a)', Open(b)',
             asg'[a].job = asg'[b].job, asg'[a].worker = asg'[b].worker
      PROVE  ~Overlap(asg[a], asg[b])'
  <2>1. ~Overlap(asg[a], asg[b])
    BY <1>1, <1>2, CommitSettles DEF WorkerOncePerDay
  <2>2. /\ Begin(asg[a])' = Begin(asg[a]) /\ End(asg[a])' = End(asg[a])
        /\ Begin(asg[b])' = Begin(asg[b]) /\ End(asg[b])' = End(asg[b])
    BY <1>1, CommitSettles, SettledDays
  <2> QED BY <2>1, <2>2 DEF Overlap
<1>3. ASSUME NEW r \in Assignment, NEW n, Inserts(s, r, n), NEW b \in DOMAIN asg, Open(b)',
             asg'[b].job = r.job, asg'[b].worker = r.worker
      PROVE  ~Overlap(asg[n], asg[b])' /\ ~Overlap(asg[b], asg[n])'
  <2>1. Open(b) /\ b \in Between(r.job, r.worker)
    BY <1>1, <1>3, CommitSettles DEF Between
  <2>2. ~Overlap(asg[b], r)
    BY <1>3, <2>1 DEF Inserts, Creates, OnSameDays, Open, OpenStates
  <2>3. Begin(asg[b])' = Begin(asg[b]) /\ End(asg[b])' = End(asg[b])
    BY <1>1, CommitSettles, SettledDays
  <2>4. Begin(asg[n])' = Begin(r) /\ End(asg[n])' = End(r)
    BY <1>1, <1>3, CommitSettles DEF Begin, End, Inserts
  <2> QED BY <2>2, <2>3, <2>4 DEF Overlap
<1>4. CASE DOMAIN asg' = DOMAIN asg
  BY <1>2, <1>4 DEF WorkerOncePerDay
<1>5. ASSUME NEW r \in Assignment, NEW n \in Slots, Inserts(s, r, n) PROVE WorkerOncePerDay'
  <2> SUFFICES ASSUME NEW a \in DOMAIN asg', NEW b \in DOMAIN asg', a # b, Open(a)', Open(b)',
                      asg'[a].job = asg'[b].job, asg'[a].worker = asg'[b].worker
               PROVE  ~Overlap(asg[a], asg[b])'
    BY DEF WorkerOncePerDay
  <2>1. (a \in DOMAIN asg \/ a = n) /\ (b \in DOMAIN asg \/ b = n) /\ asg'[n] = r
    BY <1>5 DEF Inserts
  <2>2. CASE a \in DOMAIN asg /\ b \in DOMAIN asg
    BY <1>2, <2>2
  <2>3. CASE a = n /\ b \in DOMAIN asg
    BY <1>3, <1>5, <2>1, <2>3
  <2>4. CASE b = n /\ a \in DOMAIN asg
    BY <1>3, <1>5, <2>1, <2>4
  <2> QED BY <2>1, <2>2, <2>3, <2>4
<1> QED BY <1>4, <1>5, CommitInserts

(* The lock of its requirement keeps other requests off what a creation    *)
(* has read.                                                               *)
LEMMA CommitKeepsCreation ==
  ASSUME NEW desk, NEW s \in Sessions, DeskInv(desk), Commit(s),
         NEW t \in Sessions \ {s}, NEW r \in Assignment, Creates(t, r)
  PROVE  Creates(t, r)'
<1> DEFINE q == r.job
<1>1. IInv /\ Settles(sess[s].writes) /\ q \in Reqs
  BY CommitInserts DEF DeskInv, Assignment
<1>2. sess'[t] = sess[t] /\ lock'[q] = lock[q] /\ lock[q] = t /\ t # NoSession
  <2>1. lock[q] = t
    BY DEF Creates
  <2>2. sess'[t] = sess[t]
    BY <1>1, FinishStep DEF Commit
  <2> QED BY <1>1, <2>1, <2>2 DEF Commit, Finish
<1>3. q \notin Written(sess[s].writes)
  BY <1>2 DEF Commit
<1>4. status'[q] = status[q]
  <2>1. q \notin DOMAIN sess[s].writes.status /\ q \in DOMAIN status
    BY <1>1, <1>3 DEF Written, IInv, TablesOK
  <2> QED BY <2>1 DEF Commit, Update
<1>5. ASSUME NEW x \in Assignment, NEW n, Inserts(s, x, n) PROVE x.job # q
  BY <1>2, <1>5 DEF Inserts, Creates
<1>6. HasRoom(r)'
  <2>1. last' = last
    BY <1>1, CommitSettles
  <2>2. DaysOf(r)' = DaysOf(r)
    BY <2>1 DEF DaysOf, Begin, End
  <2>3. ASSUME NEW d \in DaysOf(r) PROVE Cardinality(Present(q, d)') < Needed[q]
    <3>1. Present(q, d)' \subseteq Present(q, d)
      <4>1. CASE DOMAIN asg' = DOMAIN asg
        BY <1>1, <4>1, PresentAfter
      <4>2. ASSUME NEW x \in Assignment, NEW n \in Slots, Inserts(s, x, n)
            PROVE  Present(q, d)' \subseteq Present(q, d)
        BY <1>1, <1>5, <4>2, PresentAfter DEF Inserts
      <4> QED BY <4>1, <4>2, CommitInserts
    <3>2. Cardinality(Present(q, d)) < Needed[q]
      BY <2>3 DEF Creates, HasRoom, Present
    <3>3. IsFiniteSet(DOMAIN asg)
      BY DEF DeskInv
    <3>4. /\ Cardinality(Present(q, d)') \in Nat
          /\ Cardinality(Present(q, d)') <= Cardinality(Present(q, d))
      BY <3>1, <3>3, FewerPresent
    <3>5. Needed[q] \in Nat
      BY <1>1
    <3> QED BY <3>2, <3>3, <3>4, <3>5, PresentFinite
  <2> QED BY <2>2, <2>3 DEF HasRoom, Present
<1>7. (~OnSameDays(r))'
  <2> SUFFICES ASSUME NEW b \in DOMAIN asg', asg'[b].job = q, asg'[b].worker = r.worker,
                      asg'[b].state \notin {"declined", "cancelled", "replaced"}
               PROVE  ~Overlap(asg[b], r)'
    BY DEF OnSameDays, Between
  <2>1. b \in DOMAIN asg
    BY <1>1, <1>5, CommitInserts DEF Inserts
  <2>2. /\ asg[b].job = q /\ asg[b].worker = r.worker
        /\ asg[b].state \notin {"declined", "cancelled", "replaced"}
    BY <1>1, <2>1, CommitSettles DEF Open, OpenStates
  <2>3. ~Overlap(asg[b], r)
    BY <2>1, <2>2 DEF Creates, OnSameDays, Between
  <2>4. /\ Begin(asg[b])' = Begin(asg[b]) /\ End(asg[b])' = End(asg[b])
        /\ Begin(r)' = Begin(r) /\ End(r)' = End(r)
    BY <1>1, <2>1, CommitSettles, SettledDays DEF Begin, End
  <2> QED BY <2>3, <2>4 DEF Overlap
<1> QED BY <1>2, <1>4, <1>6, <1>7 DEF Creates

(* What the desk has decided stays legal while administrators commit: they *)
(* move no assignment, and a requirement only to workers_assigned.         *)
LEMMA CommitKeepsPlain ==
  ASSUME NEW desk, NEW s \in Sessions \ {desk}, DeskInv(desk), Commit(s),
         desk \in Sessions, Plain(sess[desk].writes)
  PROVE  Plain(sess[desk].writes)'
<1> DEFINE w == sess[desk].writes
<1>1. IInv /\ sess'[desk] = sess[desk] /\ WritesOK(w)
  BY FinishStep DEF DeskInv, Commit, IInv
<1>2. PICK r \in Assignment : Creates(s, r)
  BY DEF DeskInv, InFlight, Commit
<1>3. ASSUME NEW a \in DOMAIN w.state PROVE a \in DOMAIN asg' /\ Open(a)'
  <2>1. a \in DOMAIN asg /\ Open(a)
    BY <1>3 DEF Plain
  <2>2. a \in DOMAIN asg' /\ asg'[a].state = asg[a].state
    BY <1>1, <1>2, <2>1, CommitAssignments DEF Creates
  <2> QED BY <2>1, <2>2 DEF Open
<1>4. ASSUME NEW q \in DOMAIN w.status
      PROVE  w.status[q] \in RequirementTransitions[status'[q]] \ {"workers_assigned"}
  <2>1. w.status[q] \in RequirementTransitions[status[q]] \ {"workers_assigned"} /\ q \in Reqs
    BY <1>1 DEF Plain, WritesOK
  <2>2. \/ status'[q] = status[q]
        \/ status[q] = "approved" /\ status'[q] = "workers_assigned"
    <3>1. status' = Update(status, sess[s].writes.status)
      BY DEF Commit
    <3>2. \A x \in DOMAIN sess[s].writes.status :
            status[x] = "approved" /\ sess[s].writes.status[x] = "workers_assigned"
      BY <1>2 DEF Creates
    <3>3. q \in DOMAIN status
      BY <1>1, <2>1 DEF IInv, TablesOK
    <3> QED BY <3>1, <3>2, <3>3 DEF Update
  <2> QED BY <2>1, <2>2 DEF RequirementTransitions
<1>5. w.last = <<>> /\ w.to = <<>> /\ w.new = {}
  BY DEF Plain
<1> QED BY <1>1, <1>3, <1>4, <1>5 DEF Plain

LEMMA CommitKeepsDesk ==
  ASSUME NEW desk \in Sessions, NEW s \in Sessions, DeskInv(desk), Commit(s)
  PROVE  DeskInv(desk)'
<1>1. IInv' /\ DayCapacity' /\ WorkerOncePerDay' /\ IsFiniteSet(DOMAIN asg)'
  BY CommitStep, CommitKeepsCapacity, CommitKeepsWorkers DEF DeskInv
<1>2. sess'[s].pc = "idle" /\ \A t \in Sessions \ {s} : sess'[t] = sess[t]
  BY FinishStep DEF DeskInv, Commit
<1>3. ASSUME NEW t \in Sessions PROVE InFlight(t, desk)'
  <2>1. CASE t = s \/ sess[t].pc # "commit"
    BY <1>2, <2>1 DEF InFlight
  <2>2. CASE t # s /\ \E r \in Assignment : Creates(t, r)
    BY <2>2, CommitKeepsCreation DEF InFlight
  <2>3. CASE t # s /\ t = desk /\ Plain(sess[desk].writes)
    BY <2>3, CommitKeepsPlain DEF InFlight
  <2> QED BY <2>1, <2>2, <2>3 DEF DeskInv, InFlight
<1> QED BY <1>1, <1>3 DEF DeskInv

-----------------------------------------------------------------------------
(* The steps of the system, with one desk.                                 *)
LEMMA DeskSteps ==
  ASSUME NEW desk, OneDesk(desk), DeskInv(desk), Next
  PROVE  \/ \E t \in Sessions, new \in Requests : CreateAssignment(t, new)
         \/ PlansChange(desk)
         \/ \E t \in Sessions : Commit(t) \/ Abort(t)
<1>1. IInv
  BY DEF DeskInv
<1>2. ASSUME NEW t \in Sessions, NEW e, Serve(t, e), e # "create"
      PROVE  t = desk /\ e \notin {"replace", "complaint", "extend"}
  BY <1>2 DEF Serve, OneDesk
<1>3. ASSUME NEW t \in Sessions, NEW a \in DOMAIN asg,
             \/ Acknowledge(t, a) \/ DeclineAssignment(t, a)
             \/ \E to \in States : UpdateStatus(t, a, to)
             \/ CheckIn(t, a) \/ HalfDay(t, a)
      PROVE  PlansChange(desk)
  <2>1. PlansChange(t)
    BY <1>1, <1>3, PlainSteps
  <2>2. \E e \in {"respond", "status", "attend"} : Serve(t, e)
    BY <1>3 DEF Acknowledge, DeclineAssignment, UpdateStatus, CheckIn, HalfDay
  <2> QED BY <1>2, <2>1, <2>2
<1>4. ASSUME NEW t \in Sessions, NEW q \in Reqs, CompleteRequirement(t, q) \/ CancelRequirement(t, q)
      PROVE  PlansChange(desk)
  <2>1. PlansChange(t)
    BY <1>1, <1>4, PlainSteps
  <2>2. \E e \in {"complete", "cancel"} : Serve(t, e)
    BY <1>4 DEF CompleteRequirement, CancelRequirement
  <2> QED BY <1>2, <2>1, <2>2
<1>5. ASSUME NEW t \in Sessions, NEW x \in Workers, SetAvailability(t, x)
      PROVE  PlansChange(desk)
  <2>1. PlansChange(t)
    BY <1>1, <1>5, PlainSteps
  <2>2. Serve(t, "availability")
    BY <1>5 DEF SetAvailability
  <2> QED BY <1>2, <2>1, <2>2
<1>6. ASSUME NEW t \in Sessions, NEW a \in DOMAIN asg, NEW x \in Workers,
             ReplaceWorker(t, a, x) \/ ReplaceForComplaint(t, a, x)
      PROVE  FALSE
  BY <1>2, <1>6 DEF ReplaceWorker, ReplaceForComplaint
<1>7. ASSUME NEW t \in Sessions, NEW q \in Reqs,
             \/ RequestExtension(t, q) \/ RejectExtension(t, q)
             \/ \E days \in Days : ApproveExtension(t, q, days)
      PROVE  FALSE
  BY <1>2, <1>7 DEF RequestExtension, RejectExtension, ApproveExtension
<1> QED BY <1>3, <1>4, <1>5, <1>6, <1>7 DEF Next, States

LEMMA NextDeskInv ==
  ASSUME NEW desk, OneDesk(desk), DeskInv(desk), [Next]_vars
  PROVE  DeskInv(desk)'
<1>0. desk \in Sessions
  BY DEF OneDesk
<1>1. CASE Next
  BY <1>0, <1>1, DeskSteps, CreateKeepsDesk, ChangeKeepsDesk, CommitKeepsDesk, AbortKeepsDesk
<1>2. CASE UNCHANGED vars
  <2>1. UNCHANGED <<asg, last, status>> /\ UNCHANGED <<sess, lock>>
    BY <1>2 DEF vars
  <2>2. IInv' /\ IsFiniteSet(DOMAIN asg)'
    BY <1>2, <2>1, NextIInv DEF DeskInv
  <2>3. \A t \in Sessions : InFlight(t, desk)'
    <3>1. ASSUME NEW t \in Sessions, NEW r \in Assignment, Creates(t, r) PROVE Creates(t, r)'
      BY <2>1, <3>1, CreatesKept
    <3>2. ASSUME NEW t \in Sessions, Plain(sess[t].writes) PROVE Plain(sess[t].writes)'
      BY <2>1, <3>2, PlainKept
    <3> QED BY <2>1, <3>1, <3>2 DEF DeskInv, InFlight
  <2> QED BY <2>1, <2>2, <2>3, TablesKept DEF DeskInv
<1> QED BY <1>1, <1>2

LEMMA DeskInvariance ==
  ASSUME NEW desk, OneDesk(desk)
  PROVE  Spec => []DeskInv(desk)
<1>1. Init => DeskInv(desk)
  BY InitDeskInv
<1>2. DeskInv(desk) /\ [Next]_vars => DeskInv(desk)'
  BY NextDeskInv
<1> QED BY <1>1, <1>2, PTL DEF Spec

(* What a commit writes to a requirement is a step of its machine.         *)
LEMMA CommitMoves ==
  ASSUME NEW desk, NEW s \in Sessions, DeskInv(desk), Commit(s), NEW q \in Reqs
  PROVE  status'[q] # status[q] => status'[q] \in RequirementTransitions[status[q]]
<1> DEFINE w == sess[s].writes
<1>1. \A x \in DOMAIN w.status : w.status[x] \in RequirementTransitions[status[x]]
  <2>1. InFlight(s, desk) /\ sess[s].pc = "commit"
    BY DEF DeskInv, Commit
  <2>2. ASSUME NEW r \in Assignment, Creates(s, r)
        PROVE  \A x \in DOMAIN w.status : w.status[x] \in RequirementTransitions[status[x]]
    BY <2>2 DEF Creates, RequirementTransitions
  <2>3. CASE Plain(w)
    BY <2>3 DEF Plain
  <2> QED BY <2>1, <2>2, <2>3 DEF InFlight
<1>2. status' = Update(status, w.status) /\ q \in DOMAIN status
  BY DEF Commit, DeskInv, IInv, TablesOK
<1> HIDE DEF w
<1> QED BY <1>1, <1>2 DEF Update

LEMMA NextMoves ==
  ASSUME NEW desk, OneDesk(desk), DeskInv(desk), [Next]_vars, NEW q \in Reqs
  PROVE  status'[q] # status[q] => status'[q] \in RequirementTransitions[status[q]]
<1>1. CASE \E t \in Sessions : Commit(t)
  BY <1>1, CommitMoves
<1>2. CASE Next /\ ~\E t \in Sessions : Commit(t)
  BY <1>2, DeskSteps DEF CreateAssignment, PlansChange, Plan, Abort
<1>3. CASE UNCHANGED vars
  BY <1>3 DEF vars
<1> QED BY <1>1, <1>2, <1>3

-----------------------------------------------------------------------------
(* Administrators who assign at the same time never put more workers on a  *)
(* day of a requirement than it asks for: the row lock of POST             *)
(* /assignments is held from the count until the commit.                   *)
THEOREM DayNeverOverfull ==
  ASSUME NEW desk, OneDesk(desk)
  PROVE  Spec => []DayCapacity
<1>1. DeskInv(desk) => DayCapacity
  BY DEF DeskInv
<1> QED BY <1>1, DeskInvariance, PTL

(* Nor do they put a worker on a day of a requirement twice, whoever else  *)
(* submits the same assignment.                                            *)
THEOREM WorkerCoversDayOnce ==
  ASSUME NEW desk, OneDesk(desk)
  PROVE  Spec => []WorkerOncePerDay
<1>1. DeskInv(desk) => WorkerOncePerDay
  BY DEF DeskInv
<1> QED BY <1>1, DeskInvariance, PTL

(* A requirement moves along its state machine, although the desk and the  *)
(* administrators write its status from what they read before each other's *)
(* commits.                                                                *)
THEOREM RequirementsFollowTheirMachine ==
  ASSUME NEW desk, OneDesk(desk)
  PROVE  Spec => RequirementMoves
<1>1. DeskInv(desk) /\ [Next]_vars =>
        [\A q \in Reqs : status'[q] # status[q] => status'[q] \in RequirementTransitions[status[q]]]_vars
  BY NextMoves
<1> QED BY <1>1, DeskInvariance, PTL DEF Spec, RequirementMoves

-----------------------------------------------------------------------------
(* Occupied workers.  Beside the desk, either one session assigns, or all  *)
(* assign to one requirement, whose lock lets one do so at a time; nobody  *)
(* sets a flag by hand.                                                    *)
OneAtWork ==
  /\ \A s \in Sessions : "availability" \notin Serves[s]
  /\ \/ \E q \in Reqs : Reqs = {q}
     \/ \A s, t \in Sessions : "create" \in Serves[s] /\ "create" \in Serves[t] => s = t

(* A unit of work that frees a worker closes what the worker had.          *)
Frees(w) ==
  \A x \in DOMAIN w.avail :
    /\ w.avail[x] = TRUE /\ avail[x] = FALSE
    /\ \A a \in OpenOf(x) : a \in DOMAIN w.state /\ w.state[a] \notin OpenStates

Books(w) ==
  \A r \in w.new : OpenOf(r.worker) = {} /\ avail[r.worker] = TRUE /\ w.avail = At(r.worker, FALSE)

OneOpenEach ==
  \A a, b \in DOMAIN asg : Open(a) /\ Open(b) /\ asg[a].worker = asg[b].worker => a = b

Assigning(s) == sess[s].pc = "commit" /\ sess[s].writes.new # {}

OccInv ==
  /\ OneOpenEach /\ OccupiedUnavailable
  /\ \A s \in Sessions : sess[s].pc = "commit" =>
       /\ sess[s].writes.new = {} => Frees(sess[s].writes)
       /\ sess[s].writes.new # {} => Books(sess[s].writes) /\ "create" \in Serves[s]
  /\ \A s, t \in Sessions : Assigning(s) /\ Assigning(t) => s = t

LEMMA FreesIs ==
  ASSUME NEW w, NEW av, NEW ss, w.avail = av, w.state = ss,
         \A x \in DOMAIN av : av[x] = TRUE /\ avail[x] = FALSE
                              /\ \A a \in OpenOf(x) : a \in DOMAIN ss /\ ss[a] \notin OpenStates
  PROVE  Frees(w)
BY DEF Frees

(* What a release writes: the flags that are not yet set.                  *)
LEMMA ReleaseIs ==
  ASSUME IInv, NEW xs \in SUBSET Workers
  PROVE  \A x \in DOMAIN Release(xs) : x \in xs /\ Release(xs)[x] = TRUE /\ avail[x] = FALSE
BY DEF Release, Changed, IInv, TablesOK

LEMMA SetStateOpen ==
  ASSUME NEW q \in Reqs, NEW v, v \notin OpenStates
  PROVE  \A a \in OpenOn(q) : a \in DOMAIN SetState(OpenOn(q), v) /\ SetState(OpenOn(q), v)[a] = v
BY DEF SetState, OpenOn, Open

PlansFreeing(s) == \E w : Plan(s, w) /\ Frees(w)

LEMMA FreeingSteps ==
  ASSUME IInv, OneOpenEach, NEW s \in Sessions, NEW a \in DOMAIN asg,
         \/ Acknowledge(s, a) \/ DeclineAssignment(s, a)
         \/ \E to \in States : UpdateStatus(s, a, to)
         \/ CheckIn(s, a) \/ HalfDay(s, a)
  PROVE  PlansFreeing(s)
<1>0. asg[a].worker \in Workers
  BY AssignmentsTyped
<1>1. ASSUME NEW w, Plan(s, w), DOMAIN w.avail = {} PROVE PlansFreeing(s)
  BY <1>1 DEF PlansFreeing, Frees
<1>2. CASE Acknowledge(s, a) \/ CheckIn(s, a) \/ HalfDay(s, a)
  <2>1. \A ss, st : /\ [Nothing EXCEPT !.state = ss].avail = <<>>
                    /\ [Nothing EXCEPT !.state = ss, !.status = st].avail = <<>>
    BY DEF Nothing
  <2>2. PICK w : Plan(s, w) /\ w.avail = <<>>
    BY <1>2, <2>1 DEF Acknowledge, CheckIn, HalfDay
  <2> QED BY <1>1, <2>2
<1>3. ASSUME NEW to \in States, NEW xs \in SUBSET {asg[a].worker}, Open(a), NEW w, Plan(s, w),
             w.avail = Release(xs), w.state = At(a, to), to \notin OpenStates \/ xs = {}
      PROVE  PlansFreeing(s)
  <2>1. \A x \in DOMAIN Release(xs) : x = asg[a].worker /\ Release(xs)[x] = TRUE /\ avail[x] = FALSE /\ to \notin OpenStates
    BY <1>0, <1>3, ReleaseIs
  <2>2. \A b \in OpenOf(asg[a].worker) : b = a
    BY <1>3 DEF OneOpenEach, OpenOf
  <2>3. DOMAIN At(a, to) = {a} /\ At(a, to)[a] = to
    BY AtIs
  <2>4. Frees(w)
    BY <1>3, <2>1, <2>2, <2>3 DEF Frees
  <2> QED BY <1>3, <2>4 DEF PlansFreeing
<1>4. ASSUME NEW freed \in SUBSET {asg[a].worker}, MayDecline(a), Plan(s, Decline(a, freed)) PROVE PlansFreeing(s)
  <2>1. Decline(a, freed).avail = Release(freed) /\ Decline(a, freed).state = At(a, "declined")
    BY DEF Decline, Nothing
  <2>2. Open(a) /\ "declined" \in States \ OpenStates
    BY <1>4, MovesFromOpen, TableValues DEF MayDecline, OpenStates
  <2> QED BY <1>3, <1>4, <2>1, <2>2
<1>5. CASE DeclineAssignment(s, a)
  BY <1>4, <1>5 DEF DeclineAssignment
<1>6. ASSUME NEW to \in States, UpdateStatus(s, a, to) PROVE PlansFreeing(s)
  <2>1. Open(a)
    BY <1>6, MovesFromOpen DEF UpdateStatus
  <2>2. CASE to = "declined"
    BY <1>4, <1>6, <2>2 DEF UpdateStatus
  <2>3. CASE to # "declined"
    <3> DEFINE xs == IF to \in FreeingStates THEN {asg[a].worker} ELSE {}
               av == Release(xs)
               ss == At(a, to)
               w  == [Nothing EXCEPT !.state = ss, !.avail = av]
    <3>1. Plan(s, w)
      BY <1>6, <2>3 DEF UpdateStatus
    <3>2. to \notin OpenStates \/ xs = {}
      BY DEF FreeingStates, OpenStates
    <3>3. w.avail = av /\ w.state = ss
      BY DEF Nothing
    <3> HIDE DEF w
    <3> QED BY <1>3, <2>1, <3>1, <3>2, <3>3
  <2> QED BY <2>2, <2>3
<1> QED BY <1>2, <1>5, <1>6

LEMMA FreeingClosures ==
  ASSUME IInv, OneOpenEach, NEW s \in Sessions, NEW q \in Reqs,
         CompleteRequirement(s, q) \/ CancelRequirement(s, q)
  PROVE  PlansFreeing(s)
<1>1. CASE CompleteRequirement(s, q)
  <2>1. \A st, ss : [Nothing EXCEPT !.status = st, !.state = ss].avail = <<>>
    BY DEF Nothing
  <2>2. PICK w : Plan(s, w) /\ w.avail = <<>>
    BY <1>1, <2>1 DEF CompleteRequirement
  <2> QED BY <2>2 DEF PlansFreeing, Frees
<1>2. CASE CancelRequirement(s, q)
  <2> DEFINE ws == {asg[a].worker : a \in OpenOn(q)}
             av == Release(ws)
             ss == SetState(OpenOn(q), "cancelled")
             st == At(q, "cancelled")
             w  == [Nothing EXCEPT !.status = st, !.state = ss, !.avail = av]
  <2>1. Plan(s, w)
    BY <1>2 DEF CancelRequirement
  <2>2. ws \subseteq Workers
    BY AssignmentsTyped DEF OpenOn
  <2>3. \A a \in OpenOn(q) : a \in DOMAIN ss /\ ss[a] \notin OpenStates
    BY SetStateOpen DEF OpenStates
  <2>4. \A x \in DOMAIN av : x \in ws /\ av[x] = TRUE /\ avail[x] = FALSE
    BY <2>2, ReleaseIs
  <2>5. \A x \in ws : \A b \in OpenOf(x) : b \in OpenOn(q)
    BY DEF OneOpenEach, OpenOf, OpenOn
  <2> HIDE DEF av, ss, st, ws
  <2>6. w.avail = av /\ w.state = ss
    BY DEF Nothing
  <2> HIDE DEF w
  <2>7. Frees(w)
    BY <2>3, <2>4, <2>5, <2>6, FreesIs
  <2> QED BY <2>1, <2>7 DEF PlansFreeing
<1> QED BY <1>1, <1>2

LEMMA FreeingDesk ==
  ASSUME NEW desk, OneDesk(desk), OneAtWork, DeskInv(desk), OneOpenEach, Next
  PROVE  \/ \E t \in Sessions, new \in Requests : CreateAssignment(t, new)
         \/ \E w : Plan(desk, w) /\ UNCHANGED lock /\ Plain(w) /\ Frees(w)
         \/ \E t \in Sessions : Commit(t) \/ Abort(t)
<1>1. IInv
  BY DEF DeskInv
<1>2. ASSUME NEW t \in Sessions, NEW x \in Workers, SetAvailability(t, x) PROVE FALSE
  BY <1>2 DEF SetAvailability, Serve, OneAtWork
<1>3. ASSUME NEW t \in Sessions, NEW e, Serve(t, e), e # "create"
      PROVE  t = desk /\ e \notin {"replace", "complaint", "extend"}
  BY <1>3 DEF Serve, OneDesk
<1>4. ASSUME NEW t \in Sessions, NEW e, Serve(t, e), e # "create", PlansChange(t), PlansFreeing(t)
      PROVE  \E w : Plan(desk, w) /\ UNCHANGED lock /\ Plain(w) /\ Frees(w)
  <2>1. t = desk
    BY <1>3, <1>4
  <2>2. PICK w : Plan(desk, w) /\ UNCHANGED lock /\ Plain(w)
    BY <1>4, <2>1 DEF PlansChange
  <2>3. PICK v : Plan(desk, v) /\ Frees(v)
    BY <1>4, <2>1 DEF PlansFreeing
  <2>4. v = w
    BY <2>1, <2>2, <2>3, <1>1 DEF Plan, IInv
  <2> QED BY <2>2, <2>3, <2>4
<1>5. ASSUME NEW t \in Sessions, NEW a \in DOMAIN asg,
             \/ Acknowledge(t, a) \/ DeclineAssignment(t, a)
             \/ \E to \in States : UpdateStatus(t, a, to)
             \/ CheckIn(t, a) \/ HalfDay(t, a)
      PROVE  \E w : Plan(desk, w) /\ UNCHANGED lock /\ Plain(w) /\ Frees(w)
  <2>1. PlansChange(t) /\ PlansFreeing(t)
    BY <1>1, <1>5, PlainSteps, FreeingSteps
  <2>2. \E e \in {"respond", "status", "attend"} : Serve(t, e)
    BY <1>5 DEF Acknowledge, DeclineAssignment, UpdateStatus, CheckIn, HalfDay
  <2> QED BY <1>4, <2>1, <2>2
<1>6. ASSUME NEW t \in Sessions, NEW q \in Reqs, CompleteRequirement(t, q) \/ CancelRequirement(t, q)
      PROVE  \E w : Plan(desk, w) /\ UNCHANGED lock /\ Plain(w) /\ Frees(w)
  <2>1. PlansChange(t) /\ PlansFreeing(t)
    BY <1>1, <1>6, PlainSteps, FreeingClosures
  <2>2. \E e \in {"complete", "cancel"} : Serve(t, e)
    BY <1>6 DEF CompleteRequirement, CancelRequirement
  <2> QED BY <1>4, <2>1, <2>2
<1>7. ASSUME NEW t \in Sessions, NEW a \in DOMAIN asg, NEW x \in Workers,
             ReplaceWorker(t, a, x) \/ ReplaceForComplaint(t, a, x)
      PROVE  FALSE
  BY <1>3, <1>7 DEF ReplaceWorker, ReplaceForComplaint
<1>8. ASSUME NEW t \in Sessions, NEW q \in Reqs,
             \/ RequestExtension(t, q) \/ RejectExtension(t, q)
             \/ \E days \in Days : ApproveExtension(t, q, days)
      PROVE  FALSE
  BY <1>3, <1>8 DEF RequestExtension, RejectExtension, ApproveExtension
<1> QED BY <1>2, <1>5, <1>6, <1>7, <1>8 DEF Next, States

(* The steps keep it.                                                      *)
LEMMA InitOcc == Init => OccInv
<1> SUFFICES ASSUME Init PROVE OccInv
  OBVIOUS
<1>1. DOMAIN asg = {} /\ \A s \in Sessions : sess[s].pc = "idle"
  BY DEF Init, Idle
<1> QED BY <1>1 DEF OccInv, OneOpenEach, OccupiedUnavailable, Assigning

LEMMA OccKept ==
  ASSUME OneOpenEach, OccupiedUnavailable, UNCHANGED <<asg, avail>>
  PROVE  /\ OneOpenEach' /\ OccupiedUnavailable'
         /\ \A w : (Frees(w) => Frees(w)') /\ (Books(w) => Books(w)')
BY DEF OneOpenEach, OccupiedUnavailable, Open, Frees, Books, OpenOf

(* The same of what a session holds, primed.                               *)
LEMMA OccPrimed ==
  ASSUME UNCHANGED <<asg, avail>>, NEW s \in Sessions
  PROVE  /\ Frees(sess'[s].writes) => Frees(sess[s].writes)'
         /\ Books(sess'[s].writes) => Books(sess[s].writes)'
<1>1. \A x : OpenOf(x)' = OpenOf(x)
  BY DEF OpenOf, Open
<1>2. Frees(sess'[s].writes) => Frees(sess[s].writes)'
  BY <1>1 DEF Frees
<1>3. Books(sess'[s].writes) => Books(sess[s].writes)'
  BY <1>1 DEF Books
<1> QED BY <1>2, <1>3

(* A request that reads.                                                   *)
LEMMA ReadKeepsOcc ==
  ASSUME IInv, OccInv, NEW s \in Sessions, NEW w, Plan(s, w),
         w.new = {} => Frees(w), w.new # {} => Books(w) /\ "create" \in Serves[s],
         w.new # {} => \A t \in Sessions \ {s} : ~Assigning(t)
  PROVE  OccInv'
<1>1. UNCHANGED <<asg, avail>> /\ sess'[s].writes = w /\ \A t \in Sessions \ {s} : sess'[t] = sess[t]
  BY DEF Plan, IInv
<1>2. ASSUME NEW t \in Sessions, sess'[t].pc = "commit"
      PROVE  /\ sess'[t].writes.new = {} => Frees(sess'[t].writes)
             /\ sess'[t].writes.new # {} => Books(sess'[t].writes) /\ "create" \in Serves[t]
  <2>1. CASE t = s
    BY <1>1, <2>1
  <2>2. CASE t # s
    BY <1>1, <1>2, <2>2 DEF OccInv
  <2> QED BY <2>1, <2>2
<1>3. \A t \in Sessions : Assigning(t)' => Assigning(t) \/ (t = s /\ w.new # {})
  BY <1>1 DEF Assigning
<1>4. \A t, u \in Sessions : Assigning(t)' /\ Assigning(u)' => t = u
  BY <1>3 DEF OccInv
<1>5. OneOpenEach' /\ OccupiedUnavailable'
  BY <1>1, OccKept DEF OccInv
<1>6. ASSUME NEW t \in Sessions, sess'[t].pc = "commit"
      PROVE  /\ sess'[t].writes.new = {} => Frees(sess[t].writes)'
             /\ sess'[t].writes.new # {} => Books(sess[t].writes)' /\ "create" \in Serves[t]
  BY <1>1, <1>2, <1>6, OccPrimed
<1> QED BY <1>4, <1>5, <1>6 DEF OccInv

LEMMA CreateKeepsOcc ==
  ASSUME NEW desk, OneAtWork, DeskInv(desk), OccInv, NEW s \in Sessions, NEW new \in Requests, CreateAssignment(s, new)
  PROVE  OccInv'
<1> DEFINE occ == Occupy(new.worker)
           st  == SetStatus(new.job, "workers_assigned")
           w   == [Nothing EXCEPT !.new = {new}, !.avail = occ, !.status = st]
<1>1. Plan(s, w) /\ sess[s].pc = "idle" /\ "create" \in Serves[s] /\ avail[new.worker] = TRUE
  BY DEF CreateAssignment, Serve, DeskInv, IInv, TablesOK, Requests
<1>2. new.job \in Reqs /\ new.worker \in Workers
  BY DEF Requests
<1>3. occ = At(new.worker, FALSE)
  BY <1>1 DEF Occupy, Changed, At
<1> HIDE DEF occ, st
<1>4. w.new = {new} /\ w.avail = occ
  BY DEF Nothing
<1> HIDE DEF w
<1>5. OpenOf(new.worker) = {}
  BY <1>1 DEF OccInv, OccupiedUnavailable, OpenOf
<1>6. Books(w)
  BY <1>1, <1>3, <1>4, <1>5 DEF Books
<1>7. ASSUME NEW t \in Sessions \ {s}, Assigning(t) PROVE FALSE
  <2>1. PICK r \in Assignment : Creates(t, r)
    BY <1>7 DEF DeskInv, InFlight, Plain, Assigning
  <2>2. lock[r.job] = t /\ r.job \in Reqs /\ t # NoSession
    BY <2>1 DEF Creates, Assignment
  <2>3. lock[new.job] = NoSession
    BY DEF CreateAssignment, Locks
  <2>4. "create" \in Serves[t]
    BY <1>7 DEF OccInv, Assigning
  <2> QED BY <1>1, <1>2, <2>2, <2>3, <2>4 DEF OneAtWork
<1> QED BY <1>1, <1>4, <1>6, <1>7, ReadKeepsOcc DEF DeskInv

LEMMA CommitKeepsOcc ==
  ASSUME NEW desk, NEW s \in Sessions, DeskInv(desk), OccInv, Commit(s)
  PROVE  OccInv'
<1> DEFINE w == sess[s].writes
<1>0. IInv /\ sess[s].pc = "commit" /\ WritesOK(w) /\ Settles(w)
  BY CommitInserts DEF DeskInv, Commit, IInv
<1>1. sess'[s].pc = "idle" /\ \A t \in Sessions \ {s} : sess'[t] = sess[t]
  BY <1>0, FinishStep DEF Commit
<1>2. /\ avail' = Update(avail, w.avail) /\ avail' \in [Workers -> BOOLEAN]
      /\ avail \in [Workers -> BOOLEAN] /\ \A x \in DOMAIN w.avail : x \in Workers
  BY <1>0, CommitStep DEF Commit, IInv, TablesOK, WritesOK
<1>3. \A x \in Workers : avail'[x] = IF x \in DOMAIN w.avail THEN w.avail[x] ELSE avail[x]
  BY <1>2 DEF Update
<1>4. \A b \in DOMAIN asg :
        /\ b \in DOMAIN asg' /\ asg'[b].worker = asg[b].worker /\ asg[b].worker \in Workers
        /\ Open(b)' => Open(b)
        /\ b \in DOMAIN w.state => asg'[b].state = w.state[b]
  BY <1>0, CommitSettles, CommitAssignments, AssignmentsTyped
<1>5. CASE w.new = {}
  <2>1. Frees(w) /\ s = desk /\ DOMAIN asg' = DOMAIN asg
    BY <1>0, <1>5, CommitAssignments DEF OccInv, DeskInv, InFlight, Creates
  <2>2. OneOpenEach'
    BY <1>4, <2>1 DEF OccInv, OneOpenEach
  <2>3. OccupiedUnavailable'
    <3> SUFFICES ASSUME NEW a \in DOMAIN asg, Open(a)' PROVE avail'[asg[a].worker] = FALSE
      BY <1>4, <2>1 DEF OccupiedUnavailable
    <3>1. Open(a) /\ asg[a].worker \in Workers /\ avail[asg[a].worker] = FALSE
      BY <1>2, <1>4 DEF OccInv, OccupiedUnavailable
    <3>2. asg[a].worker \notin DOMAIN w.avail
      <4> SUFFICES ASSUME asg[a].worker \in DOMAIN w.avail PROVE FALSE
        OBVIOUS
      <4>1. a \in DOMAIN w.state /\ w.state[a] \notin OpenStates
        BY <2>1, <3>1 DEF Frees, OpenOf
      <4> QED BY <1>4, <4>1 DEF Open
    <3> QED BY <1>3, <3>1, <3>2
  <2>4. ASSUME NEW t \in Sessions, sess'[t].pc = "commit" PROVE sess[t].writes.new # {} /\ t # s /\ sess'[t] = sess[t]
    <3>1. t # s /\ sess[t].pc = "commit" /\ sess'[t] = sess[t]
      BY <1>1, <2>4
    <3> QED BY <2>1, <3>1 DEF DeskInv, InFlight, Creates
  <2>5. ASSUME NEW t \in Sessions, sess'[t].pc = "commit" PROVE Books(sess[t].writes)' /\ "create" \in Serves[t]
    <3>1. Books(sess[t].writes) /\ "create" \in Serves[t] /\ sess'[t] = sess[t] /\ WritesOK(sess[t].writes)
      BY <2>4, <2>5, <1>0 DEF OccInv, IInv
    <3>2. ASSUME NEW r \in sess[t].writes.new PROVE OpenOf(r.worker)' = {} /\ avail'[r.worker] = TRUE
      <4>1. r.worker \in Workers /\ OpenOf(r.worker) = {} /\ avail[r.worker] = TRUE
        BY <3>1, <3>2 DEF Books, WritesOK, Assignment
      <4>2. OpenOf(r.worker)' = {}
        BY <1>4, <2>1, <4>1 DEF OpenOf
      <4> QED BY <1>3, <2>1, <4>1, <4>2 DEF Frees
    <3> QED BY <3>1, <3>2 DEF Books
  <2>6. \A t, u \in Sessions : Assigning(t)' /\ Assigning(u)' => t = u
    <3>1. \A t \in Sessions : Assigning(t)' => Assigning(t)
      BY <2>4 DEF Assigning
    <3> QED BY <3>1 DEF OccInv
  <2> QED BY <2>2, <2>3, <2>4, <2>5, <2>6 DEF OccInv
<1>6. CASE w.new # {}
  <2>1. PICK r \in Assignment : Creates(s, r)
    BY <1>0, <1>6 DEF DeskInv, InFlight, Plain
  <2>2. w.new = {r} /\ w.state = <<>> /\ r.worker \in Workers /\ Books(w)
    BY <1>0, <1>6, <2>1 DEF Creates, Assignment, OccInv
  <2>3. OpenOf(r.worker) = {} /\ avail[r.worker] = TRUE /\ DOMAIN w.avail = {r.worker} /\ w.avail[r.worker] = FALSE
    <3>1. OpenOf(r.worker) = {} /\ avail[r.worker] = TRUE /\ w.avail = At(r.worker, FALSE)
      BY <2>2 DEF Books
    <3> HIDE DEF w
    <3> QED BY <3>1, AtIs
  <2>4. PICK n \in Slots \ DOMAIN asg : DOMAIN asg' = DOMAIN asg \cup {n} /\ asg'[n] = r
    <3>1. \/ w.new = {}
          \/ \E x \in w.new, n \in Slots \ DOMAIN asg : DOMAIN asg' = DOMAIN asg \cup {n} /\ asg'[n] = x
      BY <1>0, CommitAssignments
    <3> HIDE DEF w
    <3> QED BY <2>2, <3>1
  <2>5. OneOpenEach'
    <3> SUFFICES ASSUME NEW a \in DOMAIN asg', NEW b \in DOMAIN asg', Open(a)', Open(b)',
                        asg'[a].worker = asg'[b].worker
                 PROVE  a = b
      BY DEF OneOpenEach
    <3>1. \A c \in DOMAIN asg : Open(c)' => asg'[c].worker # r.worker
      BY <1>4, <2>3 DEF OpenOf
    <3> QED BY <1>4, <2>4, <3>1 DEF OccInv, OneOpenEach
  <2>6. OccupiedUnavailable'
    <3> SUFFICES ASSUME NEW a \in DOMAIN asg', Open(a)' PROVE avail'[asg'[a].worker] = FALSE
      BY DEF OccupiedUnavailable
    <3>1. CASE a = n
      BY <1>3, <2>2, <2>3, <2>4, <3>1
    <3>2. CASE a # n
      <4>1. a \in DOMAIN asg /\ Open(a) /\ asg'[a].worker = asg[a].worker /\ asg[a].worker \in Workers
        BY <1>4, <2>4, <3>2
      <4>2. avail[asg[a].worker] = FALSE
        BY <1>2, <4>1 DEF OccInv, OccupiedUnavailable
      <4> QED BY <1>3, <2>3, <4>1, <4>2
    <3> QED BY <3>1, <3>2
  <2>7. ASSUME NEW t \in Sessions, sess'[t].pc = "commit"
        PROVE  sess'[t] = sess[t] /\ sess[t].writes.new = {} /\ Frees(sess[t].writes)
    <3>1. t # s /\ sess'[t] = sess[t] /\ sess[t].pc = "commit"
      BY <1>1, <2>7
    <3>2. sess[t].writes.new = {}
      BY <1>0, <1>6, <3>1 DEF OccInv, Assigning
    <3> QED BY <3>1, <3>2 DEF OccInv
  <2>8. ASSUME NEW t \in Sessions, sess'[t].pc = "commit" PROVE Frees(sess[t].writes)'
    <3> SUFFICES ASSUME NEW x \in DOMAIN sess[t].writes.avail
                 PROVE  /\ sess[t].writes.avail[x] = TRUE /\ avail'[x] = FALSE
                        /\ \A a \in OpenOf(x)' : a \in DOMAIN sess[t].writes.state /\ sess[t].writes.state[a] \notin OpenStates
      BY <2>7, <2>8 DEF Frees
    <3>1. /\ sess[t].writes.avail[x] = TRUE /\ avail[x] = FALSE /\ x \in Workers
          /\ \A a \in OpenOf(x) : a \in DOMAIN sess[t].writes.state /\ sess[t].writes.state[a] \notin OpenStates
      BY <1>0, <2>7, <2>8 DEF Frees, IInv, WritesOK
    <3>2. x # r.worker
      BY <2>3, <3>1
    <3>3. OpenOf(x)' \subseteq OpenOf(x)
      BY <1>4, <2>4, <3>2 DEF OpenOf
    <3> QED BY <1>3, <2>3, <3>1, <3>2, <3>3
  <2>9. \A t \in Sessions : ~Assigning(t)'
    BY <2>7 DEF Assigning
  <2> QED BY <2>5, <2>6, <2>7, <2>8, <2>9 DEF OccInv
<1> QED BY <1>5, <1>6

LEMMA QuietKeepsOcc ==
  ASSUME IInv, OccInv, UNCHANGED <<asg, avail>>,
         \A t \in Sessions : sess'[t] = sess[t] \/ sess'[t].pc = "idle"
  PROVE  OccInv'
<1>1. OneOpenEach' /\ OccupiedUnavailable'
  BY OccKept DEF OccInv
<1>2. ASSUME NEW t \in Sessions, sess'[t].pc = "commit"
      PROVE  /\ sess'[t].writes.new = {} => Frees(sess[t].writes)'
             /\ sess'[t].writes.new # {} => Books(sess[t].writes)' /\ "create" \in Serves[t]
  <2>1. sess'[t] = sess[t] /\ sess[t].pc = "commit"
    BY <1>2
  <2>2. /\ sess'[t].writes.new = {} => Frees(sess'[t].writes)
        /\ sess'[t].writes.new # {} => Books(sess'[t].writes) /\ "create" \in Serves[t]
    BY <2>1 DEF OccInv
  <2> QED BY <2>2, OccPrimed
<1>3. \A t \in Sessions : Assigning(t)' => Assigning(t)
  BY DEF Assigning
<1>4. \A t, u \in Sessions : Assigning(t)' /\ Assigning(u)' => t = u
  BY <1>3 DEF OccInv
<1> QED BY <1>1, <1>2, <1>4 DEF OccInv

LEMMA NextOcc ==
  ASSUME NEW desk, OneDesk(desk), OneAtWork, DeskInv(desk), OccInv, [Next]_vars
  PROVE  OccInv'
<1>1. IInv
  BY DEF DeskInv
<1>2. ASSUME NEW t \in Sessions, Abort(t) PROVE OccInv'
  <2>1. sess'[t].pc = "idle" /\ \A u \in Sessions \ {t} : sess'[u] = sess[u]
    BY <1>1, <1>2, FinishStep DEF Abort
  <2> QED BY <1>1, <1>2, <2>1, QuietKeepsOcc DEF Abort
<1>3. ASSUME NEW w, Plan(desk, w), Plain(w), Frees(w) PROVE OccInv'
  BY <1>1, <1>3, ReadKeepsOcc DEF Plain, OneDesk
<1>4. CASE UNCHANGED vars
  BY <1>1, <1>4, QuietKeepsOcc DEF vars
<1>5. CASE Next
  BY <1>2, <1>3, <1>5, FreeingDesk, CreateKeepsOcc, CommitKeepsOcc DEF OccInv
<1> QED BY <1>4, <1>5

(* "an assigned worker is occupied" (api/admin_assignments.py): a worker   *)
(* with an open assignment is not available, for any number of             *)
(* administrators assigning to one requirement, or of requirements with    *)
(* one who assigns, beside the desk.                                       *)
THEOREM AssignedIsOccupied ==
  ASSUME NEW desk, OneDesk(desk), OneAtWork
  PROVE  Spec => []OccupiedUnavailable
<1>1. DeskInv(desk) /\ OccInv /\ [Next]_vars => OccInv'
  BY NextOcc
<1>2. OccInv => OccupiedUnavailable
  BY DEF OccInv
<1> QED BY <1>1, <1>2, InitOcc, DeskInvariance, PTL DEF Spec

-----------------------------------------------------------------------------
(* Closing and extending.  Beside the session that closes and advances     *)
(* assignments, others may add them and extend requirements.               *)
OneCloser(closer) ==
  /\ closer \in Sessions
  /\ \A s \in Sessions \ {closer} : Serves[s] \subseteq {"create", "extend", "availability"}

(* One session adds assignments and extends requirements.                  *)
OneExtender(extender) ==
  /\ extender \in Sessions
  /\ \A s \in Sessions \ {extender} : Serves[s] \cap {"create", "replace", "complaint", "extend"} = {}

(* A requirement comes to wait for workers with an assignment of its own.  *)
Assigns(w) ==
  /\ \A q \in DOMAIN w.status :
       w.status[q] = "workers_assigned" => w.new # {} /\ \A r \in w.new : r.job = q
  /\ \A r \in w.new : r.state = "assigned"

(* An assignment is declined with its requirement, or beside another that  *)
(* stands.                                                                 *)
Declines(w) ==
  \A a \in DOMAIN w.state : w.state[a] = "declined" =>
    \/ asg[a].job \in DOMAIN w.status
    \/ \E b \in DOMAIN asg \ DOMAIN w.state : asg[b].job = asg[a].job /\ asg[b].state # "declined"

Closes(w) ==
  /\ \A a \in DOMAIN w.state : a \in DOMAIN asg /\ (w.state[a] \in OpenStates => Open(a))
  /\ Declines(w)

(* The dated open assignments move with the end of their requirement.      *)
Extends(w) ==
  /\ \A q \in DOMAIN w.last : \A a \in OpenOn(q) :
       asg[a].to # Unset => a \in DOMAIN w.to /\ w.to[a] = asg[a].to + (w.last[q] - last[q])
  /\ \A a \in DOMAIN w.to : a \in DOMAIN asg /\ asg[a].to # Unset /\ asg[a].job \in DOMAIN w.last

(* What endpoint e leaves in a session.                                    *)
Fits(w, e) ==
  /\ Assigns(w) /\ Closes(w) /\ Extends(w)
  /\ e \in {"create", "extend", "availability"} => w.state = <<>>
  /\ e \notin {"create", "replace", "complaint", "extend"} => w.last = <<>> /\ w.to = <<>> /\ w.new = {}

PlansFit(s) == \E w, e : Plan(s, w) /\ Serve(s, e) /\ Fits(w, e)

PlansDecline(s) == \E w : Plan(s, w) /\ Declines(w)

(* Declining is the only step that leaves an assignment declined.          *)
LEMMA DeclineFits ==
  ASSUME IInv, NEW s \in Sessions, NEW a \in DOMAIN asg, NEW freed, MayDecline(a), Plan(s, Decline(a, freed))
  PROVE  PlansDecline(s)
<1> DEFINE w == Decline(a, freed)
<1>1. /\ w.state = At(a, "declined")
      /\ w.status = IF LastOpen(a) THEN At(asg[a].job, "approved") ELSE <<>>
  BY DEF Decline, Nothing
<1> HIDE DEF w
<1>2. DOMAIN w.state = {a}
  BY <1>1, AtIs
<1>3. CASE LastOpen(a)
  <2>1. asg[a].job \in DOMAIN w.status
    BY <1>1, <1>3 DEF At
  <2> QED BY <1>2, <2>1 DEF PlansDecline, Declines, w
<1>4. CASE ~LastOpen(a)
  <2>1. PICK b \in DOMAIN asg : b # a /\ asg[b].job = asg[a].job /\ Open(b)
    BY <1>4 DEF LastOpen, OpenOn
  <2>2. asg[b].state # "declined"
    BY <2>1 DEF Open, OpenStates
  <2> QED BY <1>2, <2>1, <2>2 DEF PlansDecline, Declines, w
<1> QED BY <1>3, <1>4

LEMMA OtherStatesDecline ==
  ASSUME NEW s \in Sessions, NEW w, Plan(s, w), NEW v, v # "declined", \A a \in DOMAIN w.state : w.state[a] = v
  PROVE  PlansDecline(s)
BY DEF PlansDecline, Declines

LEMMA DecliningSteps ==
  ASSUME IInv, NEW s \in Sessions, NEW a \in DOMAIN asg,
         \/ Acknowledge(s, a) \/ DeclineAssignment(s, a)
         \/ \E to \in States : UpdateStatus(s, a, to)
         \/ CheckIn(s, a) \/ HalfDay(s, a)
  PROVE  PlansDecline(s)
<1>1. ASSUME NEW w, NEW to, Plan(s, w), w.state = At(a, to), to # "declined" PROVE PlansDecline(s)
  <2>1. \A b \in DOMAIN w.state : w.state[b] = to
    BY <1>1 DEF At
  <2> QED BY <1>1, <2>1, OtherStatesDecline
<1>2. \A ss, st, av : /\ [Nothing EXCEPT !.state = ss].state = ss
                      /\ [Nothing EXCEPT !.state = ss, !.status = st].state = ss
                      /\ [Nothing EXCEPT !.state = ss, !.avail = av].state = ss
  BY DEF Nothing
<1>3. CASE Acknowledge(s, a)
  <2>1. PICK w : Plan(s, w) /\ w.state = At(a, "accepted")
    BY <1>2, <1>3 DEF Acknowledge
  <2> QED BY <1>1, <2>1
<1>4. CASE CheckIn(s, a)
  <2>1. PICK w : Plan(s, w) /\ w.state = At(a, "active")
    BY <1>2, <1>4 DEF CheckIn
  <2> QED BY <1>1, <2>1
<1>5. CASE HalfDay(s, a)
  <2> DEFINE st == IF status[asg[a].job] = "workers_assigned"
                   THEN At(asg[a].job, "in_progress") ELSE <<>>
             w  == [Nothing EXCEPT !.state = At(a, "active"), !.status = st]
  <2>1. Plan(s, w)
    BY <1>5 DEF HalfDay
  <2> HIDE DEF st
  <2>2. w.state = At(a, "active")
    BY <1>2
  <2> HIDE DEF w
  <2> QED BY <1>1, <2>1, <2>2
<1>6. CASE DeclineAssignment(s, a)
  BY <1>6, DeclineFits DEF DeclineAssignment
<1>7. ASSUME NEW to \in States, UpdateStatus(s, a, to) PROVE PlansDecline(s)
  <2>1. CASE to = "declined"
    BY <1>7, <2>1, DeclineFits DEF UpdateStatus
  <2>2. CASE to # "declined"
    <3> DEFINE ss == At(a, to)
               av == Release(IF to \in FreeingStates THEN {asg[a].worker} ELSE {})
               w  == [Nothing EXCEPT !.state = ss, !.avail = av]
    <3>1. Plan(s, w)
      BY <1>7, <2>2 DEF UpdateStatus
    <3> HIDE DEF ss, av
    <3>2. w.state = ss
      BY <1>2
    <3> HIDE DEF w
    <3> QED BY <1>1, <2>2, <3>1, <3>2 DEF ss
  <2> QED BY <2>1, <2>2
<1> QED BY <1>3, <1>4, <1>5, <1>6, <1>7

LEMMA DecliningClosures ==
  ASSUME IInv, NEW s \in Sessions, NEW q \in Reqs, CompleteRequirement(s, q) \/ CancelRequirement(s, q)
  PROVE  PlansDecline(s)
<1>1. \A ss, st, av : /\ [Nothing EXCEPT !.status = st, !.state = ss].state = ss
                      /\ [Nothing EXCEPT !.status = st, !.state = ss, !.avail = av].state = ss
  BY DEF Nothing
<1>2. \E w, v : Plan(s, w) /\ v \in {"completed", "cancelled"} /\ w.state = SetState(OpenOn(q), v)
  <2>1. CASE CompleteRequirement(s, q)
    <3>1. PICK w : Plan(s, w) /\ w.state = SetState(OpenOn(q), "completed")
      BY <1>1, <2>1 DEF CompleteRequirement
    <3> QED BY <3>1
  <2>2. CASE CancelRequirement(s, q)
    <3> DEFINE st == At(q, "cancelled")
               ss == SetState(OpenOn(q), "cancelled")
               av == Release({asg[a].worker : a \in OpenOn(q)})
               w  == [Nothing EXCEPT !.status = st, !.state = ss, !.avail = av]
    <3>1. Plan(s, w)
      BY <2>2 DEF CancelRequirement
    <3> HIDE DEF st, av, ss
    <3>2. w.state = ss
      BY <1>1
    <3> HIDE DEF w
    <3> QED BY <3>1, <3>2 DEF ss
  <2> QED BY <2>1, <2>2
<1> QED BY <1>2, SetStateIs, OtherStatesDecline

(* A plain unit of work fits its endpoint.                                 *)
LEMMA PlainFits ==
  ASSUME IInv, NEW s \in Sessions, PlansChange(s), PlansDecline(s),
         NEW e \in {"respond", "status", "attend", "complete", "cancel"}, Serve(s, e)
  PROVE  PlansFit(s)
<1>1. PICK w : Plan(s, w) /\ Plain(w)
  BY DEF PlansChange
<1>2. PICK v : Plan(s, v) /\ Declines(v)
  BY DEF PlansDecline
<1>3. v = w
  BY <1>1, <1>2 DEF Plan, IInv
<1>4. Assigns(w) /\ Closes(w) /\ Extends(w)
  BY <1>1, <1>2, <1>3 DEF Plain, Assigns, Closes, Extends
<1>5. Fits(w, e)
  BY <1>1, <1>4 DEF Fits, Plain
<1> QED BY <1>1, <1>5 DEF PlansFit

LEMMA AvailabilityFits ==
  ASSUME NEW s \in Sessions, NEW x \in Workers, SetAvailability(s, x)
  PROVE  PlansFit(s)
<1> DEFINE av == At(x, ~avail[x])
           w  == [Nothing EXCEPT !.avail = av]
<1>1. Plan(s, w) /\ Serve(s, "availability")
  BY DEF SetAvailability
<1> HIDE DEF av
<1>2. w.status = <<>> /\ w.state = <<>> /\ w.last = <<>> /\ w.to = <<>> /\ w.new = {}
  BY DEF Nothing
<1> HIDE DEF w
<1>3. Fits(w, "availability")
  BY <1>2 DEF Fits, Assigns, Closes, Declines, Extends
<1> QED BY <1>1, <1>3 DEF PlansFit

LEMMA CreateFits ==
  ASSUME NEW s \in Sessions, NEW new \in Requests, CreateAssignment(s, new)
  PROVE  PlansFit(s)
<1> DEFINE occ == Occupy(new.worker)
           st  == SetStatus(new.job, "workers_assigned")
           w   == [Nothing EXCEPT !.new = {new}, !.avail = occ, !.status = st]
<1>1. Plan(s, w) /\ Serve(s, "create") /\ new.state = "assigned"
  BY DEF CreateAssignment, Requests
<1>2. DOMAIN st \subseteq {new.job}
  BY DEF SetStatus, Changed
<1> HIDE DEF occ, st
<1>3. w.status = st /\ w.state = <<>> /\ w.last = <<>> /\ w.to = <<>> /\ w.new = {new}
  BY DEF Nothing
<1> HIDE DEF w
<1>4. Fits(w, "create")
  BY <1>1, <1>2, <1>3 DEF Fits, Assigns, Closes, Declines, Extends
<1> QED BY <1>1, <1>4 DEF PlansFit

LEMMA ReplaceFits ==
  ASSUME IInv, NEW s \in Sessions, NEW a \in DOMAIN asg, NEW x \in Workers,
         ReplaceWorker(s, a, x) \/ ReplaceForComplaint(s, a, x)
  PROVE  PlansFit(s)
<1> DEFINE replaced == [asg[a] EXCEPT !.worker = x, !.state = "assigned"]
           undated  == [asg[a] EXCEPT !.worker = x, !.state = "assigned", !.from = Unset, !.to = Unset]
<1>1. replaced.state = "assigned" /\ undated.state = "assigned"
  BY AssignmentsTyped DEF Assignment
<1> HIDE DEF replaced, undated
<1>2. \A ss, nw, av : /\ [Nothing EXCEPT !.state = ss, !.new = nw, !.avail = av].state = ss
                      /\ [Nothing EXCEPT !.state = ss, !.new = nw, !.avail = av].new = nw
                      /\ [Nothing EXCEPT !.state = ss, !.new = nw, !.avail = av].status = <<>>
                      /\ [Nothing EXCEPT !.state = ss, !.new = nw, !.avail = av].last = <<>>
                      /\ [Nothing EXCEPT !.state = ss, !.new = nw, !.avail = av].to = <<>>
                      /\ [Nothing EXCEPT !.state = ss, !.new = nw].state = ss
                      /\ [Nothing EXCEPT !.state = ss, !.new = nw].new = nw
                      /\ [Nothing EXCEPT !.state = ss, !.new = nw].status = <<>>
                      /\ [Nothing EXCEPT !.state = ss, !.new = nw].last = <<>>
                      /\ [Nothing EXCEPT !.state = ss, !.new = nw].to = <<>>
  BY DEF Nothing
<1> DEFINE Replaces(w, e, r) ==
             /\ Plan(s, w) /\ Serve(s, e) /\ r.state = "assigned" /\ w.new = {r}
             /\ w.status = <<>> /\ w.last = <<>> /\ w.to = <<>>
             /\ (w.state = At(a, "replaced") \/ w.state = SetState({a}, "replaced"))
<1>3. \E w, e, r : e \in {"replace", "complaint"} /\ Replaces(w, e, r)
  <2>1. CASE ReplaceWorker(s, a, x)
    <3> DEFINE av == Update(Occupy(x), Release({asg[a].worker}))
               ss == At(a, "replaced")
               w  == [Nothing EXCEPT !.state = ss, !.new = {replaced}, !.avail = av]
    <3>1. Plan(s, w) /\ Serve(s, "replace")
      BY <2>1 DEF ReplaceWorker, replaced
    <3> HIDE DEF av, ss
    <3>2. /\ w.state = ss /\ w.new = {replaced} /\ w.status = <<>> /\ w.last = <<>> /\ w.to = <<>>
      BY <1>2
    <3> HIDE DEF w
    <3>3. Replaces(w, "replace", replaced)
      BY <1>1, <3>1, <3>2 DEF ss
    <3> HIDE DEF Replaces
    <3> QED BY <3>3
  <2>2. CASE ReplaceForComplaint(s, a, x)
    <3> DEFINE ss == SetState({a}, "replaced")
               w  == [Nothing EXCEPT !.state = ss, !.new = {undated}]
    <3>1. Plan(s, w) /\ Serve(s, "complaint")
      BY <2>2 DEF ReplaceForComplaint, undated
    <3> HIDE DEF ss
    <3>2. /\ w.state = ss /\ w.new = {undated} /\ w.status = <<>> /\ w.last = <<>> /\ w.to = <<>>
      BY <1>2
    <3> HIDE DEF w
    <3>3. Replaces(w, "complaint", undated)
      BY <1>1, <3>1, <3>2 DEF ss
    <3> HIDE DEF Replaces
    <3> QED BY <3>3
  <2> QED BY <2>1, <2>2
<1>4. PICK w, e, r : e \in {"replace", "complaint"} /\ Replaces(w, e, r)
  BY <1>3
<1>5. \A b \in DOMAIN w.state : b = a /\ w.state[b] = "replaced"
  <2>1. CASE w.state = At(a, "replaced")
    BY <2>1 DEF At
  <2>2. CASE w.state = SetState({a}, "replaced")
    BY <2>2 DEF SetState
  <2> QED BY <1>4, <2>1, <2>2
<1>6. Fits(w, e)
  BY <1>4, <1>5 DEF Fits, Assigns, Closes, Declines, Extends, OpenStates
<1> QED BY <1>4, <1>6 DEF PlansFit

LEMMA ExtensionFits ==
  ASSUME IInv, NEW s \in Sessions, NEW q \in Reqs,
         \/ RequestExtension(s, q) \/ RejectExtension(s, q)
         \/ \E days \in Days : ApproveExtension(s, q, days)
  PROVE  PlansFit(s)
<1>1. CASE RequestExtension(s, q) \/ RejectExtension(s, q)
  <2>1. \A of : LET w == [Nothing EXCEPT !.offer = of]
                IN  w.status = <<>> /\ w.state = <<>> /\ w.last = <<>> /\ w.to = <<>> /\ w.new = {}
    BY DEF Nothing
  <2>2. PICK w : /\ Plan(s, w) /\ Serve(s, "extend")
                 /\ w.status = <<>> /\ w.state = <<>> /\ w.last = <<>> /\ w.to = <<>> /\ w.new = {}
    BY <1>1, <2>1 DEF RequestExtension, RejectExtension
  <2>3. Fits(w, "extend")
    BY <2>2 DEF Fits, Assigns, Closes, Declines, Extends
  <2> QED BY <2>2, <2>3 DEF PlansFit
<1>2. ASSUME NEW days \in Days, ApproveExtension(s, q, days) PROVE PlansFit(s)
  <2> DEFINE of == At(q, FALSE)
             la == At(q, last[q] + days)
             to == [a \in {b \in OpenOn(q) : asg[b].to # Unset} |-> asg[a].to + days]
             w  == [Nothing EXCEPT !.offer = of, !.last = la, !.to = to]
  <2>1. Plan(s, w) /\ Serve(s, "extend")
    BY <1>2 DEF ApproveExtension
  <2>2. /\ \A a \in OpenOn(q) : asg[a].to # Unset => a \in DOMAIN to /\ to[a] = asg[a].to + days
        /\ \A a \in DOMAIN to : a \in OpenOn(q) /\ asg[a].to # Unset
    OBVIOUS
  <2>3. last[q] \in Int /\ days \in Int /\ DOMAIN la = {q} /\ la[q] = last[q] + days
    BY DEF At, IInv, TablesOK, Days
  <2> HIDE DEF of, la, to
  <2>4. w.status = <<>> /\ w.state = <<>> /\ w.last = la /\ w.to = to /\ w.new = {}
    BY DEF Nothing
  <2> HIDE DEF w
  <2>5. la[q] - last[q] = days
    BY <2>3
  <2>6. Extends(w)
    <3>1. \A p \in DOMAIN w.last : \A a \in OpenOn(p) :
            asg[a].to # Unset => a \in DOMAIN w.to /\ w.to[a] = asg[a].to + (w.last[p] - last[p])
      BY <2>2, <2>3, <2>4, <2>5
    <3>2. \A a \in DOMAIN w.to : a \in DOMAIN asg /\ asg[a].to # Unset /\ asg[a].job \in DOMAIN w.last
      BY <2>2, <2>3, <2>4 DEF OpenOn
    <3> QED BY <3>1, <3>2 DEF Extends
  <2>7. Fits(w, "extend")
    BY <2>4, <2>6 DEF Fits, Assigns, Closes, Declines
  <2> QED BY <2>1, <2>7 DEF PlansFit
<1> QED BY <1>1, <1>2

LEMMA NextFits ==
  ASSUME IInv, Next
  PROVE  \E t \in Sessions : PlansFit(t) \/ Commit(t) \/ Abort(t)
<1>1. ASSUME NEW t \in Sessions, NEW a \in DOMAIN asg,
             \/ Acknowledge(t, a) \/ DeclineAssignment(t, a)
             \/ \E to \in States : UpdateStatus(t, a, to)
             \/ CheckIn(t, a) \/ HalfDay(t, a)
      PROVE  PlansFit(t)
  <2>1. PlansChange(t) /\ PlansDecline(t)
    BY <1>1, PlainSteps, DecliningSteps
  <2>2. \E e \in {"respond", "status", "attend"} : Serve(t, e)
    BY <1>1 DEF Acknowledge, DeclineAssignment, UpdateStatus, CheckIn, HalfDay
  <2> QED BY <2>1, <2>2, PlainFits
<1>2. ASSUME NEW t \in Sessions, NEW q \in Reqs, CompleteRequirement(t, q) \/ CancelRequirement(t, q)
      PROVE  PlansFit(t)
  <2>1. PlansChange(t) /\ PlansDecline(t)
    BY <1>2, PlainSteps, DecliningClosures
  <2>2. \E e \in {"complete", "cancel"} : Serve(t, e)
    BY <1>2 DEF CompleteRequirement, CancelRequirement
  <2> QED BY <2>1, <2>2, PlainFits
<1> QED BY <1>1, <1>2, AvailabilityFits, CreateFits, ReplaceFits, ExtensionFits DEF Next, States

-----------------------------------------------------------------------------
(* One session closes: what it holds still fits when it commits.           *)
CloserInv(closer) ==
  /\ IInv /\ DeclinedReverts
  /\ \A s \in Sessions : sess[s].pc = "commit" =>
       /\ Assigns(sess[s].writes)
       /\ s = closer => Closes(sess[s].writes)
       /\ s # closer => sess[s].writes.state = <<>>

LEMMA InitCloser == ASSUME NEW closer, Init PROVE CloserInv(closer)
<1>1. \A s \in Sessions : sess[s].pc = "idle"
  BY DEF Init, Idle
<1>2. DeclinedReverts
  BY DEF Init, DeclinedReverts
<1> QED BY <1>1, <1>2, InitIInv DEF CloserInv

LEMMA ClosesKept ==
  ASSUME NEW closer \in Sessions, UNCHANGED asg
  PROVE  Closes(sess'[closer].writes) => Closes(sess[closer].writes)'
BY DEF Closes, Declines, Open

(* Nothing is committed: a request reads, or dies.                         *)
LEMMA QuietKeepsCloser ==
  ASSUME NEW closer \in Sessions, CloserInv(closer), IInv', UNCHANGED <<asg, status>>,
         \A t \in Sessions : \/ sess'[t] = sess[t] \/ sess'[t].pc = "idle"
                             \/ /\ Assigns(sess'[t].writes) /\ Closes(sess'[t].writes)
                                /\ t # closer => sess'[t].writes.state = <<>>
  PROVE  CloserInv(closer)'
<1>1. ASSUME NEW t \in Sessions, sess'[t].pc = "commit"
      PROVE  /\ Assigns(sess'[t].writes)
             /\ t = closer => Closes(sess'[t].writes)
             /\ t # closer => sess'[t].writes.state = <<>>
  BY <1>1 DEF CloserInv
<1>2. ASSUME NEW t \in Sessions, sess'[t].pc = "commit"
      PROVE  /\ Assigns(sess[t].writes)'
             /\ t = closer => Closes(sess[t].writes)'
             /\ t # closer => sess'[t].writes.state = <<>>
  <2>1. Assigns(sess[t].writes)'
    BY <1>1, <1>2 DEF Assigns
  <2> QED BY <1>1, <1>2, <2>1, ClosesKept
<1>3. DeclinedReverts'
  BY DEF CloserInv, DeclinedReverts
<1> QED BY <1>2, <1>3 DEF CloserInv

LEMMA ReadKeepsCloser ==
  ASSUME NEW closer, OneCloser(closer), CloserInv(closer), IInv', NEW s \in Sessions, PlansFit(s)
  PROVE  CloserInv(closer)'
<1>1. PICK w, e : Plan(s, w) /\ Serve(s, e) /\ Fits(w, e)
  BY DEF PlansFit
<1>2. sess'[s].writes = w /\ \A t \in Sessions \ {s} : sess'[t] = sess[t]
  BY <1>1 DEF Plan, CloserInv, IInv
<1>3. s # closer => w.state = <<>>
  BY <1>1 DEF OneCloser, Serve, Fits
<1>4. \A t \in Sessions : sess'[t] = sess[t]
        \/ /\ Assigns(sess'[t].writes) /\ Closes(sess'[t].writes)
           /\ t # closer => sess'[t].writes.state = <<>>
  BY <1>1, <1>2, <1>3 DEF Fits
<1> QED BY <1>1, <1>4, QuietKeepsCloser DEF Plan, OneCloser

LEMMA AbortKeepsCloser ==
  ASSUME NEW closer \in Sessions, CloserInv(closer), IInv', NEW s \in Sessions, Abort(s)
  PROVE  CloserInv(closer)'
<1>1. sess'[s].pc = "idle" /\ \A t \in Sessions \ {s} : sess'[t] = sess[t]
  BY FinishStep DEF Abort, CloserInv
<1>2. \A t \in Sessions : sess'[t] = sess[t] \/ sess'[t].pc = "idle"
  BY <1>1
<1> QED BY <1>2, QuietKeepsCloser DEF Abort

(* What a commit leaves of an assignment there was.                        *)
LEMMA CommitRows ==
  ASSUME IInv, NEW s \in Sessions, Commit(s), NEW w, w = sess[s].writes, NEW b \in DOMAIN asg
  PROVE  /\ b \in DOMAIN asg'
         /\ asg'[b].job = asg[b].job /\ asg'[b].worker = asg[b].worker /\ asg'[b].from = asg[b].from
         /\ asg'[b].to = IF b \in DOMAIN w.to THEN w.to[b] ELSE asg[b].to
         /\ asg'[b].state = IF b \in DOMAIN w.state THEN w.state[b] ELSE asg[b].state
BY CommitAssignments

LEMMA CommitReverts ==
  ASSUME NEW closer, CloserInv(closer), NEW s \in Sessions, Commit(s)
  PROVE  DeclinedReverts'
<1> DEFINE w == sess[s].writes
<1>1. IInv /\ IInv' /\ Assigns(w) /\ (w.state = <<>> \/ Closes(w))
  BY CommitStep DEF CloserInv, Commit
<1>2. status' = Update(status, w.status) /\ DOMAIN status = Reqs
  BY <1>1 DEF Commit, IInv, TablesOK
<1>3. \A b \in DOMAIN asg :
        /\ b \in DOMAIN asg' /\ asg'[b].job = asg[b].job
        /\ asg'[b].state = IF b \in DOMAIN w.state THEN w.state[b] ELSE asg[b].state
  BY <1>1, CommitRows
<1>4. \/ w.new = {}
      \/ \E r \in w.new, n \in Slots \ DOMAIN asg : DOMAIN asg' = DOMAIN asg \cup {n} /\ asg'[n] = r
  BY <1>1, CommitAssignments
<1> HIDE DEF w
<1> SUFFICES ASSUME NEW q \in Reqs, status'[q] = "workers_assigned"
             PROVE  \E a \in DOMAIN asg' : asg'[a].job = q /\ asg'[a].state # "declined"
  BY DEF DeclinedReverts
<1>5. CASE q \in DOMAIN w.status
  <2>1. w.status[q] = "workers_assigned"
    BY <1>2, <1>5 DEF Update
  <2>2. w.new # {} /\ \A r \in w.new : r.job = q /\ r.state = "assigned"
    BY <1>1, <1>5, <2>1 DEF Assigns
  <2>3. PICK r \in w.new, n \in Slots \ DOMAIN asg : DOMAIN asg' = DOMAIN asg \cup {n} /\ asg'[n] = r
    BY <1>4, <2>2
  <2> QED BY <2>2, <2>3
<1>6. CASE q \notin DOMAIN w.status
  <2>1. status[q] = "workers_assigned"
    BY <1>2, <1>6 DEF Update
  <2>2. PICK a \in DOMAIN asg : asg[a].job = q /\ asg[a].state # "declined"
    BY <2>1 DEF CloserInv, DeclinedReverts
  <2>3. CASE a \notin DOMAIN w.state \/ w.state[a] # "declined"
    BY <1>3, <2>2, <2>3
  <2>4. CASE a \in DOMAIN w.state /\ w.state[a] = "declined"
    <3>1. Declines(w)
      BY <1>1, <2>4 DEF Closes
    <3>2. PICK b \in DOMAIN asg \ DOMAIN w.state : asg[b].job = q /\ asg[b].state # "declined"
      BY <1>6, <2>2, <2>4, <3>1 DEF Declines
    <3> QED BY <1>3, <3>2
  <2> QED BY <2>3, <2>4
<1> QED BY <1>5, <1>6

LEMMA CommitKeepsCloser ==
  ASSUME NEW closer \in Sessions, CloserInv(closer), NEW s \in Sessions, Commit(s)
  PROVE  CloserInv(closer)'
<1> DEFINE w == sess[s].writes
           v == sess[closer].writes
<1>1. IInv /\ IInv' /\ DeclinedReverts'
  BY CommitStep, CommitReverts DEF CloserInv
<1>2. sess'[s].pc = "idle" /\ \A t \in Sessions \ {s} : sess'[t] = sess[t]
  BY <1>1, FinishStep DEF Commit
<1>3. ASSUME s # closer, sess'[closer].pc = "commit" PROVE Closes(sess[closer].writes)'
  <2>1. Closes(v) /\ sess'[closer].writes = v /\ w.state = <<>>
    BY <1>2, <1>3 DEF CloserInv, Commit
  <2>2. \A b \in DOMAIN asg :
          b \in DOMAIN asg' /\ asg'[b].job = asg[b].job /\ asg'[b].state = asg[b].state
    BY <1>1, <2>1, CommitRows
  <2> HIDE DEF v, w
  <2>3. \A a \in DOMAIN v.state : a \in DOMAIN asg' /\ (v.state[a] \in OpenStates => asg'[a].state \in OpenStates)
    BY <2>1, <2>2 DEF Closes, Open
  <2>4. \A a \in DOMAIN v.state : v.state[a] = "declined" =>
          \/ asg'[a].job \in DOMAIN v.status
          \/ \E b \in DOMAIN asg' \ DOMAIN v.state : asg'[b].job = asg'[a].job /\ asg'[b].state # "declined"
    <3> SUFFICES ASSUME NEW a \in DOMAIN v.state, v.state[a] = "declined", asg'[a].job \notin DOMAIN v.status
                 PROVE  \E b \in DOMAIN asg' \ DOMAIN v.state : asg'[b].job = asg'[a].job /\ asg'[b].state # "declined"
      OBVIOUS
    <3>1. a \in DOMAIN asg /\ asg'[a].job = asg[a].job
      BY <2>1, <2>2 DEF Closes
    <3>2. PICK b \in DOMAIN asg \ DOMAIN v.state : asg[b].job = asg[a].job /\ asg[b].state # "declined"
      BY <2>1, <3>1 DEF Closes, Declines
    <3> QED BY <2>2, <3>1, <3>2
  <2> QED BY <2>1, <2>3, <2>4 DEF Closes, Declines, Open
<1>4. ASSUME NEW t \in Sessions, sess'[t].pc = "commit"
      PROVE  /\ Assigns(sess[t].writes)'
             /\ t = closer => Closes(sess[t].writes)'
             /\ t # closer => sess'[t].writes.state = <<>>
  <2>1. t # s /\ sess'[t] = sess[t] /\ sess[t].pc = "commit"
    BY <1>2, <1>4
  <2>2. Assigns(sess[t].writes) /\ (t # closer => sess[t].writes.state = <<>>)
    BY <2>1 DEF CloserInv
  <2>3. Assigns(sess[t].writes)'
    BY <2>1, <2>2 DEF Assigns
  <2>4. t = closer => Closes(sess[t].writes)'
    BY <1>3, <1>4, <2>1
  <2> QED BY <2>1, <2>2, <2>3, <2>4
<1> HIDE DEF w, v
<1> QED BY <1>1, <1>4 DEF CloserInv

LEMMA NextCloser ==
  ASSUME NEW closer, OneCloser(closer), CloserInv(closer), [Next]_vars
  PROVE  CloserInv(closer)'
<1>1. IInv /\ IInv' /\ closer \in Sessions
  BY NextIInv DEF CloserInv, OneCloser
<1>2. CASE Next
  <2>1. PICK t \in Sessions : PlansFit(t) \/ Commit(t) \/ Abort(t)
    BY <1>1, <1>2, NextFits
  <2> QED BY <1>1, <2>1, ReadKeepsCloser, CommitKeepsCloser, AbortKeepsCloser
<1>3. CASE UNCHANGED vars
  BY <1>1, <1>3, QuietKeepsCloser DEF vars
<1> QED BY <1>2, <1>3

LEMMA CloserInvariance ==
  ASSUME NEW closer, OneCloser(closer)
  PROVE  Spec => []CloserInv(closer)
<1>1. Init => CloserInv(closer)
  BY InitCloser
<1>2. CloserInv(closer) /\ [Next]_vars => CloserInv(closer)'
  BY NextCloser
<1> QED BY <1>1, <1>2, PTL DEF Spec

LEMMA NextStaysClosed ==
  ASSUME NEW closer, OneCloser(closer), CloserInv(closer), [Next]_vars, NEW a \in DOMAIN asg, ~Open(a)
  PROVE  asg'[a].state \notin OpenStates
<1>1. IInv
  BY DEF CloserInv
<1>2. ASSUME NEW s \in Sessions, Commit(s) PROVE asg'[a].state \notin OpenStates
  <2> DEFINE w == sess[s].writes
  <2>1. w.state = <<>> \/ Closes(w)
    BY <1>2 DEF CloserInv, Commit
  <2>2. asg'[a].state = IF a \in DOMAIN w.state THEN w.state[a] ELSE asg[a].state
    BY <1>1, <1>2, CommitRows
  <2> HIDE DEF w
  <2> QED BY <2>1, <2>2 DEF Closes, Open
<1>3. CASE UNCHANGED asg
  BY <1>3 DEF Open
<1>4. CASE Next
  <2>1. PICK t \in Sessions : PlansFit(t) \/ Commit(t) \/ Abort(t)
    BY <1>1, <1>4, NextFits
  <2> QED BY <1>2, <1>3, <2>1 DEF PlansFit, Plan, Abort
<1> QED BY <1>3, <1>4 DEF vars

(* A requirement all of whose workers declined does not keep waiting for   *)
(* them: the decline that reopens it may cross an assignment or an         *)
(* extension of others, and what both leave is no such requirement.        *)
THEOREM DeclinedIsReverted ==
  ASSUME NEW closer, OneCloser(closer)
  PROVE  Spec => []DeclinedReverts
<1>1. CloserInv(closer) => DeclinedReverts
  BY DEF CloserInv
<1> QED BY <1>1, CloserInvariance, PTL

(* An assignment once closed is never open again, although what a request  *)
(* writes was decided before other requests committed.                     *)
THEOREM ClosedIsFinal ==
  ASSUME NEW closer, OneCloser(closer)
  PROVE  Spec => ClosedStaysClosed
<1>1. CloserInv(closer) /\ [Next]_vars =>
        [\A a \in DOMAIN asg : ~Open(a) => asg'[a].state \notin OpenStates]_vars
  BY NextStaysClosed
<1> QED BY <1>1, CloserInvariance, PTL DEF Spec, ClosedStaysClosed

-----------------------------------------------------------------------------
(* One session extends: the plan it holds moves every dated assignment     *)
(* that is still open when it commits.                                     *)
ExtenderInv(extender) ==
  \A s \in Sessions : sess[s].pc = "commit" =>
    /\ s = extender => Extends(sess[s].writes)
    /\ s # extender => sess[s].writes.last = <<>> /\ sess[s].writes.to = <<>> /\ sess[s].writes.new = {}

LEMMA ExtendsKept ==
  ASSUME NEW extender \in Sessions, UNCHANGED <<asg, last>>
  PROVE  Extends(sess'[extender].writes) => Extends(sess[extender].writes)'
BY DEF Extends, OpenOn, Open

LEMMA QuietKeepsExtender ==
  ASSUME NEW extender \in Sessions, ExtenderInv(extender), UNCHANGED <<asg, last>>,
         \A t \in Sessions : \/ sess'[t] = sess[t] \/ sess'[t].pc = "idle"
                             \/ /\ Extends(sess'[t].writes)
                                /\ t # extender => /\ sess'[t].writes.last = <<>>
                                                   /\ sess'[t].writes.to = <<>> /\ sess'[t].writes.new = {}
  PROVE  ExtenderInv(extender)'
<1>1. ASSUME NEW t \in Sessions, sess'[t].pc = "commit"
      PROVE  /\ t = extender => Extends(sess'[t].writes)
             /\ t # extender => /\ sess'[t].writes.last = <<>>
                                /\ sess'[t].writes.to = <<>> /\ sess'[t].writes.new = {}
  BY <1>1 DEF ExtenderInv
<1> QED BY <1>1, ExtendsKept DEF ExtenderInv

LEMMA ReadKeepsExtender ==
  ASSUME NEW extender, OneExtender(extender), IInv, ExtenderInv(extender), NEW s \in Sessions, PlansFit(s)
  PROVE  ExtenderInv(extender)'
<1>1. PICK w, e : Plan(s, w) /\ Serve(s, e) /\ Fits(w, e)
  BY DEF PlansFit
<1>2. sess'[s].writes = w /\ \A t \in Sessions \ {s} : sess'[t] = sess[t]
  BY <1>1 DEF Plan, IInv
<1>3. s # extender => w.last = <<>> /\ w.to = <<>> /\ w.new = {}
  BY <1>1 DEF OneExtender, Serve, Fits
<1>4. Extends(w)
  BY <1>1 DEF Fits
<1>5. \A t \in Sessions : sess'[t] = sess[t]
        \/ /\ Extends(sess'[t].writes)
           /\ t # extender => /\ sess'[t].writes.last = <<>>
                              /\ sess'[t].writes.to = <<>> /\ sess'[t].writes.new = {}
  BY <1>2, <1>3, <1>4
<1> QED BY <1>1, <1>5, QuietKeepsExtender DEF Plan, OneExtender

LEMMA AbortKeepsExtender ==
  ASSUME NEW extender \in Sessions, IInv, ExtenderInv(extender), NEW s \in Sessions, Abort(s)
  PROVE  ExtenderInv(extender)'
<1>1. sess'[s].pc = "idle" /\ \A t \in Sessions \ {s} : sess'[t] = sess[t]
  BY FinishStep DEF Abort
<1>2. \A t \in Sessions : sess'[t] = sess[t] \/ sess'[t].pc = "idle"
  BY <1>1
<1> QED BY <1>2, QuietKeepsExtender DEF Abort

(* The other sessions commit closures only, and close what they close for  *)
(* good: the plan in flight has no more to move than when it was made.     *)
LEMMA CommitKeepsExtender ==
  ASSUME NEW closer, OneCloser(closer), CloserInv(closer), NEW extender \in Sessions,
         ExtenderInv(extender), NEW s \in Sessions, Commit(s)
  PROVE  ExtenderInv(extender)'
<1> DEFINE w == sess[s].writes
           v == sess[extender].writes
<1>1. IInv
  BY DEF CloserInv
<1>2. sess'[s].pc = "idle" /\ \A t \in Sessions \ {s} : sess'[t] = sess[t]
  BY <1>1, FinishStep DEF Commit
<1>3. ASSUME s # extender, sess'[extender].pc = "commit" PROVE Extends(sess[extender].writes)'
  <2>1. Extends(v) /\ sess'[extender].writes = v /\ w.last = <<>> /\ w.to = <<>> /\ w.new = {}
    BY <1>2, <1>3 DEF ExtenderInv, Commit
  <2>2. \A b \in DOMAIN asg :
          b \in DOMAIN asg' /\ asg'[b].job = asg[b].job /\ asg'[b].to = asg[b].to
    BY <1>1, <2>1, CommitRows
  <2>3. last' = last
    BY <1>1, <2>1 DEF Commit, Update, IInv, TablesOK
  <2>4. DOMAIN asg' = DOMAIN asg
    BY <1>1, <2>1, CommitAssignments
  <2>5. \A b \in DOMAIN asg : asg'[b].state \in OpenStates => Open(b)
    BY NextStaysClosed DEF Next
  <2> HIDE DEF v, w
  <2>6. \A q : OpenOn(q)' \subseteq OpenOn(q)
    BY <2>2, <2>4, <2>5 DEF OpenOn, Open
  <2>7. \A q \in DOMAIN v.last : \A a \in OpenOn(q)' :
          asg'[a].to # Unset => a \in DOMAIN v.to /\ v.to[a] = asg'[a].to + (v.last[q] - last'[q])
    <3> SUFFICES ASSUME NEW q \in DOMAIN v.last, NEW a \in OpenOn(q), asg'[a].to # Unset
                 PROVE  a \in DOMAIN v.to /\ v.to[a] = asg'[a].to + (v.last[q] - last'[q])
      BY <2>6
    <3>1. a \in DOMAIN asg /\ asg'[a].to = asg[a].to
      BY <2>2 DEF OpenOn
    <3> QED BY <2>1, <2>3, <3>1 DEF Extends
  <2>8. \A a \in DOMAIN v.to : a \in DOMAIN asg' /\ asg'[a].to # Unset /\ asg'[a].job \in DOMAIN v.last
    BY <2>1, <2>2 DEF Extends
  <2> QED BY <2>1, <2>7, <2>8 DEF Extends
<1>4. ASSUME NEW t \in Sessions, sess'[t].pc = "commit"
      PROVE  /\ t = extender => Extends(sess[t].writes)'
             /\ t # extender => /\ sess'[t].writes.last = <<>>
                                /\ sess'[t].writes.to = <<>> /\ sess'[t].writes.new = {}
  <2>1. t # s /\ sess'[t] = sess[t] /\ sess[t].pc = "commit"
    BY <1>2, <1>4
  <2>2. t # extender => sess[t].writes.last = <<>> /\ sess[t].writes.to = <<>> /\ sess[t].writes.new = {}
    BY <2>1 DEF ExtenderInv
  <2>3. t = extender => Extends(sess[t].writes)'
    BY <1>3, <1>4, <2>1
  <2> QED BY <2>1, <2>2, <2>3
<1> HIDE DEF w, v
<1> QED BY <1>4 DEF ExtenderInv

LEMMA NextExtender ==
  ASSUME NEW closer, OneCloser(closer), CloserInv(closer),
         NEW extender, OneExtender(extender), ExtenderInv(extender), [Next]_vars
  PROVE  ExtenderInv(extender)'
<1>1. IInv /\ extender \in Sessions
  BY DEF CloserInv, OneExtender
<1>2. CASE Next
  <2>1. PICK t \in Sessions : PlansFit(t) \/ Commit(t) \/ Abort(t)
    BY <1>1, <1>2, NextFits
  <2> QED BY <1>1, <2>1, ReadKeepsExtender, CommitKeepsExtender, AbortKeepsExtender
<1>3. CASE UNCHANGED vars
  BY <1>1, <1>3, QuietKeepsExtender DEF vars
<1> QED BY <1>2, <1>3

LEMMA NextExtends ==
  ASSUME IInv, NEW extender, ExtenderInv(extender), [Next]_vars, NEW a \in DOMAIN asg,
         Open(a), asg'[a].state \in OpenStates, End(asg[a]) = last[asg[a].job]
  PROVE  End(asg[a])' = last'[asg[a].job]
<1>1. asg[a] \in Assignment /\ asg[a].job \in Reqs
  BY AssignmentsTyped
<1>2. ASSUME NEW s \in Sessions, Commit(s) PROVE End(asg[a])' = last'[asg[a].job]
  <2> DEFINE w == sess[s].writes
             q == asg[a].job
  <2>1. /\ asg'[a].job = q
        /\ asg'[a].to = IF a \in DOMAIN w.to THEN w.to[a] ELSE asg[a].to
    BY <1>2, CommitRows
  <2>2. last' = Update(last, w.last) /\ last \in [Reqs -> Days] /\ WritesOK(w)
    BY <1>2 DEF Commit, IInv, TablesOK
  <2>3. (s = extender /\ Extends(w)) \/ (w.last = <<>> /\ w.to = <<>>)
    BY <1>2 DEF ExtenderInv, Commit
  <2>4. a \in OpenOn(q)
    BY DEF OpenOn
  <2>5. asg[a].to # Unset => asg[a].to = last[q]
    BY DEF End
  <2> HIDE DEF w
  <2>6. CASE asg[a].to = Unset
    <3>1. a \notin DOMAIN w.to
      BY <2>3, <2>6 DEF Extends
    <3> HIDE DEF q
    <3> QED BY <2>1, <2>6, <3>1 DEF End, q
  <2>7. CASE asg[a].to # Unset /\ q \in DOMAIN w.last
    <3>1. a \in DOMAIN w.to /\ w.to[a] = asg[a].to + (w.last[q] - last[q])
      BY <2>3, <2>4, <2>7 DEF Extends
    <3>2. w.last[q] \in Days /\ last[q] \in Days /\ last'[q] = w.last[q]
      BY <1>1, <2>2, <2>7 DEF WritesOK, Update
    <3>3. w.to[a] = w.last[q]
      BY <2>5, <2>7, <3>1, <3>2 DEF Days
    <3>4. asg'[a].to = w.last[q] /\ w.last[q] # Unset
      BY <2>1, <3>1, <3>2, <3>3 DEF Days, Unset
    <3> QED BY <3>2, <3>4 DEF End
  <2>8. CASE asg[a].to # Unset /\ q \notin DOMAIN w.last
    <3>1. a \notin DOMAIN w.to
      BY <2>3, <2>8 DEF Extends
    <3>2. last'[q] = last[q]
      BY <1>1, <2>2, <2>8 DEF Update
    <3> QED BY <2>1, <2>5, <2>8, <3>1, <3>2 DEF End
  <2> QED BY <2>6, <2>7, <2>8
<1>3. CASE UNCHANGED <<asg, last>>
  BY <1>3 DEF End
<1>4. CASE Next
  <2>1. PICK t \in Sessions : PlansFit(t) \/ Commit(t) \/ Abort(t)
    BY <1>4, NextFits
  <2> QED BY <1>2, <1>3, <2>1 DEF PlansFit, Plan, Abort
<1> QED BY <1>3, <1>4 DEF vars

(* An approved extension reaches every open assignment that lasts to the   *)
(* end of its requirement, although workers and administrators respond,    *)
(* start and close assignments between its reading and its commit.         *)
THEOREM ExtensionReaches ==
  ASSUME NEW closer, OneCloser(closer), NEW extender, OneExtender(extender)
  PROVE  Spec => ExtensionReachesAll
<1>1. Init => ExtenderInv(extender)
  BY DEF Init, Idle, ExtenderInv
<1>2. CloserInv(closer) /\ ExtenderInv(extender) /\ [Next]_vars => ExtenderInv(extender)'
  BY NextExtender
<1>3. CloserInv(closer) /\ ExtenderInv(extender) /\ [Next]_vars =>
        [\A a \in DOMAIN asg :
           /\ Open(a) /\ asg'[a].state \in OpenStates
           /\ End(asg[a]) = last[asg[a].job]
           => End(asg[a])' = last'[asg[a].job]]_vars
  BY NextExtends DEF CloserInv
<1> QED BY <1>1, <1>2, <1>3, CloserInvariance, PTL DEF Spec, ExtensionReachesAll
=============================================================================
