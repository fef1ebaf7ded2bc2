------------------------------ MODULE Staffing ------------------------------
(***************************************************************************)
(* Assigning workers to approved requirements: api/admin_assignments.py,   *)
(* api/worker_assignments.py, the staffing half of                         *)
(* api/admin_requirements.py, api/worker_attendance.py and                 *)
(* api/admin_replacements.py, and the availability flag they all write.    *)
(*                                                                         *)
(* Every endpoint reads, decides, and commits later.  A request is two     *)
(* steps: reading leaves in the session the write set of its unit of work, *)
(* the columns whose value it changed; committing applies them to the      *)
(* tables as they then are.  Only the creation of an assignment holds a    *)
(* row lock, on its requirement, in between.                               *)
(***************************************************************************)
EXTENDS Integers, FiniteSets

CONSTANTS
  Reqs, Workers,
  Slots,         \* rows the assignment table may come to have
  Sessions,
  Serves,        \* Serves[s]: the endpoints requests of session s call
  Needed,        \* Needed[q]: number_of_workers
  Spans,         \* pairs of start_date and end_date requests ask for
  First, Last,   \* First[q], Last[q]: the days of the requirement at first
  MaxDay,        \* bound on the last day of an extended requirement
  NoSession

Endpoints == {"create", "respond", "status", "attend", "complete", "cancel", "replace",
              "complaint", "extend", "availability"}

Days == 1..MaxDay

ASSUME StaffingAssumption ==
  /\ MaxDay \in Nat
  /\ Serves \in [Sessions -> SUBSET Endpoints]
  /\ Needed \in [Reqs -> Nat \ {0}]
  /\ First \in [Reqs -> Days] /\ Last \in [Reqs -> Days]
  /\ \A q \in Reqs : First[q] <= Last[q]
  /\ Spans \subseteq (Days \cup {0}) \X (Days \cup {0})
  /\ \A span \in Spans : span[2] = 0 \/ (span[1] # 0 /\ span[1] <= span[2])
  /\ NoSession \notin Sessions

Unset == 0                    \* a date column that is NULL

RequirementTransitions ==
  [approved         |-> {"workers_assigned", "cancelled"},
   workers_assigned |-> {"in_progress", "approved", "cancelled"},
   in_progress      |-> {"completed", "cancelled"},
   completed        |-> {},
   cancelled        |-> {}]

AssignmentTransitions ==
  [assigned  |-> {"accepted", "declined", "cancelled", "replaced"},
   accepted  |-> {"active", "cancelled", "replaced"},
   active    |-> {"completed", "cancelled", "replaced"},
   declined  |-> {},
   completed |-> {},
   cancelled |-> {},
   replaced  |-> {}]

OpenStates == {"assigned", "accepted", "active"}
FreeingStates == {"declined", "cancelled", "completed", "replaced"}

Assignment == [job : Reqs, worker : Workers, state : DOMAIN AssignmentTransitions,
               from : Days \cup {Unset}, to : Days \cup {Unset}]

VARIABLES
  status,  \* requirements.status
  last,    \* requirements.start_date + duration_days - 1
  offer,   \* TRUE: an extension quote awaits the client's decision
  asg,     \* assignments, a function on the slots in use
  avail,   \* worker_profiles.is_available
  lock,    \* the session holding the row lock of each requirement
  sess     \* requests in flight, between read and commit

vars == <<status, last, offer, asg, avail, lock, sess>>

-----------------------------------------------------------------------------
Open(a)    == asg[a].state \in OpenStates
OpenOn(q)  == {a \in DOMAIN asg : asg[a].job = q /\ Open(a)}
OpenOf(w)  == {a \in DOMAIN asg : asg[a].worker = w /\ Open(a)}
Between(q, w) == {a \in DOMAIN asg : asg[a].job = q /\ asg[a].worker = w}

Begin(r)   == IF r.from = Unset THEN First[r.job] ELSE r.from
End(r)     == IF r.to = Unset THEN last[r.job] ELSE r.to
DaysOf(r)  == Begin(r)..End(r)
Overlap(r1, r2) == Begin(r1) <= End(r2) /\ Begin(r2) <= End(r1)

(* The write set of a unit of work: one partial function per column, and   *)
(* the rows it inserts.                                                    *)
Nothing == [status |-> <<>>, last |-> <<>>, offer |-> <<>>, state |-> <<>>, to |-> <<>>,
            avail |-> <<>>, new |-> {}]

At(x, v) == [y \in {x} |-> v]

(* The values of a column once those of a write set are put in.            *)
Update(column, writes) ==
  [x \in DOMAIN column \cup DOMAIN writes |-> IF x \in DOMAIN writes THEN writes[x] ELSE column[x]]

(* An attribute set to the value it was loaded with is not written.        *)
Changed(column, xs, v) == [x \in {y \in xs : column[y] # v} |-> v]

OccupyNobody(w) == <<>>       \* seeded fault: the worker stays available

SetStatus(q, v) == Changed(status, {q}, v)
Release(ws)     == Changed(avail, ws, TRUE)
Occupy(w)       == Changed(avail, {w}, FALSE)
SetState(as, v) == [a \in {b \in as : asg[b].state # v} |-> v]

Idle == [pc |-> "idle", writes |-> Nothing]

Serve(s, endpoint) == sess[s].pc = "idle" /\ endpoint \in Serves[s]

Plan(s, writes) ==
  /\ sess' = [sess EXCEPT ![s] = [pc |-> "commit", writes |-> writes]]
  /\ UNCHANGED <<status, last, offer, asg, avail>>

Init ==
  /\ status = [q \in Reqs |-> "approved"]
  /\ last = Last
  /\ offer = [q \in Reqs |-> FALSE]
  /\ asg = <<>>
  /\ avail = [w \in Workers |-> TRUE]
  /\ lock = [q \in Reqs |-> NoSession]
  /\ sess = [s \in Sessions |-> Idle]

-----------------------------------------------------------------------------
(* What POST /assignments asks for.                                        *)
Requests ==
  {[job |-> q, worker |-> w, state |-> "assigned", from |-> span[1], to |-> span[2]] :
     q \in Reqs, w \in Workers, span \in Spans}

(* Seeded fault: a day may hold one worker more than asked for.            *)
HasRoomForOneMore(new) ==
  \A d \in DaysOf(new) :
    Cardinality({a \in OpenOn(new.job) : d \in DaysOf(asg[a])}) <= Needed[new.job]

HasRoom(new) ==
  \A d \in DaysOf(new) :
    Cardinality({a \in OpenOn(new.job) : d \in DaysOf(asg[a])}) < Needed[new.job]

OnSameDays(new) ==
  \E a \in Between(new.job, new.worker) :
    asg[a].state \notin {"declined", "cancelled", "replaced"} /\ Overlap(asg[a], new)

(* The worker's open assignments on other requirements, an assignment      *)
(* without both dates counting for its whole requirement, against the      *)
(* whole of this one.                                                      *)
HasConflict(new) ==
  \E a \in OpenOf(new.worker) :
    LET undated  == [asg[a] EXCEPT !.from = Unset, !.to = Unset]
        occupied == IF asg[a].from # Unset /\ asg[a].to # Unset THEN asg[a] ELSE undated
    IN  asg[a].job # new.job /\ Overlap(occupied, [new EXCEPT !.from = Unset, !.to = Unset])

(* SELECT ... FOR UPDATE on the requirement, kept until commit or abort;   *)
(* the seeded fault is a plain SELECT.                                     *)
Reads(s, q) == UNCHANGED lock
Locks(s, q) == lock[q] = NoSession /\ lock' = [lock EXCEPT ![q] = s]

(* POST /assignments.  The advance is no condition here: the admin may     *)
(* override it with skip_payment_check.                                    *)
CreateAssignment(s, new) ==
  /\ Serve(s, "create")
  /\ Locks(s, new.job)
  /\ status[new.job] \in {"approved", "workers_assigned"}
  /\ HasRoom(new)
  /\ new.to # Unset => new.to <= last[new.job]
  /\ new.from # Unset => new.from >= First[new.job]
  /\ avail[new.worker]
  /\ ~OnSameDays(new)
  /\ ~HasConflict(new)
  /\ Plan(s, [Nothing EXCEPT !.new = {new}, !.avail = Occupy(new.worker),
                             !.status = SetStatus(new.job, "workers_assigned")])

-----------------------------------------------------------------------------
(* POST /{id}/acknowledge.                                                 *)
Acknowledge(s, a) ==
  /\ Serve(s, "respond")
  /\ asg[a].state = "assigned"
  /\ Plan(s, [Nothing EXCEPT !.state = At(a, "accepted")])
  /\ UNCHANGED lock

(* Whether declining a leaves its requirement without open assignments,    *)
(* and so reopens it; the seeded fault counts a itself as still open.      *)
StillCounted(a) == OpenOn(asg[a].job) = {}
LastOpen(a)     == OpenOn(asg[a].job) \subseteq {a}

(* A decline that should reopen a requirement that cannot be is refused.   *)
Decline(a, freed) ==
  [Nothing EXCEPT !.state = At(a, "declined"), !.avail = Release(freed),
                  !.status = IF LastOpen(a) THEN At(asg[a].job, "approved") ELSE <<>>]

MayDecline(a) ==
  /\ "declined" \in AssignmentTransitions[asg[a].state]
  /\ LastOpen(a) => "approved" \in RequirementTransitions[status[asg[a].job]]

(* POST /{id}/decline by the worker, who stays unavailable.                *)
DeclineAssignment(s, a) ==
  /\ Serve(s, "respond")
  /\ MayDecline(a)
  /\ Plan(s, Decline(a, {}))
  /\ UNCHANGED lock

(* PATCH /{id}/status by an admin.                                         *)
UpdateStatus(s, a, to) ==
  /\ Serve(s, "status")
  /\ to \in AssignmentTransitions[asg[a].state]
  /\ IF to = "declined"
     THEN MayDecline(a) /\ Plan(s, Decline(a, {asg[a].worker}))
     ELSE Plan(s, [Nothing EXCEPT
                     !.state = At(a, to),
                     !.avail = Release(IF to \in FreeingStates THEN {asg[a].worker} ELSE {})])
  /\ UNCHANGED lock

(* A first check-in starts the assignment, and the requirement with it.    *)
CheckIn(s, a) ==
  /\ Serve(s, "attend")
  /\ asg[a].state \in {"assigned", "accepted"}
  /\ LET q == asg[a].job
     IN  /\ status[q] # "in_progress" => "in_progress" \in RequirementTransitions[status[q]]
         /\ Plan(s, [Nothing EXCEPT !.state = At(a, "active"),
                                    !.status = SetStatus(q, "in_progress")])
  /\ UNCHANGED lock

(* Seeded fault: a half-day report activates whatever assignment it names. *)
HalfDayAnyState(s, a) ==
  /\ Serve(s, "attend")
  /\ Plan(s, [Nothing EXCEPT
                !.state = SetState({a}, "active"),
                !.status = IF status[asg[a].job] = "workers_assigned"
                           THEN At(asg[a].job, "in_progress") ELSE <<>>])
  /\ UNCHANGED lock

(* A half-day report does too, but never refuses.                          *)
HalfDay(s, a) ==
  /\ Serve(s, "attend")
  /\ asg[a].state \in {"assigned", "accepted"}
  /\ Plan(s, [Nothing EXCEPT
                !.state = At(a, "active"),
                !.status = IF status[asg[a].job] = "workers_assigned"
                           THEN At(asg[a].job, "in_progress") ELSE <<>>])
  /\ UNCHANGED lock

-----------------------------------------------------------------------------
(* Completion closes the open assignments and leaves the workers as they   *)
(* are.  (Attendance awaiting approval only refuses it.)                   *)
CompleteRequirement(s, q) ==
  /\ Serve(s, "complete")
  /\ "completed" \in RequirementTransitions[status[q]]
  /\ Plan(s, [Nothing EXCEPT !.status = At(q, "completed"),
                             !.state = SetState(OpenOn(q), "completed")])
  /\ UNCHANGED lock

CancelRequirement(s, q) ==
  /\ Serve(s, "cancel")
  /\ "cancelled" \in RequirementTransitions[status[q]]
  /\ Plan(s, [Nothing EXCEPT !.status = At(q, "cancelled"),
                             !.state = SetState(OpenOn(q), "cancelled"),
                             !.avail = Release({asg[a].worker : a \in OpenOn(q)})])
  /\ UNCHANGED lock

(* POST /{id}/replace: same dates, the old worker freed, the new occupied. *)
(* A worker with two rows on the requirement makes the lookup raise.       *)
ReplaceWorker(s, a, w) ==
  LET old == asg[a].worker
      new == [asg[a] EXCEPT !.worker = w, !.state = "assigned"]
  IN
  /\ Serve(s, "replace")
  /\ Open(a)
  /\ Cardinality(Between(asg[a].job, w)) <= 1
  /\ \A b \in Between(asg[a].job, w) : ~Open(b)
  /\ avail[w]
  /\ Plan(s, [Nothing EXCEPT !.state = At(a, "replaced"), !.new = {new},
                             !.avail = Update(Occupy(w), Release({old}))])
  /\ UNCHANGED lock

(* POST /replacements for a complaint: any assignment of the requirement,  *)
(* open or not; the new one is undated and no availability changes.        *)
ReplaceForComplaint(s, a, w) ==
  /\ Serve(s, "complaint")
  /\ avail[w]
  /\ Between(asg[a].job, w) = {}
  /\ Plan(s, [Nothing EXCEPT
                !.state = SetState({a}, "replaced"),
                !.new = {[asg[a] EXCEPT !.worker = w, !.state = "assigned",
                                        !.from = Unset, !.to = Unset]}])
  /\ UNCHANGED lock

(* An extension quote, and the client's decision on it.  Approval moves    *)
(* the end of the requirement and of its dated open assignments (in the    *)
(* seeded fault, of those already started).                                *)
RequestExtension(s, q) ==
  /\ Serve(s, "extend")
  /\ status[q] \in {"in_progress", "workers_assigned"}
  /\ ~offer[q]
  /\ Plan(s, [Nothing EXCEPT !.offer = At(q, TRUE)])
  /\ UNCHANGED lock

ApproveForActive(s, q, days) ==
  /\ Serve(s, "extend")
  /\ offer[q]
  /\ last[q] + days <= MaxDay
  /\ Plan(s, [Nothing EXCEPT
                !.offer = At(q, FALSE), !.last = At(q, last[q] + days),
                !.to = [a \in {b \in OpenOn(q) : asg[b].to # Unset /\ asg[b].state = "active"}
                          |-> asg[a].to + days]])
  /\ UNCHANGED lock

ApproveExtension(s, q, days) ==
  /\ Serve(s, "extend")
  /\ offer[q]
  /\ last[q] + days <= MaxDay
  /\ \A a \in OpenOn(q) : asg[a].to + days <= MaxDay
  /\ Plan(s, [Nothing EXCEPT
                !.offer = At(q, FALSE), !.last = At(q, last[q] + days),
                !.to = [a \in {b \in OpenOn(q) : asg[b].to # Unset} |-> asg[a].to + days]])
  /\ UNCHANGED lock

RejectExtension(s, q) ==
  /\ Serve(s, "extend")
  /\ offer[q]
  /\ Plan(s, [Nothing EXCEPT !.offer = At(q, FALSE)])
  /\ UNCHANGED lock

(* The worker, or an admin for the worker, sets the flag at any time.      *)
SetAvailability(s, w) ==
  /\ Serve(s, "availability")
  /\ Plan(s, [Nothing EXCEPT !.avail = At(w, ~avail[w])])
  /\ UNCHANGED lock

-----------------------------------------------------------------------------
(* The commit.  Writing a requirement row, or inserting a row that refers  *)
(* to it, waits for its lock.                                              *)
Written(writes) ==
  DOMAIN writes.status \cup DOMAIN writes.last \cup {r.job : r \in writes.new}

Updated(writes) ==
  [a \in DOMAIN asg |->
     [asg[a] EXCEPT !.state = IF a \in DOMAIN writes.state THEN writes.state[a] ELSE @,
                    !.to    = IF a \in DOMAIN writes.to    THEN writes.to[a]    ELSE @]]

Finish(s) ==
  /\ sess' = [sess EXCEPT ![s] = Idle]
  /\ lock' = [q \in Reqs |-> IF lock[q] = s THEN NoSession ELSE lock[q]]

Commit(s) ==
  LET writes == sess[s].writes
  IN
  /\ sess[s].pc = "commit"
  /\ \A q \in Written(writes) : lock[q] \in {NoSession, s}
  /\ status' = Update(status, writes.status)
  /\ last'   = Update(last, writes.last)
  /\ offer'  = Update(offer, writes.offer)
  /\ avail'  = Update(avail, writes.avail)
  /\ \/ writes.new = {} /\ asg' = Updated(writes)
     \/ \E r \in writes.new, a \in Slots \ DOMAIN asg : asg' = Update(Updated(writes), At(a, r))
  /\ Finish(s)

(* The request dies before its commit.                                     *)
Abort(s) ==
  /\ sess[s].pc = "commit"
  /\ Finish(s)
  /\ UNCHANGED <<status, last, offer, asg, avail>>

Next ==
  \E s \in Sessions :
    \/ \E new \in Requests : CreateAssignment(s, new)
    \/ \E a \in DOMAIN asg :
         \/ Acknowledge(s, a)
         \/ DeclineAssignment(s, a)
         \/ \E to \in DOMAIN AssignmentTransitions : UpdateStatus(s, a, to)
         \/ CheckIn(s, a)
         \/ HalfDay(s, a)
         \/ \E w \in Workers : ReplaceWorker(s, a, w)
         \/ \E w \in Workers : ReplaceForComplaint(s, a, w)
    \/ \E q \in Reqs :
         \/ CompleteRequirement(s, q)
         \/ CancelRequirement(s, q)
         \/ RequestExtension(s, q)
         \/ \E days \in Days : ApproveExtension(s, q, days)
         \/ RejectExtension(s, q)
    \/ \E w \in Workers : SetAvailability(s, w)
    \/ Commit(s)
    \/ Abort(s)

Spec == Init /\ [][Next]_vars

-----------------------------------------------------------------------------
TypeOK ==
  /\ status \in [Reqs -> DOMAIN RequirementTransitions]
  /\ last \in [Reqs -> Days]
  /\ offer \in [Reqs -> BOOLEAN]
  /\ DOMAIN asg \subseteq Slots /\ \A a \in DOMAIN asg : asg[a] \in Assignment
  /\ avail \in [Workers -> BOOLEAN]
  /\ lock \in [Reqs -> Sessions \cup {NoSession}]
  /\ \A s \in Sessions : sess[s].pc \in {"idle", "commit"} /\ sess[s].writes.new \subseteq Assignment

(* "no single day in the requested window may exceed number_of_workers":   *)
(* concurrent creations count each other's assignments.                    *)
DayCapacity ==
  \A q \in Reqs, d \in Days :
    Cardinality({a \in OpenOn(q) : d \in DaysOf(asg[a])}) <= Needed[q]

(* A worker covers a day of a requirement once, however often an admin     *)
(* submits the same assignment.                                            *)
WorkerOncePerDay ==
  \A a, b \in DOMAIN asg :
    /\ a # b /\ Open(a) /\ Open(b)
    /\ asg[a].job = asg[b].job /\ asg[a].worker = asg[b].worker
    => ~Overlap(asg[a], asg[b])

(* "an assigned worker is occupied": as long as nobody sets the flag by    *)
(* hand, a worker with an open assignment is not available.                *)
OccupiedUnavailable ==
  \A a \in DOMAIN asg : Open(a) => ~avail[asg[a].worker]

(* The status of a requirement moves along its state machine, although     *)
(* requests write it from what they read earlier.                          *)
RequirementMoves ==
  [][\A q \in Reqs : status'[q] # status[q] => status'[q] \in RequirementTransitions[status[q]]]_vars

(* An assignment once closed is never open again.                          *)
ClosedStaysClosed ==
  [][\A a \in DOMAIN asg : ~Open(a) => asg'[a].state \notin OpenStates]_vars

(* "all workers declined -> revert": a requirement whose every assignment  *)
(* was declined is not left waiting in workers_assigned.                   *)
DeclinedReverts ==
  \A q \in Reqs : status[q] = "workers_assigned" =>
    \E a \in DOMAIN asg : asg[a].job = q /\ asg[a].state # "declined"

(* "Approving one extends duration_days and all active assignment          *)
(* end_dates": an open assignment that lasts to the end of its requirement *)
(* keeps doing so.                                                         *)
ExtensionReachesAll ==
  [][\A a \in DOMAIN asg :
       /\ Open(a) /\ asg'[a].state \in OpenStates
       /\ End(asg[a]) = last[asg[a].job]
       => End(asg[a])' = last'[asg[a].job]]_vars

(* "prevent concurrent double-assignment": no worker is due at two jobs on *)
(* one day.                                                                *)
NotDoubleBooked ==
  \A a, b \in DOMAIN asg :
    /\ a # b /\ Open(a) /\ Open(b) /\ asg[a].worker = asg[b].worker
    => ~Overlap(asg[a], asg[b])
=============================================================================
