---------------------------- MODULE PayrollProofs ----------------------------
(***************************************************************************)
(* Proofs about Payroll, for any number of requests in flight and for      *)
(* every rate, period and amount.  Types and payouts need nothing else;    *)
(* amounts, what was paid, and corrections each need one role to be one    *)
(* session (OneBook, OnePayer, OneKeeper), since nothing is locked.        *)
(***************************************************************************)
EXTENDS Payroll, FiniteSetTheorems, TLAPS

USE PayrollAssumption

(* The columns of a row, or those a unit of work writes.                   *)
AttColumns(x) ==
  /\ DOMAIN x \subseteq {"status", "approval"}
  /\ "status" \in DOMAIN x => x.status \in AttendanceStatuses
  /\ "approval" \in DOMAIN x => x.approval \in {"pending", "approved", "rejected"}

RunColumns(x) ==
  /\ DOMAIN x \subseteq {"status", "strict", "from", "to", "auto"}
  /\ "status" \in DOMAIN x => x.status \in RunStatuses
  /\ "strict" \in DOMAIN x => x.strict \in BOOLEAN
  /\ "from" \in DOMAIN x => x.from \in Nat
  /\ "to" \in DOMAIN x => x.to \in Nat

ItemColumns(x) ==
  /\ DOMAIN x \subseteq {"basis", "gross", "deductions", "net", "stale", "paid"}
  /\ "gross" \in DOMAIN x => x.gross \in Nat
  /\ "deductions" \in DOMAIN x => x.deductions \in Nat
  /\ "net" \in DOMAIN x => x.net \in Nat
  /\ "stale" \in DOMAIN x => x.stale \in BOOLEAN
  /\ "paid" \in DOMAIN x => x.paid \in BOOLEAN

PayoutColumns(x) == DOMAIN x \subseteq {"item", "amount", "status"}

AttRow(x)    == AttColumns(x) /\ DOMAIN x = {"status", "approval"}
RunRow(x)    == RunColumns(x) /\ DOMAIN x = {"status", "strict", "from", "to", "auto"}
ItemRow(x)   == ItemColumns(x) /\ DOMAIN x = {"basis", "gross", "deductions", "net", "stale", "paid"}
PayoutRow(x) == DOMAIN x = {"item", "amount", "status"}

TablesOK ==
  /\ DOMAIN att \subseteq Asgs \X Days /\ \A k \in DOMAIN att : AttRow(att[k])
  /\ DOMAIN runs \subseteq Runs /\ \A r \in DOMAIN runs : RunRow(runs[r])
  /\ DOMAIN items \subseteq (DOMAIN runs) \X Asgs /\ \A i \in DOMAIN items : ItemRow(items[i])
  /\ deducted \in [DOMAIN items -> Nat]
  /\ DOMAIN payouts \subseteq Payouts
  /\ \A p \in DOMAIN payouts : PayoutRow(payouts[p]) /\ payouts[p].item \in DOMAIN items

(* A unit of work writes columns of rows that are there, whoever inserted  *)
(* them, or whole rows.  A payout row it inserts is its own; an item it    *)
(* marks as paid has a payout, or gets one with it.                        *)
AttWritesOK(w) ==
  \A k \in DOMAIN w.att :
    k \in Asgs \X Days /\ AttColumns(w.att[k]) /\ (k \in DOMAIN att \/ AttRow(w.att[k]))

RunWritesOK(w) ==
  \A r \in DOMAIN w.runs :
    r \in Runs /\ RunColumns(w.runs[r]) /\ (r \in DOMAIN runs \/ RunRow(w.runs[r]))

Settled(w, i) ==
  \/ \E p \in DOMAIN payouts : payouts[p].item = i
  \/ \E p \in DOMAIN w.payouts \ DOMAIN payouts : w.payouts[p].item = i

ItemWritesOK(w) ==
  \A i \in DOMAIN w.items :
    /\ i \in (DOMAIN runs \cup DOMAIN w.runs) \X Asgs
    /\ ItemColumns(w.items[i])
    /\ i \in DOMAIN items \/ ItemRow(w.items[i])
    /\ "paid" \in DOMAIN w.items[i] /\ w.items[i].paid => Settled(w, i)

PayoutWritesOK(w) ==
  \A p \in DOMAIN w.payouts :
    /\ p \in Payouts /\ PayoutColumns(w.payouts[p])
    /\ p \in DOMAIN payouts => "item" \notin DOMAIN w.payouts[p]
    /\ p \notin DOMAIN payouts =>
         PayoutRow(w.payouts[p]) /\ w.payouts[p].item \in DOMAIN items \cup DOMAIN w.items

WritesOK(w) ==
  /\ AttWritesOK(w) /\ RunWritesOK(w) /\ ItemWritesOK(w) /\ PayoutWritesOK(w)
  /\ \A i \in DOMAIN w.deducted : w.deducted[i] \in Nat

SessOK ==
  /\ DOMAIN unit = Callers
  /\ \A s \in Callers :
       /\ DOMAIN unit[s] = {"pc", "writes", "corrected"}
       /\ unit[s].pc \in {"idle", "commit", "mark", "marked"}
       /\ WritesOK(unit[s].writes)

(* The payout rows a request is about to insert.                           *)
Fresh(s) == DOMAIN unit[s].writes.payouts \ DOMAIN payouts

FreshApart == \A s, t \in Callers : s # t => Fresh(s) \cap Fresh(t) = {}

IInv == TablesOK /\ SessOK /\ FreshApart /\ PaidItemHasPayout

-----------------------------------------------------------------------------
(* The helpers.                                                            *)
LEMMA NothingOK == WritesOK(NoWrites)
BY DEF WritesOK, AttWritesOK, RunWritesOK, ItemWritesOK, PayoutWritesOK, NoWrites

(* Pay is never negative.                                                  *)
LEMMA NetIsNat ==
  ASSUME NEW gross \in Nat, NEW deductions \in Nat
  PROVE  NetAmount(gross, deductions) \in Nat
BY DEF NetAmount

LEMMA HalfRoundedIsNat == \A n \in Nat : HalfRounded(n) \in Nat
BY DEF HalfRounded

LEMMA TallyIsNat ==
  ASSUME NEW basis, IsFiniteSet(DOMAIN basis), NEW states
  PROVE  Tally(basis, states) \in Nat
<1>1. IsFiniteSet({d \in DOMAIN basis : basis[d] \in states})
  BY FS_Subset
<1> QED BY <1>1, FS_CardinalityType DEF Tally

LEMMA GrossIsNat ==
  ASSUME NEW a \in Asgs, NEW basis, IsFiniteSet(DOMAIN basis), NEW strict
  PROVE  GrossAmount(a, basis, strict) \in Nat
<1>1. Rate[a] \in Nat
  OBVIOUS
<1> DEFINE full == Tally(basis, PresentStatuses(strict))
           half == Tally(basis, {"half_day"})
<1>2. full \in Nat /\ half \in Nat
  BY TallyIsNat
<1> HIDE DEF full, half
<1>3. \A x, y \in Nat : x * y \in Nat /\ x + y \in Nat
  OBVIOUS
<1>4. 2 * Rate[a] * full + Rate[a] * half \in Nat
  BY <1>1, <1>2, <1>3
<1>5. HalfRounded(2 * Rate[a] * full + Rate[a] * half) \in Nat
  BY <1>4, HalfRoundedIsNat
<1> QED BY <1>5 DEF GrossAmount, full, half

(* The records of a period are finitely many.                              *)
LEMMA RecordsFinite ==
  ASSUME TablesOK, NEW r \in DOMAIN runs, NEW a
  PROVE  IsFiniteSet(DOMAIN Records(a, DaysOf(r)))
<1>1. runs[r].from \in Int /\ runs[r].to \in Int
  BY DEF TablesOK, RunRow, RunColumns
<1>2. IsFiniteSet(DaysOf(r))
  BY <1>1, FS_Interval DEF DaysOf
<1>3. DOMAIN Records(a, DaysOf(r)) \subseteq DaysOf(r)
  BY DEF Records
<1> QED BY <1>2, <1>3, FS_Subset

LEMMA AttChanges ==
  ASSUME NEW old, NEW new, AttRow(old), AttRow(new)
  PROVE  AttColumns(Changes(old, new))
<1> DEFINE x == Changes(old, new)
<1>1. DOMAIN x = {c \in DOMAIN old : old[c] # new[c]} /\ \A c \in DOMAIN x : x[c] = new[c]
  BY DEF Changes
<1> HIDE DEF x
<1>2. AttColumns(x)
  BY <1>1 DEF AttRow, AttColumns
<1> QED BY <1>2 DEF x

LEMMA RunChanges ==
  ASSUME NEW old, NEW new, RunRow(old), RunRow(new)
  PROVE  RunColumns(Changes(old, new))
<1> DEFINE x == Changes(old, new)
<1>1. DOMAIN x = {c \in DOMAIN old : old[c] # new[c]} /\ \A c \in DOMAIN x : x[c] = new[c]
  BY DEF Changes
<1> HIDE DEF x
<1>2. RunColumns(x)
  BY <1>1 DEF RunRow, RunColumns
<1> QED BY <1>2 DEF x

LEMMA ItemChanges ==
  ASSUME NEW old, NEW new, ItemRow(old), ItemRow(new)
  PROVE  /\ ItemColumns(Changes(old, new))
         /\ "paid" \in DOMAIN Changes(old, new) => new.paid # old.paid
<1> DEFINE x == Changes(old, new)
<1>1. DOMAIN x = {c \in DOMAIN old : old[c] # new[c]} /\ \A c \in DOMAIN x : x[c] = new[c]
  BY DEF Changes
<1> HIDE DEF x
<1>2. ItemColumns(x) /\ ("paid" \in DOMAIN x => new.paid # old.paid)
  BY <1>1 DEF ItemRow, ItemColumns
<1> QED BY <1>2 DEF x

-----------------------------------------------------------------------------
LEMMA InitIInv == PayrollInit => IInv
<1> SUFFICES ASSUME PayrollInit PROVE IInv
  OBVIOUS
<1>1. TablesOK /\ PaidItemHasPayout
  BY DEF PayrollInit, TablesOK, PaidItemHasPayout
<1>2. \A s \in Callers : unit[s] = Idle
  BY DEF PayrollInit
<1>3. DOMAIN Idle = {"pc", "writes", "corrected"} /\ Idle.pc = "idle" /\ Idle.writes = NoWrites
  BY DEF Idle
<1>4. SessOK
  BY <1>2, <1>3, NothingOK DEF SessOK, PayrollInit
<1>5. FreshApart
  BY <1>2, <1>3 DEF FreshApart, Fresh, NoWrites
<1> QED BY <1>1, <1>4, <1>5 DEF IInv

(* A request that has read and decided, its unit of work in the session.   *)
LEMMA RequestStep ==
  ASSUME IInv, NEW s \in Callers, NEW w,
         WritesOK(w), DOMAIN w.payouts \ DOMAIN payouts \subseteq NewPayouts,
         UNCHANGED <<att, runs, items, deducted, payouts>>,
         DOMAIN unit' = Callers,
         DOMAIN unit'[s] = {"pc", "writes", "corrected"},
         unit'[s].pc \in {"idle", "commit", "mark", "marked"},
         unit'[s].writes = w,
         \A t \in Callers \ {s} : unit'[t] = unit[t]
  PROVE  IInv'
<1>1. TablesOK' /\ PaidItemHasPayout'
  BY DEF IInv, TablesOK, PaidItemHasPayout, PayoutsOf
<1>2. ASSUME NEW t \in Callers PROVE WritesOK(unit[t].writes)'
  <2>1. WritesOK(unit'[t].writes)
    BY DEF IInv, SessOK
  <2>2. AttWritesOK(unit[t].writes)'
    BY <2>1 DEF WritesOK, AttWritesOK
  <2>3. RunWritesOK(unit[t].writes)'
    BY <2>1 DEF WritesOK, RunWritesOK
  <2>4. ItemWritesOK(unit[t].writes)'
    BY <2>1 DEF WritesOK, ItemWritesOK, Settled
  <2>5. PayoutWritesOK(unit[t].writes)'
    BY <2>1 DEF WritesOK, PayoutWritesOK
  <2> QED BY <2>1, <2>2, <2>3, <2>4, <2>5 DEF WritesOK
<1>3. SessOK'
  BY <1>2 DEF IInv, SessOK
<1>4. FreshApart'
  BY DEF IInv, SessOK, FreshApart, Fresh, NewPayouts
<1> QED BY <1>1, <1>3, <1>4 DEF IInv

LEMMA PlanStep ==
  ASSUME IInv, NEW s \in Callers, NEW w, Propose(s, w),
         WritesOK(w), DOMAIN w.payouts \ DOMAIN payouts \subseteq NewPayouts
  PROVE  IInv'
<1>1. /\ DOMAIN unit' = Callers
      /\ DOMAIN unit'[s] = {"pc", "writes", "corrected"}
      /\ unit'[s].pc = "commit" /\ unit'[s].writes = w
      /\ \A t \in Callers \ {s} : unit'[t] = unit[t]
  BY DEF IInv, SessOK, Propose
<1> QED BY <1>1, RequestStep DEF Propose

(* A unit of work that touches one table only.                             *)
LEMMA OneTable ==
  ASSUME NEW f
  PROVE  /\ AttWritesOK([NoWrites EXCEPT !.att = f]) => WritesOK([NoWrites EXCEPT !.att = f])
         /\ RunWritesOK([NoWrites EXCEPT !.runs = f]) => WritesOK([NoWrites EXCEPT !.runs = f])
         /\ PayoutWritesOK([NoWrites EXCEPT !.payouts = f]) => WritesOK([NoWrites EXCEPT !.payouts = f])
         /\ ItemWritesOK([NoWrites EXCEPT !.items = f]) => WritesOK([NoWrites EXCEPT !.items = f])
BY DEF WritesOK, AttWritesOK, RunWritesOK, ItemWritesOK, PayoutWritesOK, NoWrites

LEMMA AttendStep ==
  ASSUME IInv, NEW s \in Callers, NEW a \in Asgs, NEW d \in Days
  PROVE  CheckIn(s, a, d) \/ HalfDay(s, a, d) => IInv'
<1> SUFFICES ASSUME NEW status \in {"present", "half_day"}, Attend(s, a, d, status) PROVE IInv'
  BY DEF CheckIn, HalfDay
<1> DEFINE w == [NoWrites EXCEPT !.att = At(<<a, d>>, [status |-> status, approval |-> "pending"])]
<1>1. w.att = At(<<a, d>>, [status |-> status, approval |-> "pending"]) /\ w.payouts = <<>>
  BY DEF NoWrites
<1>2. AttRow([status |-> status, approval |-> "pending"])
  BY DEF AttRow, AttColumns, AttendanceStatuses
<1>3. AttWritesOK(w)
  <2>1. DOMAIN w.att = {<<a, d>>} /\ AttRow(w.att[<<a, d>>])
    BY <1>1, <1>2 DEF At
  <2> HIDE DEF w
  <2> QED BY <2>1 DEF AttWritesOK, AttRow
<1>4. WritesOK(w)
  BY <1>3, OneTable
<1>5. Propose(s, w)
  BY DEF Attend
<1> HIDE DEF w
<1> QED BY <1>1, <1>4, <1>5, PlanStep

LEMMA ReviewStep ==
  ASSUME IInv, NEW s \in Callers, NEW k \in DOMAIN att
  PROVE  Approve(s, k) \/ Reject(s, k) => IInv'
<1> SUFFICES ASSUME NEW approval \in {"approved", "rejected"}, Review(s, k, approval) PROVE IInv'
  BY DEF Approve, Reject
<1> DEFINE w == [NoWrites EXCEPT !.att = At(k, [approval |-> approval])]
<1>1. w.att = At(k, [approval |-> approval]) /\ w.payouts = <<>>
  BY DEF NoWrites
<1>2. AttColumns([approval |-> approval])
  BY DEF AttColumns
<1>3. AttWritesOK(w)
  <2>1. DOMAIN w.att = {k} /\ AttColumns(w.att[k])
    BY <1>1, <1>2 DEF At
  <2> HIDE DEF w
  <2> QED BY <2>1 DEF AttWritesOK, IInv, TablesOK
<1>4. WritesOK(w)
  BY <1>3, OneTable
<1>5. Propose(s, w)
  BY DEF Review
<1> HIDE DEF w
<1> QED BY <1>1, <1>4, <1>5, PlanStep

LEMMA CorrectStep ==
  ASSUME IInv, NEW s \in Callers, NEW k \in DOMAIN att, NEW status \in Corrections,
         Correct(s, k, status)
  PROVE  IInv'
<1> DEFINE row == [att[k] EXCEPT !.status = status]
           w   == [NoWrites EXCEPT !.att = At(k, Changes(att[k], row))]
<1>1. w.att = At(k, Changes(att[k], row)) /\ w.payouts = <<>>
  BY DEF NoWrites
<1>2. AttRow(att[k]) /\ k \in Asgs \X Days
  BY DEF IInv, TablesOK
<1>3. AttRow(row)
  BY <1>2 DEF AttRow, AttColumns
<1>4. AttColumns(Changes(att[k], row))
  BY <1>2, <1>3, AttChanges
<1>5. AttWritesOK(w)
  <2>1. DOMAIN w.att = {k} /\ AttColumns(w.att[k])
    BY <1>1, <1>4 DEF At
  <2> HIDE DEF w
  <2> QED BY <1>2, <2>1 DEF AttWritesOK
<1>6. WritesOK(w)
  BY <1>5, OneTable
<1>7. /\ DOMAIN unit' = Callers
      /\ DOMAIN unit'[s] = {"pc", "writes", "corrected"}
      /\ unit'[s].pc = "commit" /\ unit'[s].writes = w
      /\ \A t \in Callers \ {s} : unit'[t] = unit[t]
  BY DEF IInv, SessOK, Correct
<1>8. UNCHANGED <<att, runs, items, deducted, payouts>>
  BY DEF Correct
<1> HIDE DEF w
<1> QED BY <1>1, <1>6, <1>7, <1>8, RequestStep

LEMMA MarkStaleStep ==
  ASSUME IInv, NEW s \in Callers, MarkStale(s)
  PROVE  IInv'
<1> DEFINE k == unit[s].corrected
           marked == ToMark(k[1], k[2])
           f == [i \in marked |-> Changes(items[i], [items[i] EXCEPT !.stale = TRUE])]
           w == [NoWrites EXCEPT !.items = f]
<1>1. w.items = f /\ w.payouts = <<>> /\ w.runs = <<>>
  BY DEF NoWrites
<1>2. marked \subseteq DOMAIN items
  BY DEF ToMark, Covering
<1>3. ASSUME NEW i \in marked
      PROVE  ItemColumns(f[i]) /\ "paid" \notin DOMAIN f[i] /\ i \in (DOMAIN runs) \X Asgs
  <2> DEFINE row == [items[i] EXCEPT !.stale = TRUE]
  <2>1. ItemRow(items[i]) /\ i \in (DOMAIN runs) \X Asgs
    BY <1>2 DEF IInv, TablesOK
  <2>2. ItemRow(row) /\ row.paid = items[i].paid
    BY <2>1 DEF ItemRow, ItemColumns
  <2>3. f[i] = Changes(items[i], row)
    OBVIOUS
  <2> HIDE DEF row, f
  <2> QED BY <2>1, <2>2, <2>3, ItemChanges
<1>4. DOMAIN f = marked
  OBVIOUS
<1>5. ItemWritesOK(w)
  <2> HIDE DEF f, w, marked
  <2> QED BY <1>1, <1>2, <1>3, <1>4 DEF ItemWritesOK
<1>6. WritesOK(w)
  BY <1>5, OneTable
<1>7. /\ DOMAIN unit' = Callers
      /\ DOMAIN unit'[s] = {"pc", "writes", "corrected"}
      /\ unit'[s].pc = "marked" /\ unit'[s].writes = w
      /\ \A t \in Callers \ {s} : unit'[t] = unit[t]
  BY DEF IInv, SessOK, MarkStale
<1>8. UNCHANGED <<att, runs, items, deducted, payouts>>
  BY DEF MarkStale
<1> HIDE DEF w
<1> QED BY <1>1, <1>6, <1>7, <1>8, RequestStep

LEMMA RunStep ==
  ASSUME IInv, NEW s \in Callers, NEW r \in Runs, NEW row,
         RunColumns(row), r \in DOMAIN runs \/ RunRow(row),
         Propose(s, [NoWrites EXCEPT !.runs = At(r, row)])
  PROVE  IInv'
<1> DEFINE w == [NoWrites EXCEPT !.runs = At(r, row)]
<1>1. DOMAIN w.runs = {r} /\ w.runs[r] = row /\ w.payouts = <<>>
  BY DEF At, NoWrites
<1>2. RunWritesOK(w)
  <2> HIDE DEF w
  <2> QED BY <1>1 DEF RunWritesOK
<1>3. WritesOK(w)
  BY <1>2, OneTable
<1>4. Propose(s, w)
  OBVIOUS
<1> HIDE DEF w
<1> QED BY <1>1, <1>3, <1>4, PlanStep

LEMMA CreateRunStep ==
  ASSUME IInv, NEW s \in Callers, NEW r \in NewRuns, NEW period \in Periods,
         NEW strict \in BOOLEAN, CreateRun(s, r, period, strict)
  PROVE  IInv'
<1> DEFINE row == [status |-> "draft", strict |-> strict, from |-> period[1],
                   to |-> period[2], auto |-> FALSE]
<1>1. r \in Runs
  BY DEF NewRuns
<1>2. RunRow(row)
  BY DEF RunRow, RunColumns, RunStatuses, Days
<1>3. Propose(s, [NoWrites EXCEPT !.runs = At(r, row)])
  BY DEF CreateRun
<1> HIDE DEF row
<1> QED BY <1>1, <1>2, <1>3, RunStep DEF RunRow

LEMMA SetRunStatusStep ==
  ASSUME IInv, NEW s \in Callers, NEW r \in DOMAIN runs, NEW status \in RunStatuses,
         SetRunStatus(s, r, status)
  PROVE  IInv'
<1> DEFINE new == [runs[r] EXCEPT !.status = status]
           row == Changes(runs[r], new)
<1>1. r \in Runs /\ RunRow(runs[r])
  BY DEF IInv, TablesOK
<1>2. RunRow(new)
  BY <1>1 DEF RunRow, RunColumns
<1>3. RunColumns(row)
  BY <1>1, <1>2, RunChanges
<1>4. Propose(s, [NoWrites EXCEPT !.runs = At(r, row)])
  BY DEF SetRunStatus
<1> HIDE DEF row
<1> QED BY <1>1, <1>3, <1>4, RunStep

LEMMA GenerateStep ==
  ASSUME IInv, NEW s \in Callers, NEW r \in DOMAIN runs, Generate(s, r)
  PROVE  IInv'
<1> DEFINE new == [runs[r] EXCEPT !.status = "generated"]
           row == Changes(runs[r], new)
           gross(k) == GrossAmount(k[2], Records(k[2], DaysOf(r)), runs[r].strict)
           f == [k \in {r} \X Asgs |-> BuildItem(k[2], Records(k[2], DaysOf(r)), gross(k))]
           w == [NoWrites EXCEPT !.runs = At(r, row), !.items = f]
<1>1. r \in Runs /\ RunRow(runs[r])
  BY DEF IInv, TablesOK
<1>2. RunRow(new)
  BY <1>1 DEF RunRow, RunColumns, RunStatuses
<1>3. RunColumns(row)
  BY <1>1, <1>2, RunChanges
<1>4. ASSUME NEW k \in {r} \X Asgs
      PROVE  ItemRow(f[k]) /\ ~f[k].paid
  <2>1. gross(k) \in Nat
    BY RecordsFinite, GrossIsNat DEF IInv
  <2>2. f[k] = BuildItem(k[2], Records(k[2], DaysOf(r)), gross(k))
    OBVIOUS
  <2> HIDE DEF gross, f
  <2> QED BY <2>1, <2>2 DEF BuildItem, ItemRow, ItemColumns
<1>5. DOMAIN f = {r} \X Asgs
  OBVIOUS
<1> HIDE DEF row, f
<1>6. /\ w.runs = At(r, row) /\ w.items = f
      /\ w.att = <<>> /\ w.deducted = <<>> /\ w.payouts = <<>>
  BY DEF NoWrites
<1>7. Propose(s, w)
  BY DEF Generate, f, row
<1> HIDE DEF w
<1>8. RunWritesOK(w)
  <2>1. DOMAIN w.runs = {r} /\ w.runs[r] = row
    BY <1>6 DEF At
  <2> QED BY <1>1, <1>3, <2>1 DEF RunWritesOK
<1>9. ItemWritesOK(w)
  <2>1. DOMAIN w.items = {r} \X Asgs
    BY <1>5, <1>6
  <2>2. \A k \in {r} \X Asgs : ItemRow(w.items[k]) /\ ~w.items[k].paid
    BY <1>4, <1>6
  <2> QED BY <2>1, <2>2 DEF ItemWritesOK, ItemRow
<1>10. WritesOK(w)
  BY <1>6, <1>8, <1>9 DEF WritesOK, AttWritesOK, PayoutWritesOK
<1> QED BY <1>6, <1>7, <1>10, PlanStep

(* A unit of work on one item that does not mark it as paid.               *)
LEMMA ItemStep ==
  ASSUME IInv, NEW s \in Callers, NEW i \in DOMAIN items, NEW row,
         ItemRow(row), row.paid = items[i].paid,
         NEW w, Propose(s, w), w.att = <<>>, w.runs = <<>>, w.payouts = <<>>,
         w.items = At(i, Changes(items[i], row)),
         \A j \in DOMAIN w.deducted : w.deducted[j] \in Nat
  PROVE  IInv'
<1> DEFINE c == Changes(items[i], row)
<1>1. ItemRow(items[i]) /\ i \in (DOMAIN runs) \X Asgs
  BY DEF IInv, TablesOK
<1>2. ItemColumns(c) /\ "paid" \notin DOMAIN c
  BY <1>1, ItemChanges
<1>3. DOMAIN w.items = {i} /\ w.items[i] = c
  BY DEF At
<1> HIDE DEF c
<1>4. ItemWritesOK(w)
  BY <1>1, <1>2, <1>3 DEF ItemWritesOK
<1>5. WritesOK(w)
  BY <1>4 DEF WritesOK, AttWritesOK, RunWritesOK, PayoutWritesOK
<1> QED BY <1>5, PlanStep

LEMMA AddDeductionStep ==
  ASSUME IInv, NEW s \in Callers, NEW i \in DOMAIN items, NEW amount \in Amounts,
         AddDeduction(s, i, amount)
  PROVE  IInv'
<1> DEFINE row == Recalculated(i, amount)
<1>1. ItemRow(items[i]) /\ deducted[i] \in Nat /\ amount \in Nat
  BY DEF IInv, TablesOK
<1>2. deducted[i] + amount \in Nat /\ NetAmount(items[i].gross, deducted[i] + amount) \in Nat
  <2>1. deducted[i] + amount \in Nat
    BY <1>1
  <2>2. items[i].gross \in Nat
    BY <1>1 DEF ItemRow, ItemColumns
  <2> QED BY <2>1, <2>2, NetIsNat
<1>3. ItemRow(row) /\ row.paid = items[i].paid
  BY <1>1, <1>2 DEF Recalculated, ItemRow, ItemColumns
<1> DEFINE f == At(i, Changes(items[i], row))
           d == At(i, amount)
           w == [NoWrites EXCEPT !.items = f, !.deducted = d]
<1>4. Propose(s, w)
  BY DEF AddDeduction
<1>5. \A j \in DOMAIN d : d[j] \in Nat
  BY <1>1 DEF At
<1> HIDE DEF d, f
<1>6. w.att = <<>> /\ w.runs = <<>> /\ w.payouts = <<>> /\ w.items = f /\ w.deducted = d
  BY DEF NoWrites
<1> HIDE DEF row, w
<1> QED BY <1>3, <1>4, <1>5, <1>6, ItemStep DEF f

LEMMA RecalculateStep ==
  ASSUME IInv, NEW s \in Callers, NEW i \in DOMAIN items, RecalculateItem(s, i)
  PROVE  IInv'
<1> DEFINE basis == Records(i[2], DaysOf(i[1]))
           gross == GrossAmount(i[2], basis, runs[i[1]].strict)
           row   == [items[i] EXCEPT !.basis = basis, !.gross = gross, !.deductions = deducted[i],
                                     !.net = NetAmount(gross, deducted[i]), !.stale = FALSE]
<1>1. ItemRow(items[i]) /\ deducted[i] \in Nat /\ i[1] \in DOMAIN runs /\ i[2] \in Asgs
  BY DEF IInv, TablesOK
<1>2. gross \in Nat
  BY <1>1, RecordsFinite, GrossIsNat DEF IInv
<1> DEFINE f == At(i, Changes(items[i], row))
           w == [NoWrites EXCEPT !.items = f]
<1>3. Propose(s, w)
  BY DEF RecalculateItem
<1> HIDE DEF gross, basis
<1>4. NetAmount(gross, deducted[i]) \in Nat
  BY <1>1, <1>2, NetIsNat
<1>5. ItemRow(row) /\ row.paid = items[i].paid
  BY <1>1, <1>2, <1>4 DEF ItemRow, ItemColumns
<1> HIDE DEF f
<1>6. w.att = <<>> /\ w.runs = <<>> /\ w.payouts = <<>> /\ w.items = f /\ w.deducted = <<>>
  BY DEF NoWrites
<1> HIDE DEF row, w
<1> QED BY <1>3, <1>5, <1>6, ItemStep DEF f

LEMMA CreatePayoutStep ==
  ASSUME IInv, NEW s \in Callers, NEW p \in NewPayouts, NEW i \in DOMAIN items,
         NEW amount \in Amounts, CreatePayout(s, p, i, amount)
  PROVE  IInv'
<1> DEFINE row == [item |-> i, amount |-> amount, status |-> "pending"]
           f == At(p, row)
           w == [NoWrites EXCEPT !.payouts = f]
<1>1. Propose(s, w)
  BY DEF CreatePayout
<1>2. PayoutRow(row) /\ row.item = i
  BY DEF PayoutRow
<1> HIDE DEF row
<1>3. DOMAIN f = {p} /\ f[p] = row
  BY DEF At
<1> HIDE DEF f
<1>4. w.payouts = f
  BY DEF NoWrites
<1>5. PayoutWritesOK(w)
  <2> HIDE DEF w
  <2> QED BY <1>2, <1>3, <1>4 DEF PayoutWritesOK, PayoutRow, PayoutColumns, NewPayouts
<1>6. WritesOK(w)
  BY <1>5, OneTable
<1> HIDE DEF w
<1> QED BY <1>1, <1>3, <1>4, <1>6, PlanStep

LEMMA SetPayoutStatusStep ==
  ASSUME IInv, NEW s \in Callers, NEW p \in DOMAIN payouts, NEW status \in PayoutStatuses,
         SetPayoutStatus(s, p, status)
  PROVE  IInv'
<1> DEFINE i == payouts[p].item
           new == [payouts[p] EXCEPT !.status = status]
           row == Changes(payouts[p], new)
           item == [items[i] EXCEPT !.paid = TRUE]
           c == Changes(items[i], item)
           f == At(p, row)
           g == IF status = "paid" THEN At(i, c) ELSE <<>>
           w == [NoWrites EXCEPT !.payouts = f, !.items = g]
<1>1. Propose(s, w)
  BY DEF SetPayoutStatus
<1>2. /\ p \in Payouts /\ PayoutRow(payouts[p])
      /\ i \in DOMAIN items /\ i \in (DOMAIN runs) \X Asgs /\ ItemRow(items[i])
  BY DEF IInv, TablesOK
<1>3. PayoutColumns(row) /\ "item" \notin DOMAIN row
  <2>1. DOMAIN row = {x \in DOMAIN payouts[p] : payouts[p][x] # new[x]}
    BY DEF Changes
  <2>2. new["item"] = payouts[p]["item"] /\ DOMAIN payouts[p] = {"item", "amount", "status"}
    BY <1>2 DEF PayoutRow
  <2> HIDE DEF row, new
  <2> QED BY <2>1, <2>2 DEF PayoutColumns
<1>4. ItemColumns(c)
  <2>1. ItemRow(item)
    BY <1>2 DEF ItemRow, ItemColumns
  <2> HIDE DEF item
  <2> QED BY <1>2, <2>1, ItemChanges
<1> HIDE DEF row, c
<1>5. DOMAIN f = {p} /\ f[p] = row
  BY DEF At
<1>6. DOMAIN g \subseteq {i} /\ \A j \in DOMAIN g : g[j] = c
  BY DEF At
<1> HIDE DEF f, g
<1>7. w.payouts = f /\ w.items = g /\ w.att = <<>> /\ w.runs = <<>> /\ w.deducted = <<>>
  BY DEF NoWrites
<1> HIDE DEF w
<1>8. PayoutWritesOK(w)
  BY <1>2, <1>3, <1>5, <1>7 DEF PayoutWritesOK
<1>9. ItemWritesOK(w)
  BY <1>2, <1>4, <1>6, <1>7 DEF ItemWritesOK, Settled
<1>10. WritesOK(w)
  BY <1>7, <1>8, <1>9 DEF WritesOK, AttWritesOK, RunWritesOK
<1> QED BY <1>1, <1>5, <1>7, <1>10, PlanStep

LEMMA MarkRunPaidStep ==
  ASSUME IInv, NEW s \in Callers, NEW r \in DOMAIN runs, MarkRunPaid(s, r)
  PROVE  IInv'
<1> DEFINE due == ToPay(r)
<1>1. PICK row \in [due -> NewPayouts] :
        /\ \A i, j \in due : i # j => row[i] # row[j]
        /\ Propose(s, [NoWrites EXCEPT
             !.runs    = At(r, [status |-> "paid"]),
             !.items   = [i \in {j \in ItemsOf(r) : ~items[j].paid} |-> [paid |-> TRUE]],
             !.payouts = [p \in {row[i] : i \in due} |->
                            LET i == CHOOSE j \in due : row[j] = p
                            IN  [item |-> i, amount |-> items[i].net, status |-> "paid"]]])
  BY DEF MarkRunPaid
<1> DEFINE owner(p) == CHOOSE j \in due : row[j] = p
           f == At(r, [status |-> "paid"])
           g == [i \in {j \in ItemsOf(r) : ~items[j].paid} |-> [paid |-> TRUE]]
           h == [p \in {row[i] : i \in due} |->
                   [item |-> owner(p), amount |-> items[owner(p)].net, status |-> "paid"]]
           w == [NoWrites EXCEPT !.runs = f, !.items = g, !.payouts = h]
<1>2. Propose(s, w)
  BY <1>1
<1>3. due \subseteq DOMAIN items /\ DOMAIN g = due
  BY DEF ToPay, ItemsOf
<1>4. \A i \in due : owner(row[i]) = i
  BY <1>1
<1>5. r \in Runs /\ DOMAIN f = {r} /\ RunColumns(f[r])
  BY DEF IInv, TablesOK, At, RunColumns, RunStatuses
<1>6. \A i \in due : ItemColumns(g[i])
  BY <1>3 DEF ItemColumns
<1>7. DOMAIN h = {row[i] : i \in due}
  OBVIOUS
<1>8. \A i \in due : PayoutRow(h[row[i]]) /\ h[row[i]].item = i
  BY <1>4, <1>7 DEF PayoutRow
<1> HIDE DEF f, g, h, due, owner
<1>9. w.payouts = h /\ w.items = g /\ w.att = <<>> /\ w.runs = f /\ w.deducted = <<>>
  BY DEF NoWrites
<1> HIDE DEF w
<1>10. \A i \in due : row[i] \in NewPayouts /\ row[i] \in Payouts \ DOMAIN payouts
  BY <1>1 DEF NewPayouts
<1>11. PayoutWritesOK(w)
  <2>1. ASSUME NEW p \in DOMAIN w.payouts
        PROVE  /\ p \in Payouts \ DOMAIN payouts
               /\ PayoutRow(w.payouts[p]) /\ w.payouts[p].item \in DOMAIN items
    <3>1. PICK i \in due : p = row[i]
      BY <1>7, <1>9
    <3> QED BY <1>3, <1>8, <1>9, <1>10, <3>1
  <2> QED BY <2>1 DEF PayoutWritesOK, PayoutRow, PayoutColumns
<1>12. ItemWritesOK(w)
  <2> SUFFICES ASSUME NEW i \in due
               PROVE  i \in (DOMAIN runs) \X Asgs /\ ItemColumns(w.items[i]) /\ Settled(w, i)
    BY <1>3, <1>9 DEF ItemWritesOK
  <2>1. row[i] \in DOMAIN w.payouts \ DOMAIN payouts /\ w.payouts[row[i]].item = i
    BY <1>7, <1>8, <1>9, <1>10
  <2> QED BY <1>3, <1>6, <1>9, <2>1 DEF Settled, IInv, TablesOK
<1>13. RunWritesOK(w)
  BY <1>5, <1>9 DEF RunWritesOK
<1>14. WritesOK(w)
  BY <1>9, <1>11, <1>12, <1>13 DEF WritesOK, AttWritesOK
<1>15. DOMAIN w.payouts \ DOMAIN payouts \subseteq NewPayouts
  BY <1>7, <1>9, <1>10
<1> QED BY <1>2, <1>14, <1>15, PlanStep

LEMMA RecordWorkerPaymentStep ==
  ASSUME IInv, NEW s \in Callers, NEW a \in Asgs, NEW r \in Runs, NEW p \in NewPayouts,
         NEW amount \in Amounts, RecordWorkerPayment(s, a, r, p, amount)
  PROVE  IInv'
<1> DEFINE own == {x \in DOMAIN runs : runs[x].auto}
           f == [x \in {r} \ own |-> [status |-> "generated", strict |-> FALSE,
                                      from |-> 1, to |-> LastDay, auto |-> TRUE]]
           item == [BuildItem(a, Records(a, Days), amount) EXCEPT !.paid = TRUE]
           row == [item |-> <<r, a>>, amount |-> amount, status |-> "completed"]
           g == At(<<r, a>>, item)
           h == At(p, row)
           w == [NoWrites EXCEPT !.runs = f, !.items = g, !.payouts = h]
<1>1. Propose(s, w)
  BY DEF RecordWorkerPayment
<1>2. r \in DOMAIN runs \/ r \in DOMAIN f
  BY DEF RecordWorkerPayment
<1>3. DOMAIN f \subseteq {r} /\ \A x \in DOMAIN f : RunRow(f[x])
  BY DEF RunRow, RunColumns, RunStatuses
<1>4. ItemRow(item)
  BY DEF BuildItem, ItemRow, ItemColumns
<1>5. PayoutRow(row) /\ row.item = <<r, a>>
  BY DEF PayoutRow
<1> HIDE DEF item, row
<1>6. DOMAIN g = {<<r, a>>} /\ g[<<r, a>>] = item /\ DOMAIN h = {p} /\ h[p] = row
  BY DEF At
<1> HIDE DEF f, g, h
<1>7. w.payouts = h /\ w.items = g /\ w.att = <<>> /\ w.runs = f /\ w.deducted = <<>>
  BY DEF NoWrites
<1> HIDE DEF w
<1>8. p \in Payouts \ DOMAIN payouts
  BY DEF NewPayouts
<1>9. PayoutWritesOK(w)
  BY <1>5, <1>6, <1>7, <1>8 DEF PayoutWritesOK, PayoutRow, PayoutColumns
<1>10. Settled(w, <<r, a>>)
  BY <1>5, <1>6, <1>7, <1>8 DEF Settled
<1>11. ItemWritesOK(w)
  BY <1>2, <1>4, <1>6, <1>7, <1>10 DEF ItemWritesOK, ItemRow
<1>12. RunWritesOK(w)
  BY <1>3, <1>7 DEF RunWritesOK, RunRow
<1>13. WritesOK(w)
  BY <1>7, <1>9, <1>11, <1>12 DEF WritesOK, AttWritesOK
<1> QED BY <1>1, <1>6, <1>7, <1>13, PlanStep

-----------------------------------------------------------------------------
(* The commit writes typed columns over typed rows.                        *)
LEMMA OverwrittenRow ==
  ASSUME NEW row, NEW columns
  PROVE  /\ AttRow(row) /\ AttColumns(columns) => AttRow(Overwritten(row, columns))
         /\ RunRow(row) /\ RunColumns(columns) => RunRow(Overwritten(row, columns))
         /\ ItemRow(row) /\ ItemColumns(columns) =>
              /\ ItemRow(Overwritten(row, columns))
              /\ Overwritten(row, columns).paid =>
                   row.paid \/ ("paid" \in DOMAIN columns /\ columns.paid)
         /\ PayoutRow(row) /\ PayoutColumns(columns) /\ "item" \notin DOMAIN columns =>
              PayoutRow(Overwritten(row, columns)) /\ Overwritten(row, columns).item = row.item
<1> DEFINE x == Overwritten(row, columns)
<1>1. /\ DOMAIN x = DOMAIN row \cup DOMAIN columns
      /\ \A c \in DOMAIN columns : x[c] = columns[c]
      /\ \A c \in DOMAIN row \ DOMAIN columns : x[c] = row[c]
  BY DEF Overwritten
<1> HIDE DEF x
<1>2. AttRow(row) /\ AttColumns(columns) => AttRow(x)
  BY <1>1 DEF AttRow, AttColumns
<1>3. RunRow(row) /\ RunColumns(columns) => RunRow(x)
  BY <1>1 DEF RunRow, RunColumns
<1>4. ItemRow(row) /\ ItemColumns(columns) =>
        ItemRow(x) /\ (x.paid => row.paid \/ ("paid" \in DOMAIN columns /\ columns.paid))
  BY <1>1 DEF ItemRow, ItemColumns
<1>5. PayoutRow(row) /\ PayoutColumns(columns) /\ "item" \notin DOMAIN columns =>
        PayoutRow(x) /\ x.item = row.item
  BY <1>1 DEF PayoutRow, PayoutColumns
<1> QED BY <1>2, <1>3, <1>4, <1>5 DEF x

LEMMA CommitTables ==
  ASSUME IInv, NEW s \in Callers, CommitUnit(s)
  PROVE  /\ TablesOK' /\ PaidItemHasPayout'
         /\ DOMAIN att \subseteq DOMAIN att' /\ DOMAIN runs \subseteq DOMAIN runs'
         /\ DOMAIN items \subseteq DOMAIN items'
         /\ DOMAIN payouts' = DOMAIN payouts \cup Fresh(s)
         /\ \A p \in DOMAIN payouts : payouts'[p].item = payouts[p].item
<1> DEFINE w == unit[s].writes
<1>1. WritesOK(w) /\ TablesOK
  BY DEF IInv, SessOK
<1>2. /\ att' = Apply(att, w.att) /\ runs' = Apply(runs, w.runs)
      /\ items' = Apply(items, w.items) /\ payouts' = Apply(payouts, w.payouts)
      /\ deducted' = [i \in DOMAIN items' |->
                        Deducted(i) + IF i \in DOMAIN w.deducted THEN w.deducted[i] ELSE 0]
  BY DEF CommitUnit
<1>3. Fresh(s) = DOMAIN w.payouts \ DOMAIN payouts
  BY DEF Fresh
<1> HIDE DEF w
<1>4. DOMAIN att' \subseteq Asgs \X Days /\ DOMAIN att \subseteq DOMAIN att'
      /\ \A k \in DOMAIN att' : AttRow(att'[k])
  <2>1. /\ DOMAIN att' = DOMAIN att \cup DOMAIN w.att
        /\ \A k \in DOMAIN att \ DOMAIN w.att : att'[k] = att[k]
        /\ \A k \in DOMAIN w.att \ DOMAIN att : att'[k] = w.att[k]
        /\ \A k \in DOMAIN att \cap DOMAIN w.att : att'[k] = Overwritten(att[k], w.att[k])
    BY <1>2 DEF Apply
  <2>2. \A k \in DOMAIN att' : AttRow(att'[k])
    BY <1>1, <2>1, OverwrittenRow DEF WritesOK, AttWritesOK, TablesOK
  <2> QED BY <1>1, <2>1, <2>2 DEF WritesOK, AttWritesOK, TablesOK
<1>5. DOMAIN runs' = DOMAIN runs \cup DOMAIN w.runs /\ DOMAIN runs' \subseteq Runs
      /\ \A r \in DOMAIN runs' : RunRow(runs'[r])
  <2>1. /\ DOMAIN runs' = DOMAIN runs \cup DOMAIN w.runs
        /\ \A k \in DOMAIN runs \ DOMAIN w.runs : runs'[k] = runs[k]
        /\ \A k \in DOMAIN w.runs \ DOMAIN runs : runs'[k] = w.runs[k]
        /\ \A k \in DOMAIN runs \cap DOMAIN w.runs : runs'[k] = Overwritten(runs[k], w.runs[k])
    BY <1>2 DEF Apply
  <2>2. \A r \in DOMAIN runs' : RunRow(runs'[r])
    BY <1>1, <2>1, OverwrittenRow DEF WritesOK, RunWritesOK, TablesOK
  <2> QED BY <1>1, <2>1, <2>2 DEF WritesOK, RunWritesOK, TablesOK
<1>6. DOMAIN items' = DOMAIN items \cup DOMAIN w.items
      /\ DOMAIN items' \subseteq (DOMAIN runs') \X Asgs
      /\ \A i \in DOMAIN items' :
           /\ ItemRow(items'[i])
           /\ items'[i].paid =>
                \/ i \in DOMAIN items /\ items[i].paid
                \/ i \in DOMAIN w.items /\ "paid" \in DOMAIN w.items[i] /\ w.items[i].paid
  <2>1. /\ DOMAIN items' = DOMAIN items \cup DOMAIN w.items
        /\ \A k \in DOMAIN items \ DOMAIN w.items : items'[k] = items[k]
        /\ \A k \in DOMAIN w.items \ DOMAIN items : items'[k] = w.items[k]
        /\ \A k \in DOMAIN items \cap DOMAIN w.items : items'[k] = Overwritten(items[k], w.items[k])
    BY <1>2 DEF Apply
  <2>2. ASSUME NEW i \in DOMAIN items'
        PROVE  /\ ItemRow(items'[i])
               /\ items'[i].paid =>
                    \/ i \in DOMAIN items /\ items[i].paid
                    \/ i \in DOMAIN w.items /\ "paid" \in DOMAIN w.items[i] /\ w.items[i].paid
    <3>1. i \in DOMAIN items => ItemRow(items[i])
      BY <1>1 DEF TablesOK
    <3>2. i \in DOMAIN w.items => ItemColumns(w.items[i]) /\ (i \in DOMAIN items \/ ItemRow(w.items[i]))
      BY <1>1 DEF WritesOK, ItemWritesOK
    <3>3. CASE i \in DOMAIN items \ DOMAIN w.items
      BY <2>1, <3>1, <3>3
    <3>4. CASE i \in DOMAIN w.items \ DOMAIN items
      BY <2>1, <3>2, <3>4 DEF ItemRow
    <3>5. CASE i \in DOMAIN items \cap DOMAIN w.items
      BY <2>1, <3>1, <3>2, <3>5, OverwrittenRow
    <3> QED BY <2>1, <3>3, <3>4, <3>5
  <2>3. DOMAIN items' \subseteq (DOMAIN runs') \X Asgs
    BY <1>1, <1>5, <2>1 DEF WritesOK, ItemWritesOK, TablesOK
  <2> QED BY <2>1, <2>2, <2>3
<1>7. DOMAIN payouts' = DOMAIN payouts \cup DOMAIN w.payouts
      /\ (\A p \in DOMAIN payouts : PayoutRow(payouts'[p]) /\ payouts'[p].item = payouts[p].item)
      /\ (\A p \in DOMAIN w.payouts \ DOMAIN payouts : payouts'[p] = w.payouts[p])
  <2>1. /\ DOMAIN payouts' = DOMAIN payouts \cup DOMAIN w.payouts
        /\ \A k \in DOMAIN payouts \ DOMAIN w.payouts : payouts'[k] = payouts[k]
        /\ \A k \in DOMAIN w.payouts \ DOMAIN payouts : payouts'[k] = w.payouts[k]
        /\ \A k \in DOMAIN payouts \cap DOMAIN w.payouts : payouts'[k] = Overwritten(payouts[k], w.payouts[k])
    BY <1>2 DEF Apply
  <2>2. ASSUME NEW p \in DOMAIN payouts
        PROVE  PayoutRow(payouts'[p]) /\ payouts'[p].item = payouts[p].item
    <3>1. PayoutRow(payouts[p])
      BY <1>1 DEF TablesOK
    <3>2. p \in DOMAIN w.payouts => PayoutColumns(w.payouts[p]) /\ "item" \notin DOMAIN w.payouts[p]
      BY <1>1 DEF WritesOK, PayoutWritesOK
    <3> QED BY <2>1, <3>1, <3>2, OverwrittenRow
  <2> QED BY <2>1, <2>2
<1>8. DOMAIN payouts' \subseteq Payouts
      /\ \A p \in DOMAIN payouts' : PayoutRow(payouts'[p]) /\ payouts'[p].item \in DOMAIN items'
  BY <1>1, <1>6, <1>7 DEF WritesOK, PayoutWritesOK, TablesOK
<1>9. deducted' \in [DOMAIN items' -> Nat]
  <2>1. \A i : Deducted(i) \in Nat
    BY <1>1 DEF TablesOK, Deducted
  <2>2. \A i \in DOMAIN w.deducted : w.deducted[i] \in Nat
    BY <1>1 DEF WritesOK
  <2> QED BY <1>2, <2>1, <2>2
<1>10. TablesOK'
  BY <1>4, <1>5, <1>6, <1>8, <1>9 DEF TablesOK
<1>11. ASSUME NEW i \in DOMAIN items', items'[i].paid
       PROVE  \E p \in DOMAIN payouts' : payouts'[p].item = i
  <2>1. \/ i \in DOMAIN items /\ items[i].paid
        \/ i \in DOMAIN w.items /\ "paid" \in DOMAIN w.items[i] /\ w.items[i].paid
    BY <1>6, <1>11
  <2>2. Settled(w, i)
    BY <1>1, <2>1 DEF WritesOK, ItemWritesOK, Settled, IInv, PaidItemHasPayout, PayoutsOf
  <2> QED BY <1>7, <2>2 DEF Settled
<1>12. PaidItemHasPayout'
  BY <1>11 DEF PaidItemHasPayout, PayoutsOf
<1> QED BY <1>3, <1>4, <1>5, <1>6, <1>7, <1>10, <1>12

(* The rows others insert stay theirs, and those they change stay there.   *)
LEMMA CommitStep ==
  ASSUME IInv, NEW s \in Callers, CommitUnit(s)
  PROVE  IInv'
<1>1. /\ DOMAIN unit' = Callers
      /\ DOMAIN unit'[s] = {"pc", "writes", "corrected"}
      /\ unit'[s].pc \in {"idle", "mark"} /\ unit'[s].writes = NoWrites
      /\ \A t \in Callers \ {s} : unit'[t] = unit[t]
  BY DEF IInv, SessOK, CommitUnit, Idle
<1>2. WritesOK(unit[s].writes)'
  BY <1>1 DEF NoWrites, WritesOK, AttWritesOK, RunWritesOK, ItemWritesOK, PayoutWritesOK
<1>3. ASSUME NEW t \in Callers \ {s} PROVE WritesOK(unit[t].writes)'
  <2>1. WritesOK(unit[t].writes) /\ unit'[t] = unit[t]
    BY <1>1 DEF IInv, SessOK
  <2>2. Fresh(t) \cap Fresh(s) = {}
    BY DEF IInv, FreshApart
  <2>3. AttWritesOK(unit[t].writes)'
    BY <2>1, CommitTables DEF WritesOK, AttWritesOK
  <2>4. RunWritesOK(unit[t].writes)'
    BY <2>1, CommitTables DEF WritesOK, RunWritesOK
  <2>5. ItemWritesOK(unit[t].writes)'
    <3>1. ASSUME NEW i, Settled(unit[t].writes, i)
          PROVE  Settled(unit[t].writes, i)'
      <4>1. CASE \E p \in DOMAIN payouts : payouts[p].item = i
        BY <4>1, CommitTables DEF Settled
      <4>2. CASE \E p \in Fresh(t) : unit[t].writes.payouts[p].item = i
        BY <2>1, <2>2, <4>2, CommitTables DEF Settled, Fresh
      <4> QED BY <3>1, <4>1, <4>2 DEF Settled, Fresh
    <3>2. ASSUME NEW i \in DOMAIN unit[t].writes.items
          PROVE  LET w == unit[t].writes
                 IN  /\ i \in (DOMAIN runs' \cup DOMAIN w.runs) \X Asgs
                     /\ ItemColumns(w.items[i])
                     /\ i \in DOMAIN items' \/ ItemRow(w.items[i])
                     /\ "paid" \in DOMAIN w.items[i] /\ w.items[i].paid => Settled(w, i)
      BY <2>1, CommitTables DEF WritesOK, ItemWritesOK
    <3> QED BY <2>1, <3>1, <3>2 DEF ItemWritesOK, Settled
  <2>6. PayoutWritesOK(unit[t].writes)'
    BY <2>1, <2>2, CommitTables DEF WritesOK, PayoutWritesOK, Fresh
  <2> QED BY <2>1, <2>3, <2>4, <2>5, <2>6 DEF WritesOK
<1>4. SessOK'
  BY <1>1, <1>2, <1>3 DEF IInv, SessOK
<1>5. FreshApart'
  <2>1. Fresh(s)' = {}
    BY <1>1 DEF Fresh, NoWrites
  <2>2. \A t \in Callers \ {s} : Fresh(t)' \subseteq Fresh(t)
    BY <1>1, CommitTables DEF Fresh
  <2> QED BY <2>1, <2>2 DEF IInv, FreshApart
<1> QED BY <1>4, <1>5, CommitTables DEF IInv

LEMMA AbortStep ==
  ASSUME IInv, NEW s \in Callers, DropUnit(s)
  PROVE  IInv'
<1> DEFINE w == NoWrites
<1>1. /\ DOMAIN unit' = Callers
      /\ DOMAIN unit'[s] = {"pc", "writes", "corrected"}
      /\ unit'[s].pc = "idle" /\ unit'[s].writes = w
      /\ \A t \in Callers \ {s} : unit'[t] = unit[t]
  BY DEF IInv, SessOK, DropUnit, Idle
<1>2. WritesOK(w) /\ w.payouts = <<>>
  BY NothingOK DEF NoWrites
<1> HIDE DEF w
<1> QED BY <1>1, <1>2, RequestStep DEF DropUnit

LEMMA NextIInv == IInv /\ [PayrollNext]_payrollVars => IInv'
<1> SUFFICES ASSUME IInv, [PayrollNext]_payrollVars PROVE IInv'
  OBVIOUS
<1>1. CASE PayrollNext
  BY <1>1, AttendStep, ReviewStep, CorrectStep, MarkStaleStep, CreateRunStep, GenerateStep,
     SetRunStatusStep, MarkRunPaidStep, AddDeductionStep, RecalculateStep, CreatePayoutStep,
     SetPayoutStatusStep, RecordWorkerPaymentStep, CommitStep, AbortStep
  DEF PayrollNext
<1>2. CASE UNCHANGED payrollVars
  <2>1. TablesOK' /\ PaidItemHasPayout' /\ FreshApart'
    BY <1>2 DEF payrollVars, IInv, TablesOK, PaidItemHasPayout, PayoutsOf, FreshApart, Fresh
  <2>2. SessOK'
    BY <1>2
    DEF payrollVars, IInv, SessOK, WritesOK, AttWritesOK, RunWritesOK, ItemWritesOK, PayoutWritesOK, Settled
  <2> QED BY <2>1, <2>2 DEF IInv
<1> QED BY <1>1, <1>2

LEMMA Invariance == PayrollSpec => []IInv
<1> QED BY InitIInv, NextIInv, PTL DEF PayrollSpec

-----------------------------------------------------------------------------
(* Type correctness of the attendance, payroll and payout tables under any *)
(* overlap of requests: no net amount is below zero.                       *)
THEOREM TypeCorrect == PayrollSpec => []PayrollTypeOK
<1>1. IInv => PayrollTypeOK
  BY DEF IInv, TablesOK, SessOK, PayrollTypeOK, AttRow, AttColumns, RunRow, RunColumns, ItemRow, ItemColumns
<1> QED BY <1>1, Invariance, PTL

(* A worker shown as paid has a payout to show for it, whatever requests   *)
(* overlap and however an item came to be paid.                            *)
THEOREM PaidWorkersHavePayouts == PayrollSpec => []PaidItemHasPayout
<1>1. IInv => PaidItemHasPayout
  BY DEF IInv
<1> QED BY <1>1, Invariance, PTL

-----------------------------------------------------------------------------
(* What units of work write.  The row an item becomes by w, and what is    *)
(* deducted from it by then.                                               *)
Columns == {"basis", "gross", "deductions", "net", "stale", "paid"}

Added(w, i) == IF i \in DOMAIN w.deducted THEN w.deducted[i] ELSE 0

RowAfter(w, i) == IF i \in DOMAIN items THEN Overwritten(items[i], w.items[i]) ELSE w.items[i]

RunAfter(w, r) == IF r \in DOMAIN runs THEN runs[r] ELSE w.runs[r]

Balances(w, i) ==
  LET row   == RowAfter(w, i)
      total == Deducted(i) + Added(w, i)
  IN  row.deductions = total /\ row.net = NetAmount(row.gross, total)

(* The basis of the item is what its attendance records say, on days of    *)
(* its run.                                                                *)
Tallies(w, i) ==
  LET row == RowAfter(w, i)
      run == RunAfter(w, i[1])
  IN  \A d \in DOMAIN row.basis :
        /\ d \in run.from..run.to
        /\ <<i[2], d>> \in DOMAIN att /\ row.basis[d] = att[<<i[2], d>>].status

(* A run of a requirement's own payments covers every day.                 *)
Whole(run) == run.auto => run.from = 1 /\ run.to = LastDay

RunsWhole == \A r \in DOMAIN runs : Whole(runs[r])

(* Records that are there keep their status.                               *)
KeepsStatuses(w) ==
  \A k \in DOMAIN w.att : DOMAIN w.att[k] = {"status", "approval"} \/ "status" \notin DOMAIN w.att[k]

RunsFit(w) ==
  \A r \in DOMAIN w.runs :
    \/ r \in DOMAIN runs /\ DOMAIN w.runs[r] \subseteq {"status"}
    \/ r \notin DOMAIN runs /\ Whole(w.runs[r])

Pays(x) == DOMAIN x \subseteq {"paid"} /\ ("paid" \in DOMAIN x => x.paid = TRUE)

(* What endpoint e writes to item i.                                       *)
ItemFits(w, i, e) ==
  \/ e \in {"payout", "paid"} /\ i \in DOMAIN items /\ Pays(w.items[i])
  \/ /\ e = "deduct" /\ i \in DOMAIN items
     /\ DOMAIN w.items[i] \subseteq {"deductions", "net"} /\ Balances(w, i)
  \/ /\ e = "recalculate" /\ i \in DOMAIN items /\ ~items[i].paid
     /\ "paid" \notin DOMAIN w.items[i] /\ Balances(w, i) /\ Tallies(w, i)
  \/ /\ e \in {"generate", "record"} /\ i \notin DOMAIN items
     /\ DOMAIN w.items[i] = Columns /\ Balances(w, i) /\ Tallies(w, i)

Fits(w, e) ==
  /\ e # "correct" /\ KeepsStatuses(w)
  /\ RunsFit(w) /\ DOMAIN w.runs \ DOMAIN runs \subseteq NewRuns
  /\ \A i \in DOMAIN w.items : ItemFits(w, i, e)
  /\ \A i \in DOMAIN w.deducted : e = "deduct" /\ i \in DOMAIN w.items

PlansFit(s) == \E w, e : Propose(s, w) /\ Serve(s, e) /\ Fits(w, e)

LEMMA ChangedRow ==
  ASSUME NEW old, NEW new, DOMAIN new = DOMAIN old
  PROVE  /\ DOMAIN Overwritten(old, Changes(old, new)) = DOMAIN old
         /\ \A c \in DOMAIN old : Overwritten(old, Changes(old, new))[c] = new[c]
BY DEF Overwritten, Changes

LEMMA StatusChange ==
  ASSUME NEW old, NEW v
  PROVE  DOMAIN Changes(old, [old EXCEPT !.status = v]) \subseteq {"status"}
BY DEF Changes

LEMMA ItemFacts ==
  ASSUME IInv
  PROVE  /\ DOMAIN deducted = DOMAIN items /\ \A i : Deducted(i) \in Nat
         /\ \A i \in DOMAIN items :
              /\ DOMAIN items[i] = Columns /\ Deducted(i) = deducted[i]
              /\ items[i].gross \in Nat /\ items[i].stale \in BOOLEAN /\ items[i].paid \in BOOLEAN
              /\ i[1] \in DOMAIN runs /\ i[2] \in Asgs
         /\ \A i : i \notin DOMAIN items => Deducted(i) = 0
BY DEF IInv, TablesOK, ItemRow, ItemColumns, Columns, Deducted

LEMMA NetUndeducted ==
  ASSUME NEW gross \in Nat
  PROVE  NetAmount(gross, 0) = gross
BY DEF NetAmount

(* Requests that leave the items alone.                                    *)
LEMMA QuietFits ==
  ASSUME NEW s \in Callers, NEW w, NEW e, e # "correct", Propose(s, w), Serve(s, e),
         KeepsStatuses(w), RunsFit(w), DOMAIN w.runs \ DOMAIN runs \subseteq NewRuns,
         w.items = <<>>, w.deducted = <<>>
  PROVE  PlansFit(s)
BY DEF PlansFit, Fits

LEMMA AttendanceFits ==
  ASSUME NEW s \in Callers,
         \/ \E a \in Asgs, d \in Days : CheckIn(s, a, d) \/ HalfDay(s, a, d)
         \/ \E k \in DOMAIN att : Approve(s, k) \/ Reject(s, k)
  PROVE  PlansFit(s)
<1>1. ASSUME NEW k, NEW x, NEW e, e # "correct", Serve(s, e), Propose(s, [NoWrites EXCEPT !.att = At(k, x)]),
             DOMAIN x = {"status", "approval"} \/ "status" \notin DOMAIN x
      PROVE  PlansFit(s)
  <2> DEFINE f == At(k, x)
             w == [NoWrites EXCEPT !.att = f]
  <2>1. KeepsStatuses([NoWrites EXCEPT !.att = f])
    BY <1>1 DEF KeepsStatuses, At, NoWrites
  <2> HIDE DEF f
  <2>2. w.runs = <<>> /\ w.items = <<>> /\ w.deducted = <<>>
    BY DEF NoWrites
  <2>3. Propose(s, w)
    BY <1>1 DEF f
  <2> HIDE DEF w
  <2>4. KeepsStatuses(w)
    BY <2>1 DEF w
  <2> QED BY <1>1, <2>2, <2>3, <2>4, QuietFits DEF RunsFit
<1>2. ASSUME NEW a \in Asgs, NEW d \in Days, CheckIn(s, a, d) \/ HalfDay(s, a, d) PROVE PlansFit(s)
  <2>1. PICK v : Attend(s, a, d, v)
    BY <1>2 DEF CheckIn, HalfDay
  <2> DEFINE x == [status |-> v, approval |-> "pending"]
  <2>2. Serve(s, "attend") /\ Propose(s, [NoWrites EXCEPT !.att = At(<<a, d>>, x)])
    BY <2>1 DEF Attend
  <2>3. DOMAIN x = {"status", "approval"}
    OBVIOUS
  <2> HIDE DEF x
  <2> QED BY <1>1, <2>2, <2>3
<1>3. ASSUME NEW k \in DOMAIN att, Approve(s, k) \/ Reject(s, k) PROVE PlansFit(s)
  <2>1. PICK v : Review(s, k, v)
    BY <1>3 DEF Approve, Reject
  <2> DEFINE x == [approval |-> v]
  <2>2. Serve(s, "review") /\ Propose(s, [NoWrites EXCEPT !.att = At(k, x)])
    BY <2>1 DEF Review
  <2>3. "status" \notin DOMAIN x
    OBVIOUS
  <2> HIDE DEF x
  <2> QED BY <1>1, <2>2, <2>3
<1> QED BY <1>2, <1>3

LEMMA RunFits ==
  ASSUME NEW s \in Callers, NEW r, NEW x, NEW e, e # "correct", Serve(s, e),
         Propose(s, [NoWrites EXCEPT !.runs = At(r, x)]),
         \/ r \in DOMAIN runs /\ DOMAIN x \subseteq {"status"}
         \/ r \in NewRuns /\ Whole(x)
  PROVE  PlansFit(s)
<1> DEFINE f == At(r, x)
           w == [NoWrites EXCEPT !.runs = f]
<1>1. Propose(s, w) /\ DOMAIN f = {r} /\ f[r] = x
  BY DEF At
<1> HIDE DEF f
<1>2. w.runs = f /\ w.att = <<>> /\ w.items = <<>> /\ w.deducted = <<>>
  BY DEF NoWrites
<1> HIDE DEF w
<1>3. RunsFit(w) /\ DOMAIN w.runs \ DOMAIN runs \subseteq NewRuns
  BY <1>1, <1>2 DEF RunsFit, NewRuns
<1>4. KeepsStatuses(w)
  BY <1>2 DEF KeepsStatuses
<1> QED BY <1>1, <1>2, <1>3, <1>4, QuietFits

LEMMA RunStepFits ==
  ASSUME NEW s \in Callers,
         \/ \E r \in NewRuns, period \in Periods, strict \in BOOLEAN : CreateRun(s, r, period, strict)
         \/ \E r \in DOMAIN runs, status \in RunStatuses : SetRunStatus(s, r, status)
  PROVE  PlansFit(s)
<1>1. ASSUME NEW r \in NewRuns, NEW period \in Periods, NEW strict \in BOOLEAN, CreateRun(s, r, period, strict)
      PROVE  PlansFit(s)
  <2> DEFINE x == [status |-> "draft", strict |-> strict, from |-> period[1], to |-> period[2], auto |-> FALSE]
  <2>1. Serve(s, "run") /\ Propose(s, [NoWrites EXCEPT !.runs = At(r, x)]) /\ Whole(x)
    BY <1>1 DEF CreateRun, Whole
  <2> HIDE DEF x
  <2> QED BY <2>1, RunFits
<1>2. ASSUME NEW r \in DOMAIN runs, NEW status \in RunStatuses, SetRunStatus(s, r, status)
      PROVE  PlansFit(s)
  <2> DEFINE x == Changes(runs[r], [runs[r] EXCEPT !.status = status])
  <2>1. Serve(s, "status") /\ Propose(s, [NoWrites EXCEPT !.runs = At(r, x)])
    BY <1>2 DEF SetRunStatus
  <2>2. DOMAIN x \subseteq {"status"}
    BY StatusChange
  <2> HIDE DEF x
  <2> QED BY <2>1, <2>2, RunFits
<1> QED BY <1>1, <1>2

LEMMA CreatePayoutFits ==
  ASSUME NEW s \in Callers, NEW p, NEW i, NEW amount, CreatePayout(s, p, i, amount)
  PROVE  PlansFit(s)
<1> DEFINE f == At(p, [item |-> i, amount |-> amount, status |-> "pending"])
           w == [NoWrites EXCEPT !.payouts = f]
<1>1. Propose(s, w) /\ Serve(s, "payout")
  BY DEF CreatePayout
<1> HIDE DEF f
<1>2. w.runs = <<>> /\ w.att = <<>> /\ w.items = <<>> /\ w.deducted = <<>>
  BY DEF NoWrites
<1> HIDE DEF w
<1>3. RunsFit(w) /\ KeepsStatuses(w) /\ DOMAIN w.runs = {}
  BY <1>2 DEF RunsFit, KeepsStatuses
<1> QED BY <1>1, <1>2, <1>3, QuietFits

(* Requests that write items.                                              *)
LEMMA SetPayoutFits ==
  ASSUME IInv, NEW s \in Callers, NEW p \in DOMAIN payouts, NEW status, SetPayoutStatus(s, p, status)
  PROVE  PlansFit(s)
<1> DEFINE i == payouts[p].item
           c == Changes(items[i], [items[i] EXCEPT !.paid = TRUE])
           f == At(p, Changes(payouts[p], [payouts[p] EXCEPT !.status = status]))
           g == IF status = "paid" THEN At(i, c) ELSE <<>>
           w == [NoWrites EXCEPT !.payouts = f, !.items = g]
<1>1. Propose(s, w) /\ Serve(s, "payout")
  BY DEF SetPayoutStatus
<1>2. i \in DOMAIN items
  BY DEF IInv, TablesOK
<1>3. Pays(c)
  BY DEF Pays, Changes
<1> HIDE DEF c
<1>4. \A j \in DOMAIN g : j = i /\ g[j] = c
  BY DEF At
<1> HIDE DEF f, g
<1>5. w.items = g /\ w.att = <<>> /\ w.runs = <<>> /\ w.deducted = <<>>
  BY DEF NoWrites
<1> HIDE DEF w
<1>6. Fits(w, "payout")
  BY <1>2, <1>3, <1>4, <1>5 DEF Fits, KeepsStatuses, RunsFit, ItemFits
<1> QED BY <1>1, <1>6 DEF PlansFit

LEMMA MarkRunPaidFits ==
  ASSUME NEW s \in Callers, NEW r \in DOMAIN runs, MarkRunPaid(s, r)
  PROVE  PlansFit(s)
<1> DEFINE due == {j \in ItemsOf(r) : ~items[j].paid}
           f == At(r, [status |-> "paid"])
           g == [i \in due |-> [paid |-> TRUE]]
<1>1. PICK h : Propose(s, [NoWrites EXCEPT !.runs = f, !.items = g, !.payouts = h]) /\ Serve(s, "paid")
  BY DEF MarkRunPaid
<1> DEFINE w == [NoWrites EXCEPT !.runs = f, !.items = g, !.payouts = h]
<1>2. Propose(s, w)
  BY <1>1
<1>3. due \subseteq DOMAIN items /\ DOMAIN g = due /\ \A i \in due : Pays(g[i])
  BY DEF ItemsOf, Pays
<1>4. DOMAIN f = {r} /\ DOMAIN f[r] = {"status"}
  BY DEF At
<1> HIDE DEF f, g, due
<1>5. w.items = g /\ w.att = <<>> /\ w.runs = f /\ w.deducted = <<>>
  BY DEF NoWrites
<1> HIDE DEF w
<1>6. Fits(w, "paid")
  BY <1>3, <1>4, <1>5 DEF Fits, KeepsStatuses, RunsFit, ItemFits
<1> QED BY <1>1, <1>2, <1>6 DEF PlansFit

LEMMA DeductFits ==
  ASSUME IInv, NEW s \in Callers, NEW i \in DOMAIN items, NEW amount, AddDeduction(s, i, amount)
  PROVE  PlansFit(s)
<1> DEFINE row == Recalculated(i, amount)
           c == Changes(items[i], row)
           f == At(i, c)
           d == At(i, amount)
           w == [NoWrites EXCEPT !.items = f, !.deducted = d]
<1>1. Propose(s, w) /\ Serve(s, "deduct")
  BY DEF AddDeduction
<1>2. DOMAIN row = Columns /\ DOMAIN items[i] = Columns /\ Deducted(i) = deducted[i]
  BY ItemFacts DEF Recalculated
<1>3. /\ row.deductions = deducted[i] + amount /\ row.gross = items[i].gross
      /\ row.net = NetAmount(row.gross, deducted[i] + amount)
      /\ row.basis = items[i].basis /\ row.stale = items[i].stale /\ row.paid = items[i].paid
  BY ItemFacts DEF Recalculated, Columns
<1> HIDE DEF row
<1>4. DOMAIN c \subseteq {"deductions", "net"}
  BY <1>2, <1>3 DEF Changes, Columns
<1>5. LET x == Overwritten(items[i], c) IN x.deductions = row.deductions /\ x.gross = row.gross /\ x.net = row.net
  BY <1>2, ChangedRow DEF Columns
<1>6. DOMAIN f = {i} /\ f[i] = c /\ DOMAIN d = {i} /\ d[i] = amount
  BY DEF At
<1> HIDE DEF c, f, d
<1>7. w.items = f /\ w.att = <<>> /\ w.runs = <<>> /\ w.deducted = d
  BY DEF NoWrites
<1> HIDE DEF w
<1>8. Balances(w, i)
  BY <1>2, <1>3, <1>5, <1>6, <1>7 DEF Balances, RowAfter, Added
<1>9. Fits(w, "deduct")
  BY <1>4, <1>6, <1>7, <1>8 DEF Fits, KeepsStatuses, RunsFit, ItemFits
<1> QED BY <1>1, <1>9 DEF PlansFit

LEMMA RecalculateFits ==
  ASSUME IInv, NEW s \in Callers, NEW i \in DOMAIN items, RecalculateItem(s, i)
  PROVE  PlansFit(s)
<1> DEFINE basis == Records(i[2], DaysOf(i[1]))
           gross == GrossAmount(i[2], basis, runs[i[1]].strict)
           net   == NetAmount(gross, deducted[i])
           row   == [items[i] EXCEPT !.basis = basis, !.gross = gross, !.deductions = deducted[i],
                                     !.net = net, !.stale = FALSE]
           c == Changes(items[i], row)
           f == At(i, c)
           w == [NoWrites EXCEPT !.items = f]
<1>1. Propose(s, w) /\ Serve(s, "recalculate") /\ ~items[i].paid
  BY DEF RecalculateItem, MayRecalculate
<1>2. DOMAIN row = Columns /\ DOMAIN items[i] = Columns
      /\ Deducted(i) = deducted[i] /\ deducted[i] \in Nat /\ i[1] \in DOMAIN runs
  BY ItemFacts
<1>3. \A d \in DOMAIN basis :
        d \in runs[i[1]].from..runs[i[1]].to /\ <<i[2], d>> \in DOMAIN att /\ basis[d] = att[<<i[2], d>>].status
  BY DEF Records, DaysOf
<1> HIDE DEF basis, gross, net
<1>4. row.basis = basis /\ row.gross = gross /\ row.deductions = deducted[i] /\ row.net = net
      /\ row.paid = items[i].paid
  BY <1>2 DEF Columns
<1> HIDE DEF row
<1>5. "paid" \notin DOMAIN c
  BY <1>4 DEF Changes
<1>6. LET x == Overwritten(items[i], c)
      IN  x.basis = basis /\ x.deductions = deducted[i] /\ x.gross = gross /\ x.net = net
  BY <1>2, <1>4, ChangedRow DEF Columns
<1>7. DOMAIN f = {i} /\ f[i] = c
  BY DEF At
<1> HIDE DEF c, f
<1>8. w.items = f /\ w.att = <<>> /\ w.runs = <<>> /\ w.deducted = <<>>
  BY DEF NoWrites
<1> HIDE DEF w
<1>9. Balances(w, i)
  BY <1>2, <1>6, <1>7, <1>8 DEF Balances, RowAfter, Added, net
<1>10. Tallies(w, i)
  BY <1>2, <1>3, <1>6, <1>7, <1>8 DEF Tallies, RowAfter, RunAfter
<1>11. Fits(w, "recalculate")
  BY <1>1, <1>5, <1>7, <1>8, <1>9, <1>10 DEF Fits, KeepsStatuses, RunsFit, ItemFits
<1> QED BY <1>1, <1>11 DEF PlansFit

(* An item inserted from its records.                                      *)
LEMMA InsertFits ==
  ASSUME IInv, NEW w, w.deducted = <<>>, NEW i, i \notin DOMAIN items, NEW days, NEW gross \in Nat,
         DOMAIN w.items[i] = Columns, w.items[i].basis = Records(i[2], days),
         w.items[i].gross = gross, w.items[i].deductions = 0, w.items[i].net = gross,
         days \subseteq RunAfter(w, i[1]).from..RunAfter(w, i[1]).to
  PROVE  DOMAIN w.items[i] = Columns /\ Balances(w, i) /\ Tallies(w, i)
<1> DEFINE basis == Records(i[2], days)
           row   == w.items[i]
<1>1. /\ DOMAIN row = Columns /\ row.basis = basis /\ row.gross = gross
      /\ row.deductions = 0 /\ row.net = gross
  OBVIOUS
<1>2. \A d \in DOMAIN basis : d \in days /\ <<i[2], d>> \in DOMAIN att /\ basis[d] = att[<<i[2], d>>].status
  BY DEF Records
<1> HIDE DEF basis
<1>3. RowAfter(w, i) = row /\ Deducted(i) + Added(w, i) = 0
  BY ItemFacts DEF RowAfter, Added
<1> HIDE DEF row
<1>4. Balances(w, i)
  BY <1>1, <1>3, NetUndeducted DEF Balances
<1>5. Tallies(w, i)
  BY <1>1, <1>2, <1>3 DEF Tallies
<1> QED BY <1>1, <1>4, <1>5 DEF row

LEMMA NewItemIs ==
  ASSUME NEW a, NEW basis, NEW gross
  PROVE  LET new  == BuildItem(a, basis, gross)
             paid == [BuildItem(a, basis, gross) EXCEPT !.paid = TRUE]
         IN  /\ DOMAIN new = Columns /\ new.basis = basis /\ new.gross = gross
             /\ new.deductions = 0 /\ new.net = gross
             /\ DOMAIN paid = Columns /\ paid.basis = basis /\ paid.gross = gross
             /\ paid.deductions = 0 /\ paid.net = gross
BY DEF BuildItem, Columns

LEMMA GenerateFits ==
  ASSUME IInv, NEW s \in Callers, NEW r \in DOMAIN runs, Generate(s, r)
  PROVE  PlansFit(s)
<1> DEFINE x == Changes(runs[r], [runs[r] EXCEPT !.status = "generated"])
           f == At(r, x)
           gross(k) == GrossAmount(k[2], Records(k[2], DaysOf(r)), runs[r].strict)
           g == [k \in {r} \X Asgs |-> BuildItem(k[2], Records(k[2], DaysOf(r)), gross(k))]
           w == [NoWrites EXCEPT !.runs = f, !.items = g]
<1>1. Propose(s, w) /\ Serve(s, "generate") /\ ItemsOf(r) = {}
  BY DEF Generate
<1>2. DOMAIN f = {r} /\ DOMAIN f[r] \subseteq {"status"}
  BY StatusChange DEF At
<1>3. DOMAIN g = {r} \X Asgs
      /\ \A i \in DOMAIN g : g[i] = BuildItem(i[2], Records(i[2], DaysOf(r)), gross(i))
  OBVIOUS
<1>4. \A i \in {r} \X Asgs : i[1] = r /\ i \notin DOMAIN items /\ gross(i) \in Nat
  BY <1>1, RecordsFinite, GrossIsNat DEF ItemsOf, IInv
<1> HIDE DEF x, f, g, gross
<1>5. w.items = g /\ w.att = <<>> /\ w.runs = f /\ w.deducted = <<>>
  BY DEF NoWrites
<1> HIDE DEF w
<1>6. ASSUME NEW i \in DOMAIN w.items
      PROVE  i \notin DOMAIN items /\ DOMAIN w.items[i] = Columns /\ Balances(w, i) /\ Tallies(w, i)
  <2>1. i \in {r} \X Asgs /\ i[1] = r /\ i \notin DOMAIN items /\ gross(i) \in Nat
    BY <1>3, <1>4, <1>5, <1>6
  <2>2. w.items[i] = BuildItem(i[2], Records(i[2], DaysOf(r)), gross(i))
    BY <1>3, <1>5, <2>1
  <2>3. PICK n \in Nat : /\ DOMAIN w.items[i] = Columns /\ w.items[i].basis = Records(i[2], DaysOf(r))
                          /\ w.items[i].gross = n /\ w.items[i].deductions = 0 /\ w.items[i].net = n
    BY <2>1, <2>2, NewItemIs
  <2>4. DaysOf(r) \subseteq RunAfter(w, i[1]).from..RunAfter(w, i[1]).to
    BY <2>1 DEF DaysOf, RunAfter
  <2>5. DOMAIN w.items[i] = Columns /\ Balances(w, i) /\ Tallies(w, i)
    BY <1>5, <2>1, <2>3, <2>4, InsertFits
  <2> QED BY <2>1, <2>5
<1>7. Fits(w, "generate")
  BY <1>2, <1>5, <1>6 DEF Fits, KeepsStatuses, RunsFit, ItemFits
<1> QED BY <1>1, <1>7 DEF PlansFit

LEMMA RecordFits ==
  ASSUME IInv, RunsWhole, NEW s \in Callers, NEW a \in Asgs, NEW r \in Runs, NEW p \in NewPayouts,
         NEW amount \in Amounts, RecordWorkerPayment(s, a, r, p, amount)
  PROVE  PlansFit(s)
<1> DEFINE own == {x \in DOMAIN runs : runs[x].auto}
           run == [status |-> "generated", strict |-> FALSE, from |-> 1, to |-> LastDay, auto |-> TRUE]
           f == [x \in {r} \ own |-> run]
           i == <<r, a>>
           item == [BuildItem(a, Records(a, Days), amount) EXCEPT !.paid = TRUE]
           g == At(i, item)
           h == At(p, [item |-> i, amount |-> amount, status |-> "completed"])
           w == [NoWrites EXCEPT !.runs = f, !.items = g, !.payouts = h]
<1>1. Propose(s, w) /\ Serve(s, "record") /\ i \notin DOMAIN items
  BY DEF RecordWorkerPayment
<1>2. r \in own \/ r \in NewRuns
  BY DEF RecordWorkerPayment
<1>3. DOMAIN f = {r} \ own /\ \A x \in DOMAIN f : f[x] = run
  OBVIOUS
<1>4. run.from = 1 /\ run.to = LastDay
  OBVIOUS
<1>5. DOMAIN g = {i} /\ g[i] = item
  BY DEF At
<1> HIDE DEF f, g, h, run
<1>6. w.items = g /\ w.att = <<>> /\ w.runs = f /\ w.deducted = <<>>
  BY DEF NoWrites
<1> HIDE DEF w
<1>7. RunAfter(w, r).from = 1 /\ RunAfter(w, r).to = LastDay
  <2>1. CASE r \in own
    BY <2>1 DEF RunsWhole, Whole, RunAfter
  <2>2. CASE r \in NewRuns
    <3>1. r \notin DOMAIN runs /\ r \in {r} \ own
      BY <2>2 DEF NewRuns
    <3> QED BY <1>3, <1>4, <1>6, <3>1 DEF RunAfter
  <2> QED BY <1>2, <2>1, <2>2
<1>8. i[1] = r /\ i[2] = a /\ amount \in Nat
  OBVIOUS
<1>9. /\ DOMAIN w.items[i] = Columns /\ w.items[i].basis = Records(i[2], Days)
      /\ w.items[i].gross = amount /\ w.items[i].deductions = 0 /\ w.items[i].net = amount
  <2>1. /\ DOMAIN item = Columns /\ item.basis = Records(a, Days)
        /\ item.gross = amount /\ item.deductions = 0 /\ item.net = amount
    BY NewItemIs
  <2> HIDE DEF i, item
  <2> QED BY <1>5, <1>6, <1>8, <2>1
<1> HIDE DEF i, item
<1>10. DOMAIN w.items[i] = Columns /\ Balances(w, i) /\ Tallies(w, i)
  <2>1. Days \subseteq RunAfter(w, i[1]).from..RunAfter(w, i[1]).to
    BY <1>7, <1>8 DEF Days
  <2> QED BY <1>1, <1>6, <1>8, <1>9, <2>1, InsertFits
<1>11. RunsFit(w) /\ DOMAIN w.runs \ DOMAIN runs \subseteq NewRuns
  BY <1>2, <1>3, <1>4, <1>6 DEF RunsFit, Whole, NewRuns
<1>12. Fits(w, "record")
  BY <1>1, <1>5, <1>6, <1>10, <1>11 DEF Fits, KeepsStatuses, ItemFits
<1> QED BY <1>1, <1>12 DEF PlansFit

LEMMA NextFits ==
  ASSUME IInv, RunsWhole, PayrollNext
  PROVE  \E s \in Callers :
           \/ PlansFit(s)
           \/ \E k \in DOMAIN att, status \in Corrections : Correct(s, k, status)
           \/ MarkStale(s) \/ CommitUnit(s) \/ DropUnit(s)
BY AttendanceFits, RunStepFits, CreatePayoutFits, SetPayoutFits, MarkRunPaidFits, DeductFits,
   RecalculateFits, GenerateFits, RecordFits DEF PayrollNext

(* The two transactions of a correction.                                   *)
Marks(x) == DOMAIN x \subseteq {"stale"} /\ ("stale" \in DOMAIN x => x.stale = TRUE)

LEMMA CorrectIs ==
  ASSUME IInv, NEW s \in Callers, NEW k \in DOMAIN att, NEW status, Correct(s, k, status)
  PROVE  \E w : /\ UNCHANGED <<att, runs, items, deducted, payouts>>
                /\ unit'[s] = [pc |-> "commit", corrected |-> k, writes |-> w]
                /\ \A t \in Callers \ {s} : unit'[t] = unit[t]
                /\ DOMAIN w.att = {k} /\ w.runs = <<>> /\ w.items = <<>> /\ w.deducted = <<>>
<1> DEFINE f == At(k, Changes(att[k], [att[k] EXCEPT !.status = status]))
           w == [NoWrites EXCEPT !.att = f]
<1>1. unit' = [unit EXCEPT ![s] = [pc |-> "commit", corrected |-> k, writes |-> w]]
      /\ UNCHANGED <<att, runs, items, deducted, payouts>>
  BY DEF Correct
<1>2. DOMAIN f = {k}
  BY DEF At
<1> HIDE DEF f
<1>3. w.att = f /\ w.runs = <<>> /\ w.items = <<>> /\ w.deducted = <<>>
  BY DEF NoWrites
<1> HIDE DEF w
<1> QED BY <1>1, <1>2, <1>3 DEF IInv, SessOK

LEMMA MarkIs ==
  ASSUME IInv, NEW s \in Callers, MarkStale(s)
  PROVE  \E w : /\ UNCHANGED <<att, runs, items, deducted, payouts>>
                /\ unit[s].pc = "mark" /\ unit'[s].pc = "marked" /\ unit'[s].writes = w
                /\ unit'[s].corrected = unit[s].corrected
                /\ \A t \in Callers \ {s} : unit'[t] = unit[t]
                /\ w.att = <<>> /\ w.runs = <<>> /\ w.deducted = <<>>
                /\ DOMAIN w.items = Covering(unit[s].corrected[1], unit[s].corrected[2])
                /\ \A i \in DOMAIN w.items :
                     /\ i \in DOMAIN items /\ Marks(w.items[i])
                     /\ items[i].stale \/ "stale" \in DOMAIN w.items[i]
<1> DEFINE k == unit[s].corrected
           marked == ToMark(k[1], k[2])
           f == [i \in marked |-> Changes(items[i], [items[i] EXCEPT !.stale = TRUE])]
           w == [NoWrites EXCEPT !.items = f]
<1>1. /\ unit[s].pc = "mark" /\ UNCHANGED <<att, runs, items, deducted, payouts>>
      /\ unit' = [unit EXCEPT ![s].pc = "marked", ![s].writes = w]
  BY DEF MarkStale
<1>2. marked = Covering(k[1], k[2]) /\ marked \subseteq DOMAIN items
  BY DEF ToMark, Covering
<1>3. \A i \in marked : Marks(f[i]) /\ (items[i].stale \/ "stale" \in DOMAIN f[i])
  <2> SUFFICES ASSUME NEW i \in marked PROVE Marks(f[i]) /\ (items[i].stale \/ "stale" \in DOMAIN f[i])
    OBVIOUS
  <2> DEFINE new == [items[i] EXCEPT !.stale = TRUE]
             x   == Changes(items[i], new)
  <2>1. DOMAIN items[i] = Columns /\ f[i] = x
    BY <1>2, ItemFacts
  <2>2. Marks(x) /\ (items[i].stale = TRUE \/ "stale" \in DOMAIN x)
    BY <2>1 DEF Marks, Changes, Columns
  <2> HIDE DEF x, f
  <2> QED BY <2>1, <2>2
<1>4. DOMAIN f = marked
  OBVIOUS
<1> HIDE DEF f, marked
<1>5. w.items = f /\ w.att = <<>> /\ w.runs = <<>> /\ w.deducted = <<>>
  BY DEF NoWrites
<1> HIDE DEF w
<1>6. /\ unit'[s].pc = "marked" /\ unit'[s].writes = w /\ unit'[s].corrected = unit[s].corrected
      /\ \A t \in Callers \ {s} : unit'[t] = unit[t]
  BY <1>1 DEF IInv, SessOK
<1> QED BY <1>1, <1>2, <1>3, <1>4, <1>5, <1>6

(* What a commit leaves.                                                   *)
LEMMA CommitIs ==
  ASSUME IInv, NEW s \in Callers, CommitUnit(s), NEW w, w = unit[s].writes
  PROVE  /\ DOMAIN items' = DOMAIN items \cup DOMAIN w.items
         /\ \A i \in DOMAIN w.items : items'[i] = RowAfter(w, i)
         /\ \A i \in DOMAIN items \ DOMAIN w.items : items'[i] = items[i]
         /\ \A i \in DOMAIN items \cap DOMAIN w.items : DOMAIN w.items[i] # Columns
         /\ \A i \in DOMAIN items' : deducted'[i] = Deducted(i) + Added(w, i)
         /\ unit'[s].writes = NoWrites /\ unit'[s].pc \in {"idle", "mark"}
         /\ \A t \in Callers \ {s} : unit'[t] = unit[t]
<1>1. items' = Apply(items, w.items) /\ ~Collides(items, w.items)
  BY DEF CommitUnit
<1>2. /\ DOMAIN items' = DOMAIN items \cup DOMAIN w.items
      /\ \A i \in DOMAIN items \ DOMAIN w.items : items'[i] = items[i]
      /\ \A i \in DOMAIN w.items : items'[i] = RowAfter(w, i)
  BY <1>1 DEF Apply, RowAfter
<1>3. \A i \in DOMAIN items \cap DOMAIN w.items : DOMAIN w.items[i] # Columns
  BY <1>1, ItemFacts DEF Collides
<1>4. \A i \in DOMAIN items' : deducted'[i] = Deducted(i) + Added(w, i)
  BY DEF CommitUnit, Added
<1>5. /\ unit'[s].writes = NoWrites /\ unit'[s].pc \in {"idle", "mark"}
      /\ \A t \in Callers \ {s} : unit'[t] = unit[t]
  BY DEF IInv, SessOK, CommitUnit, Idle
<1> QED BY <1>2, <1>3, <1>4, <1>5

LEMMA CommitRuns ==
  ASSUME NEW s \in Callers, CommitUnit(s), NEW w, w = unit[s].writes
  PROVE  /\ DOMAIN runs' = DOMAIN runs \cup DOMAIN w.runs
         /\ \A r \in DOMAIN runs \ DOMAIN w.runs : runs'[r] = runs[r]
         /\ \A r \in DOMAIN w.runs \ DOMAIN runs : runs'[r] = w.runs[r]
         /\ \A r \in DOMAIN runs \cap DOMAIN w.runs : runs'[r] = Overwritten(runs[r], w.runs[r])
<1> DEFINE f == w.runs
<1>1. runs' = Apply(runs, f)
  BY DEF CommitUnit
<1> HIDE DEF f
<1>2. /\ DOMAIN runs' = DOMAIN runs \cup DOMAIN f
      /\ \A r \in DOMAIN runs \ DOMAIN f : runs'[r] = runs[r]
      /\ \A r \in DOMAIN f \ DOMAIN runs : runs'[r] = f[r]
      /\ \A r \in DOMAIN runs \cap DOMAIN f : runs'[r] = Overwritten(runs[r], f[r])
  BY <1>1 DEF Apply
<1> QED BY <1>2 DEF f

-----------------------------------------------------------------------------
(* The period of a run stays what it was created with.                     *)
NewRunsOf(s) == DOMAIN unit[s].writes.runs \ DOMAIN runs

PeriodInv ==
  /\ RunsWhole
  /\ \A s \in Callers : RunsFit(unit[s].writes)
  /\ \A s, t \in Callers : s # t => NewRunsOf(s) \cap NewRunsOf(t) = {}

LEMMA InitPeriod == PayrollInit => PeriodInv
<1> SUFFICES ASSUME PayrollInit PROVE PeriodInv
  OBVIOUS
<1>1. DOMAIN runs = {}
  BY DEF PayrollInit
<1>2. \A s \in Callers : unit[s].writes.runs = <<>>
  BY DEF PayrollInit, Idle, NoWrites
<1> QED BY <1>1, <1>2 DEF PeriodInv, RunsWhole, RunsFit, NewRunsOf

LEMMA ReadKeepsPeriod ==
  ASSUME PeriodInv, UNCHANGED runs, NEW s \in Callers, NEW w, unit'[s].writes = w,
         \A t \in Callers \ {s} : unit'[t] = unit[t],
         RunsFit(w), DOMAIN w.runs \ DOMAIN runs \subseteq NewRuns
  PROVE  PeriodInv'
<1>1. \A t \in Callers : RunsFit(unit'[t].writes)
  BY DEF PeriodInv
<1>2. \A t \in Callers : RunsFit(unit[t].writes)'
  BY <1>1 DEF RunsFit
<1>3. ASSUME NEW t \in Callers, NEW u \in Callers, t # u
      PROVE  NewRunsOf(t)' \cap NewRunsOf(u)' = {}
  <2>1. CASE t # s /\ u # s
    BY <1>3, <2>1 DEF PeriodInv, NewRunsOf
  <2>2. \A x \in Callers \ {s} : NewRunsOf(s)' \cap NewRunsOf(x)' = {}
    BY DEF NewRunsOf, NewRuns
  <2> QED BY <1>3, <2>1, <2>2
<1> QED BY <1>2, <1>3 DEF PeriodInv, RunsWhole

LEMMA CommitPeriods ==
  ASSUME IInv, PeriodInv, NEW s \in Callers, CommitUnit(s), NEW r \in DOMAIN runs
  PROVE  /\ r \in DOMAIN runs' /\ runs'[r].from = runs[r].from
         /\ runs'[r].to = runs[r].to /\ runs'[r].auto = runs[r].auto
<1> DEFINE w == unit[s].writes
<1>1. RunsFit(w) /\ DOMAIN runs[r] = {"status", "strict", "from", "to", "auto"}
  BY DEF PeriodInv, IInv, TablesOK, RunRow
<1>2. /\ r \in DOMAIN runs'
      /\ r \notin DOMAIN w.runs => runs'[r] = runs[r]
      /\ r \in DOMAIN w.runs => runs'[r] = Overwritten(runs[r], w.runs[r])
  BY CommitRuns
<1> HIDE DEF w
<1>3. CASE r \in DOMAIN w.runs
  <2>1. DOMAIN w.runs[r] \subseteq {"status"}
    BY <1>1, <1>3 DEF RunsFit
  <2> DEFINE x == w.runs[r]
             y == runs'[r]
  <2>2. y = Overwritten(runs[r], x) /\ DOMAIN x \subseteq {"status"}
    BY <1>2, <1>3, <2>1
  <2> HIDE DEF x
  <2>3. \A c \in DOMAIN runs[r] \ DOMAIN x : y[c] = runs[r][c]
    BY <2>2 DEF Overwritten
  <2> HIDE DEF y
  <2>4. y["from"] = runs[r]["from"] /\ y["to"] = runs[r]["to"] /\ y["auto"] = runs[r]["auto"]
    BY <1>1, <2>2, <2>3
  <2> QED BY <1>2, <2>4 DEF y
<1> QED BY <1>2, <1>3

LEMMA CommitKeepsPeriod ==
  ASSUME IInv, PeriodInv, NEW s \in Callers, CommitUnit(s)
  PROVE  PeriodInv'
<1> DEFINE w == unit[s].writes
<1>1. /\ unit'[s].writes.runs = <<>> /\ RunsFit(w)
      /\ \A t \in Callers \ {s} : unit'[t] = unit[t]
  <2>1. unit'[s].writes = NoWrites /\ \A t \in Callers \ {s} : unit'[t] = unit[t]
    BY CommitIs
  <2>2. NoWrites.runs = <<>>
    BY DEF NoWrites
  <2>3. RunsFit(w)
    BY DEF PeriodInv
  <2> QED BY <2>1, <2>2, <2>3
<1>2. DOMAIN runs' = DOMAIN runs \cup DOMAIN w.runs /\ \A r \in DOMAIN w.runs \ DOMAIN runs : runs'[r] = w.runs[r]
  BY CommitRuns
<1>3. ASSUME NEW r \in DOMAIN runs' PROVE Whole(runs'[r])
  <2>1. CASE r \in DOMAIN runs
    BY <2>1, CommitPeriods DEF PeriodInv, RunsWhole, Whole
  <2>2. CASE r \notin DOMAIN runs
    BY <1>1, <1>2, <1>3, <2>2 DEF RunsFit
  <2> QED BY <2>1, <2>2
<1>4. \A t \in Callers : NewRunsOf(t)' \subseteq NewRunsOf(t) /\ NewRunsOf(s)' = {}
  BY <1>1, <1>2 DEF NewRunsOf
<1>5. ASSUME NEW t \in Callers PROVE RunsFit(unit[t].writes)'
  <2>1. CASE t = s
    BY <1>1, <2>1 DEF RunsFit
  <2>2. CASE t # s
    <3>1. unit'[t] = unit[t] /\ RunsFit(unit[t].writes)
      BY <1>1, <2>2 DEF PeriodInv
    <3>2. \A r \in DOMAIN unit[t].writes.runs : r \notin DOMAIN runs => r \notin DOMAIN runs'
      BY <1>2, <2>2 DEF PeriodInv, NewRunsOf
    <3> QED BY <1>2, <3>1, <3>2 DEF RunsFit
  <2> QED BY <2>1, <2>2
<1>6. \A t, u \in Callers : t # u => NewRunsOf(t)' \cap NewRunsOf(u)' = {}
  BY <1>4 DEF PeriodInv
<1> HIDE DEF w
<1> QED BY <1>3, <1>5, <1>6 DEF PeriodInv, RunsWhole

LEMMA AbortIs ==
  ASSUME IInv, NEW s \in Callers, DropUnit(s)
  PROVE  /\ UNCHANGED <<att, runs, items, deducted, payouts>>
         /\ unit[s].pc = "commit" /\ unit'[s].pc = "idle" /\ unit'[s].writes = NoWrites /\ unit'[s].corrected = <<>>
         /\ \A t \in Callers \ {s} : unit'[t] = unit[t]
BY DEF DropUnit, Idle, IInv, SessOK

LEMMA NextPeriod ==
  ASSUME IInv, PeriodInv, [PayrollNext]_payrollVars
  PROVE  PeriodInv'
<1>1. ASSUME NEW s \in Callers, NEW w, UNCHANGED runs, unit'[s].writes = w, w.runs = <<>>,
             \A t \in Callers \ {s} : unit'[t] = unit[t]
      PROVE  PeriodInv'
  <2>1. RunsFit(w) /\ DOMAIN w.runs = {}
    BY <1>1 DEF RunsFit
  <2> QED BY <1>1, <2>1, ReadKeepsPeriod
<1>2. ASSUME NEW s \in Callers, PlansFit(s) PROVE PeriodInv'
  <2>1. PICK w, e : Propose(s, w) /\ Fits(w, e)
    BY <1>2 DEF PlansFit
  <2>2. unit'[s].writes = w /\ UNCHANGED runs /\ \A t \in Callers \ {s} : unit'[t] = unit[t]
    BY <2>1 DEF Propose, IInv, SessOK
  <2> QED BY <2>1, <2>2, ReadKeepsPeriod DEF Fits
<1>3. ASSUME NEW s \in Callers, NEW k \in DOMAIN att, NEW status, Correct(s, k, status) PROVE PeriodInv'
  <2>1. PICK w : /\ UNCHANGED runs /\ unit'[s] = [pc |-> "commit", corrected |-> k, writes |-> w]
                 /\ w.runs = <<>> /\ \A t \in Callers \ {s} : unit'[t] = unit[t]
    BY <1>3, CorrectIs
  <2>2. unit'[s].writes = w
    BY <2>1
  <2> QED BY <1>1, <2>1, <2>2
<1>4. ASSUME NEW s \in Callers, MarkStale(s) PROVE PeriodInv'
  BY <1>1, <1>4, MarkIs
<1>5. ASSUME NEW s \in Callers, DropUnit(s) PROVE PeriodInv'
  <2>1. NoWrites.runs = <<>>
    BY DEF NoWrites
  <2> QED BY <1>1, <1>5, <2>1, AbortIs
<1>6. CASE UNCHANGED payrollVars
  BY <1>6 DEF payrollVars, PeriodInv, RunsWhole, RunsFit, NewRunsOf
<1>7. CASE PayrollNext
  <2>1. RunsWhole
    BY DEF PeriodInv
  <2> QED BY <1>2, <1>3, <1>4, <1>5, <1>7, <2>1, NextFits, CommitKeepsPeriod
<1> QED BY <1>6, <1>7

LEMMA PeriodInvariance == PayrollSpec => [](IInv /\ PeriodInv)
<1>1. IInv /\ PeriodInv /\ [PayrollNext]_payrollVars => PeriodInv'
  BY NextPeriod
<1> QED BY <1>1, InitPeriod, Invariance, PTL DEF PayrollSpec

-----------------------------------------------------------------------------
(* One session keeps the books: it alone generates, deducts, recalculates  *)
(* and records payments.  Requests read the deductions of an item before   *)
(* they write its net amount, and without the hypothesis two deductions    *)
(* of one item lose one of them.                                           *)
OneBook(book) ==
  \A s \in Callers \ {book} : Calls[s] \cap {"generate", "deduct", "recalculate", "record"} = {}

Committing(s) == unit[s].pc \in {"commit", "marked"}

(* The items the book writes balance once they are committed, whoever else *)
(* commits first; others leave the amounts alone.                          *)
BookFits(w, s, book) ==
  /\ s = book => /\ DOMAIN w.deducted \subseteq DOMAIN w.items
                 /\ \A i \in DOMAIN w.items : Balances(w, i)
  /\ s # book => /\ DOMAIN w.deducted = {}
                 /\ \A i \in DOMAIN w.items :
                      i \in DOMAIN items /\ DOMAIN w.items[i] \subseteq {"stale", "paid"}

BookInv(book) ==
  /\ NetFollowsDeductions
  /\ \A s \in Callers : Committing(s) => BookFits(unit[s].writes, s, book)

LEMMA InitBook ==
  ASSUME NEW book
  PROVE  PayrollInit => BookInv(book)
<1> SUFFICES ASSUME PayrollInit PROVE BookInv(book)
  OBVIOUS
<1>1. DOMAIN items = {} /\ \A s \in Callers : unit[s].pc = "idle"
  BY DEF PayrollInit, Idle
<1> QED BY <1>1 DEF BookInv, NetFollowsDeductions, Committing

LEMMA UntouchedBalances ==
  ASSUME IInv, NetFollowsDeductions, NEW w, NEW i \in DOMAIN items \cap DOMAIN w.items,
         DOMAIN w.items[i] \cap {"gross", "deductions", "net"} = {}, i \notin DOMAIN w.deducted
  PROVE  Balances(w, i)
<1> DEFINE row == RowAfter(w, i)
<1>1. row.gross = items[i].gross /\ row.deductions = items[i].deductions /\ row.net = items[i].net
  BY ItemFacts DEF RowAfter, Overwritten, Columns
<1>2. Added(w, i) = 0 /\ Deducted(i) = deducted[i] /\ deducted[i] \in Nat
  BY ItemFacts DEF Added
<1>3. items[i].deductions = deducted[i] /\ items[i].net = NetAmount(items[i].gross, deducted[i])
  BY DEF NetFollowsDeductions
<1> HIDE DEF row
<1>4. Deducted(i) + Added(w, i) = deducted[i]
  BY <1>2
<1>5. row.deductions = Deducted(i) + Added(w, i)
      /\ row.net = NetAmount(row.gross, Deducted(i) + Added(w, i))
  BY <1>1, <1>3, <1>4
<1> QED BY <1>5 DEF Balances, row

LEMMA ReadKeepsBook ==
  ASSUME NEW book, BookInv(book), UNCHANGED <<att, runs, items, deducted, payouts>>,
         NEW s \in Callers, NEW w, unit'[s].writes = w,
         unit'[s].pc \in {"commit", "marked"} => BookFits(w, s, book),
         \A t \in Callers \ {s} : unit'[t] = unit[t]
  PROVE  BookInv(book)'
<1>1. NetFollowsDeductions'
  BY DEF BookInv, NetFollowsDeductions
<1>2. ASSUME NEW t \in Callers, NEW u, u = unit'[t].writes, Committing(t)'
      PROVE  BookFits(u, t, book)'
  <2>1. BookFits(u, t, book)
    BY <1>2 DEF BookInv, Committing
  <2> QED BY <2>1 DEF BookFits, Balances, RowAfter, Added, Deducted
<1> QED BY <1>1, <1>2 DEF BookInv

LEMMA PlanKeepsBook ==
  ASSUME IInv, NEW book, OneBook(book), BookInv(book), NEW s \in Callers, PlansFit(s)
  PROVE  BookInv(book)'
<1>1. PICK w, e : Propose(s, w) /\ Serve(s, e) /\ Fits(w, e)
  BY DEF PlansFit
<1>2. /\ unit'[s].writes = w /\ \A t \in Callers \ {s} : unit'[t] = unit[t]
      /\ UNCHANGED <<att, runs, items, deducted, payouts>>
  BY <1>1 DEF Propose, IInv, SessOK
<1>3. s # book => e \notin {"generate", "deduct", "recalculate", "record"}
  BY <1>1 DEF OneBook, Serve
<1>4. \A i \in DOMAIN w.items : ItemFits(w, i, e)
  BY <1>1 DEF Fits
<1>5. \A i \in DOMAIN w.deducted : e = "deduct" /\ i \in DOMAIN w.items
  BY <1>1 DEF Fits
<1>6. ASSUME NEW i \in DOMAIN w.items PROVE Balances(w, i)
  <2>1. CASE e \in {"payout", "paid"} /\ i \in DOMAIN items /\ Pays(w.items[i])
    BY <1>5, <2>1, UntouchedBalances DEF BookInv, Pays
  <2> QED BY <1>4, <2>1 DEF ItemFits
<1>7. BookFits(w, s, book)
  <2>1. CASE s = book
    BY <1>5, <1>6, <2>1 DEF BookFits
  <2>2. CASE s # book
    BY <1>3, <1>4, <1>5, <2>2 DEF BookFits, ItemFits, Pays
  <2> QED BY <2>1, <2>2
<1> QED BY <1>2, <1>7, ReadKeepsBook

LEMMA CorrectionKeepsBook ==
  ASSUME IInv, NEW book, BookInv(book), NEW s \in Callers,
         \/ \E k \in DOMAIN att, status \in Corrections : Correct(s, k, status)
         \/ MarkStale(s)
  PROVE  BookInv(book)'
<1>1. ASSUME NEW k \in DOMAIN att, NEW status, Correct(s, k, status) PROVE BookInv(book)'
  <2>1. PICK w : /\ UNCHANGED <<att, runs, items, deducted, payouts>>
                 /\ unit'[s] = [pc |-> "commit", corrected |-> k, writes |-> w]
                 /\ \A t \in Callers \ {s} : unit'[t] = unit[t]
                 /\ DOMAIN w.att = {k} /\ w.runs = <<>> /\ w.items = <<>> /\ w.deducted = <<>>
    BY <1>1, CorrectIs
  <2>2. unit'[s].writes = w /\ BookFits(w, s, book)
    BY <2>1 DEF BookFits
  <2> QED BY <2>1, <2>2, ReadKeepsBook
<1>2. ASSUME MarkStale(s) PROVE BookInv(book)'
  <2>1. PICK w : /\ UNCHANGED <<att, runs, items, deducted, payouts>>
                 /\ unit'[s].writes = w
                 /\ \A t \in Callers \ {s} : unit'[t] = unit[t]
                 /\ w.deducted = <<>>
                 /\ \A i \in DOMAIN w.items : i \in DOMAIN items /\ Marks(w.items[i])
    BY <1>2, MarkIs
  <2>2. \A i \in DOMAIN w.items : Balances(w, i)
    BY <2>1, UntouchedBalances DEF BookInv, Marks
  <2>3. BookFits(w, s, book)
    BY <2>1, <2>2 DEF BookFits, Marks
  <2> QED BY <2>1, <2>3, ReadKeepsBook
<1> QED BY <1>1, <1>2

LEMMA CommitKeepsBook ==
  ASSUME IInv, NEW book, BookInv(book), NEW s \in Callers, CommitUnit(s)
  PROVE  BookInv(book)'
<1> DEFINE w == unit[s].writes
<1>1. Committing(s) /\ BookFits(w, s, book)
  BY DEF BookInv, Committing, CommitUnit
<1>2. /\ DOMAIN items' = DOMAIN items \cup DOMAIN w.items
      /\ \A i \in DOMAIN w.items : items'[i] = RowAfter(w, i)
      /\ \A i \in DOMAIN items \ DOMAIN w.items : items'[i] = items[i]
      /\ \A i \in DOMAIN items' : deducted'[i] = Deducted(i) + Added(w, i)
      /\ unit'[s].pc \in {"idle", "mark"}
      /\ \A t \in Callers \ {s} : unit'[t] = unit[t]
  BY CommitIs
<1> HIDE DEF w
<1>3. DOMAIN w.deducted \subseteq DOMAIN w.items /\ \A i \in DOMAIN w.items : Balances(w, i)
  BY <1>1, UntouchedBalances DEF BookFits, BookInv
<1>4. ASSUME NEW i \in DOMAIN items'
      PROVE  /\ items'[i].deductions = deducted'[i]
             /\ items'[i].net = NetAmount(items'[i].gross, deducted'[i])
  <2>1. CASE i \in DOMAIN w.items
    BY <1>2, <1>3, <1>4, <2>1 DEF Balances
  <2>2. CASE i \notin DOMAIN w.items
    <3>1. i \in DOMAIN items /\ items'[i] = items[i] /\ Deducted(i) = deducted[i] /\ deducted[i] \in Nat
      BY <1>2, <2>2, ItemFacts
    <3>2. deducted'[i] = deducted[i]
      BY <1>2, <1>3, <2>2, <3>1 DEF Added
    <3> QED BY <3>1, <3>2 DEF BookInv, NetFollowsDeductions
  <2> QED BY <2>1, <2>2
<1>5. ASSUME NEW t \in Callers, NEW u, u = unit'[t].writes, Committing(t)'
      PROVE  BookFits(u, t, book)'
  <2>1. t # s /\ BookFits(u, t, book)
    BY <1>2, <1>5 DEF BookInv, Committing
  <2>2. CASE t = book
    <3>1. DOMAIN w.deducted = {}
          /\ \A i \in DOMAIN w.items : i \in DOMAIN items /\ DOMAIN w.items[i] \subseteq {"stale", "paid"}
      BY <1>1, <2>1, <2>2 DEF BookFits
    <3>2. DOMAIN items' = DOMAIN items /\ \A i : Deducted(i)' = Deducted(i)
      <4>1. DOMAIN items' = DOMAIN items
        BY <1>2, <3>1
      <4>2. DOMAIN deducted' = DOMAIN items'
        BY DEF CommitUnit
      <4>3. \A i \in DOMAIN items : deducted'[i] = deducted[i]
        BY <1>2, <3>1, <4>1, ItemFacts DEF Added
      <4> QED BY <4>1, <4>2, <4>3, ItemFacts DEF Deducted
    <3>3. ASSUME NEW i \in DOMAIN items
          PROVE  /\ DOMAIN items'[i] = Columns /\ items'[i].gross = items[i].gross
                 /\ items'[i].deductions = items[i].deductions /\ items'[i].net = items[i].net
      <4> DEFINE x == w.items[i]
      <4>1. CASE i \in DOMAIN w.items
        <5>1. items'[i] = Overwritten(items[i], x) /\ DOMAIN x \subseteq {"stale", "paid"}
              /\ DOMAIN items[i] = Columns
          BY <1>2, <3>1, <4>1, ItemFacts DEF RowAfter
        <5> HIDE DEF x
        <5> QED BY <5>1 DEF Overwritten, Columns
      <4> QED BY <1>2, <4>1, ItemFacts
    <3>4. ASSUME NEW i \in DOMAIN u.items, Balances(u, i) PROVE Balances(u, i)'
      <4> DEFINE x == RowAfter(u, i)
                 y == RowAfter(u, i)'
      <4>1. y.gross = x.gross /\ y.deductions = x.deductions /\ y.net = x.net
        <5>1. CASE i \in DOMAIN items
          BY <3>2, <3>3, <5>1, ItemFacts DEF RowAfter, Overwritten, Columns
        <5>2. CASE i \notin DOMAIN items
          BY <3>2, <5>2 DEF RowAfter
        <5> QED BY <5>1, <5>2
      <4>2. /\ x.deductions = Deducted(i) + Added(u, i)
            /\ x.net = NetAmount(x.gross, Deducted(i) + Added(u, i))
        BY <3>4 DEF Balances
      <4> HIDE DEF x, y
      <4>3. /\ y.deductions = Deducted(i)' + Added(u, i)
            /\ y.net = NetAmount(y.gross, Deducted(i)' + Added(u, i))
        BY <3>2, <4>1, <4>2
      <4> QED BY <4>3 DEF Balances, Added, y
    <3> QED BY <2>1, <2>2, <3>4 DEF BookFits
  <2>3. CASE t # book
    BY <1>2, <2>1, <2>3 DEF BookFits
  <2> QED BY <2>1, <2>2, <2>3
<1> QED BY <1>4, <1>5 DEF BookInv, NetFollowsDeductions

LEMMA NextBook ==
  ASSUME IInv, PeriodInv, NEW book, OneBook(book), BookInv(book), [PayrollNext]_payrollVars
  PROVE  BookInv(book)'
<1>1. CASE PayrollNext
  <2>1. ASSUME NEW s \in Callers, DropUnit(s) PROVE BookInv(book)'
    <3>1. /\ UNCHANGED <<att, runs, items, deducted, payouts>> /\ unit'[s].pc = "idle"
          /\ \A t \in Callers \ {s} : unit'[t] = unit[t]
      BY <2>1, AbortIs
    <3> QED BY <3>1, ReadKeepsBook
  <2>2. RunsWhole
    BY DEF PeriodInv
  <2>3. PICK s \in Callers :
           \/ PlansFit(s)
           \/ \E k \in DOMAIN att, status \in Corrections : Correct(s, k, status)
           \/ MarkStale(s) \/ CommitUnit(s) \/ DropUnit(s)
    BY <1>1, <2>2, NextFits
  <2> QED BY <2>1, <2>3, PlanKeepsBook, CorrectionKeepsBook, CommitKeepsBook
<1>2. CASE UNCHANGED payrollVars
  BY <1>2 DEF payrollVars, BookInv, NetFollowsDeductions, Committing, BookFits, Balances, RowAfter, Added, Deducted
<1> QED BY <1>1, <1>2

(* With one session keeping the books the net amount of an item is its     *)
(* gross amount less all its deductions, never below zero, whatever others *)
(* approve, correct, lock and pay meanwhile.                               *)
THEOREM NetIsRight ==
  ASSUME NEW book \in Callers, OneBook(book)
  PROVE  PayrollSpec => []NetFollowsDeductions
<1>1. PayrollInit => BookInv(book)
  BY InitBook
<1>2. IInv /\ PeriodInv /\ BookInv(book) /\ [PayrollNext]_payrollVars => BookInv(book)'
  BY NextBook
<1>3. BookInv(book) => NetFollowsDeductions
  BY DEF BookInv
<1> QED BY <1>1, <1>2, <1>3, PeriodInvariance, PTL DEF PayrollSpec

-----------------------------------------------------------------------------
(* One session pays and recalculates.  That an item is unpaid is read      *)
(* before the item is recalculated, so a payment that overtakes the        *)
(* recalculation would see its gross amount rewritten.                     *)
OnePayer(payer) ==
  \A s \in Callers \ {payer} : Calls[s] \cap {"recalculate", "payout", "paid"} = {}

(* Whole rows are inserted, or refused as duplicates.                      *)
PayFits(w, s, payer) ==
  \A i \in DOMAIN w.items :
    \/ DOMAIN w.items[i] = Columns
    \/ /\ i \in DOMAIN items
       /\ "paid" \in DOMAIN w.items[i] => s = payer /\ w.items[i].paid = TRUE
       /\ DOMAIN w.items[i] \cap {"gross", "basis"} # {} => s = payer /\ ~items[i].paid

PayInv(payer) == \A s \in Callers : Committing(s) => PayFits(unit[s].writes, s, payer)

PaidStays ==
  \A i \in DOMAIN items : items[i].paid =>
    items'[i].paid /\ items'[i].gross = items[i].gross /\ items'[i].basis = items[i].basis

LEMMA InitPay ==
  ASSUME NEW payer
  PROVE  PayrollInit => PayInv(payer)
BY DEF PayrollInit, Idle, PayInv, Committing

LEMMA ReadKeepsPay ==
  ASSUME NEW payer, PayInv(payer), UNCHANGED <<att, runs, items, deducted, payouts>>,
         NEW s \in Callers, NEW w, unit'[s].writes = w,
         unit'[s].pc \in {"commit", "marked"} => PayFits(w, s, payer),
         \A t \in Callers \ {s} : unit'[t] = unit[t]
  PROVE  PayInv(payer)' /\ PaidStays
<1>1. ASSUME NEW t \in Callers, NEW u, u = unit'[t].writes, Committing(t)'
      PROVE  PayFits(u, t, payer)'
  <2>1. PayFits(u, t, payer)
    BY <1>1 DEF PayInv, Committing
  <2> QED BY <2>1 DEF PayFits
<1> QED BY <1>1 DEF PayInv, PaidStays

LEMMA PlanKeepsPay ==
  ASSUME IInv, NEW payer, OnePayer(payer), PayInv(payer), NEW s \in Callers, PlansFit(s)
  PROVE  PayInv(payer)' /\ PaidStays
<1>1. PICK w, e : Propose(s, w) /\ Serve(s, e) /\ Fits(w, e)
  BY DEF PlansFit
<1>2. /\ unit'[s].writes = w /\ \A t \in Callers \ {s} : unit'[t] = unit[t]
      /\ UNCHANGED <<att, runs, items, deducted, payouts>>
  BY <1>1 DEF Propose, IInv, SessOK
<1>3. s # payer => e \notin {"recalculate", "payout", "paid"}
  BY <1>1 DEF OnePayer, Serve
<1>4. \A i \in DOMAIN w.items : ItemFits(w, i, e)
  BY <1>1 DEF Fits
<1>5. PayFits(w, s, payer)
  BY <1>3, <1>4 DEF PayFits, ItemFits, Pays
<1> QED BY <1>2, <1>5, ReadKeepsPay

LEMMA CorrectionKeepsPay ==
  ASSUME IInv, NEW payer, PayInv(payer), NEW s \in Callers,
         \/ \E k \in DOMAIN att, status \in Corrections : Correct(s, k, status)
         \/ MarkStale(s)
  PROVE  PayInv(payer)' /\ PaidStays
<1>1. ASSUME NEW k \in DOMAIN att, NEW status, Correct(s, k, status) PROVE PayInv(payer)' /\ PaidStays
  <2>1. PICK w : /\ UNCHANGED <<att, runs, items, deducted, payouts>>
                 /\ unit'[s] = [pc |-> "commit", corrected |-> k, writes |-> w]
                 /\ \A t \in Callers \ {s} : unit'[t] = unit[t]
                 /\ DOMAIN w.att = {k} /\ w.runs = <<>> /\ w.items = <<>> /\ w.deducted = <<>>
    BY <1>1, CorrectIs
  <2>2. unit'[s].writes = w /\ PayFits(w, s, payer)
    BY <2>1 DEF PayFits
  <2> QED BY <2>1, <2>2, ReadKeepsPay
<1>2. ASSUME MarkStale(s) PROVE PayInv(payer)' /\ PaidStays
  <2>1. PICK w : /\ UNCHANGED <<att, runs, items, deducted, payouts>>
                 /\ unit'[s].writes = w
                 /\ \A t \in Callers \ {s} : unit'[t] = unit[t]
                 /\ \A i \in DOMAIN w.items : i \in DOMAIN items /\ Marks(w.items[i])
    BY <1>2, MarkIs
  <2>2. PayFits(w, s, payer)
    BY <2>1 DEF PayFits, Marks
  <2> QED BY <2>1, <2>2, ReadKeepsPay
<1> QED BY <1>1, <1>2

LEMMA CommitKeepsPay ==
  ASSUME IInv, NEW payer, PayInv(payer), NEW s \in Callers, CommitUnit(s)
  PROVE  PayInv(payer)' /\ PaidStays
<1> DEFINE w == unit[s].writes
<1>1. PayFits(w, s, payer)
  BY DEF PayInv, Committing, CommitUnit
<1>2. /\ DOMAIN items' = DOMAIN items \cup DOMAIN w.items
      /\ \A i \in DOMAIN w.items : items'[i] = RowAfter(w, i)
      /\ \A i \in DOMAIN items \ DOMAIN w.items : items'[i] = items[i]
      /\ \A i \in DOMAIN items \cap DOMAIN w.items : DOMAIN w.items[i] # Columns
      /\ unit'[s].pc \in {"idle", "mark"}
      /\ \A t \in Callers \ {s} : unit'[t] = unit[t]
  BY CommitIs
<1> HIDE DEF w
<1>3. ASSUME NEW i \in DOMAIN items
      PROVE  /\ items[i].paid => /\ items'[i].paid /\ items'[i].gross = items[i].gross
                                 /\ items'[i].basis = items[i].basis
             /\ items'[i].paid => items[i].paid \/ s = payer
  <2>1. CASE i \in DOMAIN w.items
    <3> DEFINE x == w.items[i]
    <3>1. /\ items'[i] = Overwritten(items[i], x) /\ DOMAIN items[i] = Columns
          /\ "paid" \in DOMAIN x => s = payer /\ x.paid = TRUE
          /\ DOMAIN x \cap {"gross", "basis"} # {} => ~items[i].paid
      BY <1>1, <1>2, <2>1, ItemFacts DEF RowAfter, PayFits
    <3> HIDE DEF x
    <3> QED BY <3>1 DEF Overwritten, Columns
  <2> QED BY <1>2, <2>1
<1>4. ASSUME NEW t \in Callers, NEW u, u = unit'[t].writes, Committing(t)'
      PROVE  PayFits(u, t, payer)'
  <2>1. t # s /\ PayFits(u, t, payer)
    BY <1>2, <1>4 DEF PayInv, Committing
  <2> QED BY <1>2, <1>3, <2>1 DEF PayFits
<1> QED BY <1>3, <1>4 DEF PayInv, PaidStays

LEMMA NextPay ==
  ASSUME IInv, PeriodInv, NEW payer, OnePayer(payer), PayInv(payer), [PayrollNext]_payrollVars
  PROVE  PayInv(payer)' /\ PaidStays
<1>1. CASE PayrollNext
  <2>1. ASSUME NEW s \in Callers, DropUnit(s) PROVE PayInv(payer)' /\ PaidStays
    <3>1. /\ UNCHANGED <<att, runs, items, deducted, payouts>> /\ unit'[s].pc = "idle"
          /\ \A t \in Callers \ {s} : unit'[t] = unit[t]
      BY <2>1, AbortIs
    <3> QED BY <3>1, ReadKeepsPay
  <2>2. RunsWhole
    BY DEF PeriodInv
  <2>3. PICK s \in Callers :
           \/ PlansFit(s)
           \/ \E k \in DOMAIN att, status \in Corrections : Correct(s, k, status)
           \/ MarkStale(s) \/ CommitUnit(s) \/ DropUnit(s)
    BY <1>1, <2>2, NextFits
  <2> QED BY <2>1, <2>3, PlanKeepsPay, CorrectionKeepsPay, CommitKeepsPay
<1>2. CASE UNCHANGED payrollVars
  BY <1>2 DEF payrollVars, PayInv, Committing, PayFits, PaidStays
<1> QED BY <1>1, <1>2

(* With one session paying and recalculating, what a worker was paid for   *)
(* stays on record: however attendance is corrected and deductions added,  *)
(* no later commit rewrites the gross amount of a paid item or unpays it.  *)
THEOREM PaidStands ==
  ASSUME NEW payer \in Callers, OnePayer(payer)
  PROVE  PayrollSpec => PaidGrossStands
<1>1. PayrollInit => PayInv(payer)
  BY InitPay
<1>2. IInv /\ PeriodInv /\ PayInv(payer) /\ [PayrollNext]_payrollVars => PayInv(payer)'
  BY NextPay
<1>3. IInv /\ PeriodInv /\ PayInv(payer) /\ [PayrollNext]_payrollVars => [PaidStays]_payrollVars
  BY NextPay
<1>4. PayrollSpec => [][PaidStays]_payrollVars
  BY <1>1, <1>2, <1>3, PeriodInvariance, PTL DEF PayrollSpec
<1> QED BY <1>4 DEF PaidGrossStands, PaidStays

-----------------------------------------------------------------------------
(* One session keeps attendance and items in step: it alone corrects       *)
(* records and computes items from them.  An item computed from records    *)
(* read before a correction, and inserted after its items were marked,     *)
(* would carry the old status and no mark.                                 *)
OneKeeper(keeper) ==
  \A s \in Callers \ {keeper} : Calls[s] \cap {"correct", "generate", "recalculate", "record"} = {}

Quiet(w, i) == i \in DOMAIN items /\ DOMAIN w.items[i] \cap {"basis", "stale"} = {}

(* What a unit of work may still write, by where its request stands.       *)
KeepFits(w, s, keeper, pc, corrected) ==
  /\ s # keeper => KeepsStatuses(w) /\ \A i \in DOMAIN w.items : Quiet(w, i)
  /\ s = keeper /\ corrected = <<>> =>
       KeepsStatuses(w) /\ \A i \in DOMAIN w.items : Quiet(w, i) \/ Tallies(w, i)
  /\ s = keeper /\ corrected # <<>> /\ pc = "commit" =>
       DOMAIN w.items = {} /\ DOMAIN w.att \subseteq {corrected}
  /\ pc = "marked" =>
       /\ DOMAIN w.att = {}
       /\ \A i \in DOMAIN w.items : i \in DOMAIN items /\ Marks(w.items[i])
       /\ \A i \in Covering(corrected[1], corrected[2]) :
            items[i].stale \/ (i \in DOMAIN w.items /\ "stale" \in DOMAIN w.items[i])

BasesLie ==
  \A i \in DOMAIN items : \A d \in DOMAIN items[i].basis :
    <<i[2], d>> \in DOMAIN att /\ d \in DaysOf(i[1])

(* Only the keeper has a correction under way.                             *)
Correcting(s, keeper) ==
  /\ unit[s].corrected # <<>> => s = keeper /\ unit[s].pc # "idle"
  /\ unit[s].pc \in {"mark", "marked"} => unit[s].corrected # <<>>

KeepInv(keeper) ==
  /\ BasesLie /\ CorrectionReachesItems
  /\ \A s \in Callers :
       /\ Correcting(s, keeper)
       /\ Committing(s) => KeepFits(unit[s].writes, s, keeper, unit[s].pc, unit[s].corrected)

LEMMA InitKeep ==
  ASSUME NEW keeper
  PROVE  PayrollInit => KeepInv(keeper)
<1> SUFFICES ASSUME PayrollInit PROVE KeepInv(keeper)
  OBVIOUS
<1>1. DOMAIN items = {} /\ \A s \in Callers : unit[s].pc = "idle" /\ unit[s].corrected = <<>>
  BY DEF PayrollInit, Idle
<1> QED BY <1>1 DEF KeepInv, BasesLie, CorrectionReachesItems, Committing, Correcting

LEMMA ReadKeepsKeep ==
  ASSUME NEW keeper, KeepInv(keeper), UNCHANGED <<att, runs, items, deducted, payouts>>,
         NEW s \in Callers, NEW w, NEW pc, NEW corrected,
         unit'[s].writes = w, unit'[s].pc = pc, unit'[s].corrected = corrected,
         corrected # <<>> => s = keeper /\ pc # "idle",
         pc \in {"mark", "marked"} => corrected # <<>>,
         pc \in {"commit", "marked"} => KeepFits(w, s, keeper, pc, corrected),
         unit[s].pc \in {"mark", "marked"} =>
           pc \in {"mark", "marked"} /\ corrected = unit[s].corrected,
         \A t \in Callers \ {s} : unit'[t] = unit[t]
  PROVE  KeepInv(keeper)'
<1>1. BasesLie'
  BY DEF KeepInv, BasesLie, DaysOf
<1>2. CorrectionReachesItems'
  <2>1. \A a, d : BeingMarked(a, d) => BeingMarked(a, d)'
    BY DEF BeingMarked
  <2> QED BY <2>1 DEF KeepInv, CorrectionReachesItems
<1>3. ASSUME NEW t \in Callers PROVE Correcting(t, keeper)'
  BY DEF KeepInv, Correcting
<1>4. ASSUME NEW t \in Callers, NEW u, NEW p, NEW c, u = unit'[t].writes, p = unit'[t].pc,
             c = unit'[t].corrected, Committing(t)'
      PROVE  KeepFits(u, t, keeper, p, c)'
  <2>1. KeepFits(u, t, keeper, p, c)
    BY <1>4 DEF KeepInv, Committing
  <2> QED BY <2>1 DEF KeepFits, Quiet, Tallies, RowAfter, RunAfter, Covering, DaysOf
<1> QED BY <1>1, <1>2, <1>3, <1>4 DEF KeepInv

LEMMA PlanKeepsKeep ==
  ASSUME IInv, NEW keeper, OneKeeper(keeper), KeepInv(keeper), NEW s \in Callers, PlansFit(s)
  PROVE  KeepInv(keeper)'
<1>1. PICK w, e : Propose(s, w) /\ Serve(s, e) /\ Fits(w, e)
  BY DEF PlansFit
<1>2. /\ unit[s].pc = "idle" /\ unit'[s].pc = "commit"
      /\ unit'[s].writes = w /\ unit'[s].corrected = unit[s].corrected
      /\ \A t \in Callers \ {s} : unit'[t] = unit[t]
      /\ UNCHANGED <<att, runs, items, deducted, payouts>>
  BY <1>1 DEF Propose, Serve, IInv, SessOK
<1>3. unit[s].corrected = <<>>
  BY <1>2 DEF KeepInv, Correcting
<1>4. s # keeper => e \notin {"generate", "recalculate", "record"}
  BY <1>1 DEF OneKeeper, Serve
<1>5. KeepsStatuses(w) /\ \A i \in DOMAIN w.items : ItemFits(w, i, e)
  BY <1>1 DEF Fits
<1>6. \A i \in DOMAIN w.items :
        \/ Quiet(w, i)
        \/ e \in {"generate", "recalculate", "record"} /\ Tallies(w, i)
  BY <1>5 DEF ItemFits, Quiet, Pays
<1>7. KeepFits(w, s, keeper, "commit", <<>>)
  BY <1>4, <1>5, <1>6 DEF KeepFits
<1> QED BY <1>2, <1>3, <1>7, ReadKeepsKeep

LEMMA CorrectionKeepsKeep ==
  ASSUME IInv, NEW keeper, OneKeeper(keeper), KeepInv(keeper), NEW s \in Callers,
         \/ \E k \in DOMAIN att, status \in Corrections : Correct(s, k, status)
         \/ MarkStale(s)
  PROVE  KeepInv(keeper)'
<1>1. ASSUME NEW k \in DOMAIN att, NEW status, Correct(s, k, status) PROVE KeepInv(keeper)'
  <2>1. PICK w : /\ UNCHANGED <<att, runs, items, deducted, payouts>>
                 /\ unit'[s] = [pc |-> "commit", corrected |-> k, writes |-> w]
                 /\ \A t \in Callers \ {s} : unit'[t] = unit[t]
                 /\ DOMAIN w.att = {k} /\ w.runs = <<>> /\ w.items = <<>> /\ w.deducted = <<>>
    BY <1>1, CorrectIs
  <2>2. s = keeper /\ unit[s].pc = "idle"
    BY <1>1 DEF Correct, Serve, OneKeeper
  <2>3. k # <<>>
    BY DEF IInv, TablesOK
  <2>4. KeepFits(w, s, keeper, "commit", k)
    BY <2>1, <2>2, <2>3 DEF KeepFits
  <2>5. unit'[s].writes = w /\ unit'[s].pc = "commit" /\ unit'[s].corrected = k
    BY <2>1
  <2> QED BY <2>1, <2>2, <2>3, <2>4, <2>5, ReadKeepsKeep
<1>2. ASSUME MarkStale(s) PROVE KeepInv(keeper)'
  <2>1. PICK w : /\ UNCHANGED <<att, runs, items, deducted, payouts>>
                 /\ unit[s].pc = "mark" /\ unit'[s].pc = "marked" /\ unit'[s].writes = w
                 /\ unit'[s].corrected = unit[s].corrected
                 /\ \A t \in Callers \ {s} : unit'[t] = unit[t]
                 /\ w.att = <<>> /\ w.runs = <<>> /\ w.deducted = <<>>
                 /\ DOMAIN w.items = Covering(unit[s].corrected[1], unit[s].corrected[2])
                 /\ \A i \in DOMAIN w.items :
                      /\ i \in DOMAIN items /\ Marks(w.items[i])
                      /\ items[i].stale \/ "stale" \in DOMAIN w.items[i]
    BY <1>2, MarkIs
  <2>2. s = keeper /\ unit[s].corrected # <<>>
    BY <2>1 DEF KeepInv, Correcting
  <2>3. KeepFits(w, s, keeper, "marked", unit[s].corrected)
    BY <2>1, <2>2 DEF KeepFits
  <2> QED BY <2>1, <2>2, <2>3, ReadKeepsKeep
<1> QED BY <1>1, <1>2

LEMMA AbortKeepsKeep ==
  ASSUME IInv, NEW keeper, KeepInv(keeper), NEW s \in Callers, DropUnit(s)
  PROVE  KeepInv(keeper)'
BY AbortIs, ReadKeepsKeep

LEMMA CommitAtt ==
  ASSUME IInv, NEW s \in Callers, CommitUnit(s), NEW w, w = unit[s].writes
  PROVE  \A k \in DOMAIN att :
           /\ k \in DOMAIN att'
           /\ k \notin DOMAIN w.att => att'[k].status = att[k].status
           /\ KeepsStatuses(w) => att'[k].status = att[k].status
<1>1. att' = Apply(att, w.att) /\ ~Collides(att, w.att)
  BY DEF CommitUnit
<1>2. /\ DOMAIN att' = DOMAIN att \cup DOMAIN w.att
      /\ \A k \in DOMAIN att \ DOMAIN w.att : att'[k] = att[k]
      /\ \A k \in DOMAIN att \cap DOMAIN w.att : att'[k] = Overwritten(att[k], w.att[k])
  BY <1>1 DEF Apply
<1>3. ASSUME NEW k \in DOMAIN att \cap DOMAIN w.att, KeepsStatuses(w) PROVE att'[k].status = att[k].status
  <2> DEFINE x == w.att[k]
  <2>1. DOMAIN att[k] = {"status", "approval"} /\ DOMAIN x # DOMAIN att[k]
    BY <1>1 DEF Collides, IInv, TablesOK, AttRow
  <2>2. "status" \notin DOMAIN x /\ att'[k] = Overwritten(att[k], x)
    BY <1>2, <1>3, <2>1 DEF KeepsStatuses
  <2> HIDE DEF x
  <2> QED BY <2>1, <2>2 DEF Overwritten
<1> QED BY <1>2, <1>3

LEMMA CommitSession ==
  ASSUME IInv, NEW s \in Callers, CommitUnit(s)
  PROVE  /\ unit[s].pc \in {"commit", "marked"}
         /\ unit[s].pc = "commit" /\ unit[s].corrected # <<>> =>
              unit'[s].pc = "mark" /\ unit'[s].corrected = unit[s].corrected
         /\ unit[s].pc = "marked" \/ unit[s].corrected = <<>> =>
              unit'[s].pc = "idle" /\ unit'[s].corrected = <<>>
BY DEF IInv, SessOK, CommitUnit, Idle

(* What a commit does to the item a unit of work leaves as it is, marks,   *)
(* or computes.                                                            *)
LEMMA CommitItem ==
  ASSUME IInv, PeriodInv, NEW s \in Callers, CommitUnit(s), NEW w, w = unit[s].writes, NEW i \in DOMAIN items'
  PROVE  /\ i \notin DOMAIN w.items \/ Quiet(w, i) =>
              /\ i \in DOMAIN items /\ items'[i].basis = items[i].basis
              /\ items'[i].stale = items[i].stale
         /\ i \in DOMAIN items /\ i \in DOMAIN w.items /\ Marks(w.items[i]) =>
              /\ items'[i].basis = items[i].basis
              /\ items'[i].stale = (items[i].stale \/ "stale" \in DOMAIN w.items[i])
         /\ i \in DOMAIN w.items => items'[i] = RowAfter(w, i)
         /\ i[1] \in DOMAIN runs' /\ runs'[i[1]].from = RunAfter(w, i[1]).from
         /\ runs'[i[1]].to = RunAfter(w, i[1]).to
<1>1. /\ DOMAIN items' = DOMAIN items \cup DOMAIN w.items
      /\ i \in DOMAIN w.items => items'[i] = RowAfter(w, i)
      /\ i \in DOMAIN items \ DOMAIN w.items => items'[i] = items[i]
  BY CommitIs
<1>2. i \in DOMAIN items => DOMAIN items[i] = Columns /\ items[i].stale \in BOOLEAN
  BY ItemFacts
<1>3. ASSUME i \in DOMAIN items, i \in DOMAIN w.items
      PROVE  /\ Quiet(w, i) => items'[i].basis = items[i].basis /\ items'[i].stale = items[i].stale
             /\ Marks(w.items[i]) =>
                  /\ items'[i].basis = items[i].basis
                  /\ items'[i].stale = (items[i].stale \/ "stale" \in DOMAIN w.items[i])
  <2> DEFINE x == w.items[i]
             y == items'[i]
  <2>1. y = Overwritten(items[i], x)
    BY <1>1, <1>3 DEF RowAfter
  <2> HIDE DEF x, y
  <2>2. DOMAIN x \cap {"basis", "stale"} = {} => y.basis = items[i].basis /\ y.stale = items[i].stale
    BY <1>2, <1>3, <2>1 DEF Overwritten, Columns
  <2>3. Marks(x) => y.basis = items[i].basis
    BY <1>2, <1>3, <2>1 DEF Overwritten, Columns, Marks
  <2>4. Marks(x) => y.stale = (items[i].stale \/ "stale" \in DOMAIN x)
    <3>1. CASE "stale" \in DOMAIN x
      BY <1>2, <1>3, <2>1, <3>1 DEF Overwritten, Columns, Marks
    <3>2. CASE "stale" \notin DOMAIN x
      <4>1. y.stale = items[i].stale
        BY <1>2, <1>3, <2>1, <3>2 DEF Overwritten, Columns
      <4> QED BY <1>2, <1>3, <3>2, <4>1
    <3> QED BY <3>1, <3>2
  <2> QED BY <2>2, <2>3, <2>4 DEF Quiet, x, y
<1>4. i[1] \in DOMAIN runs'
  BY CommitTables DEF TablesOK
<1>5. runs'[i[1]].from = RunAfter(w, i[1]).from /\ runs'[i[1]].to = RunAfter(w, i[1]).to
  <2> DEFINE r == i[1]
  <2>1. /\ DOMAIN runs' = DOMAIN runs \cup DOMAIN w.runs
        /\ r \in DOMAIN w.runs \ DOMAIN runs => runs'[r] = w.runs[r]
    BY CommitRuns
  <2>2. r \in DOMAIN runs => runs'[r].from = runs[r].from /\ runs'[r].to = runs[r].to
    BY CommitPeriods
  <2> QED BY <1>4, <2>1, <2>2 DEF RunAfter
<1> QED BY <1>1, <1>3, <1>4, <1>5 DEF Quiet

(* No item falls out of step with the records by a commit.                 *)
LEMMA CommitKeepsStep ==
  ASSUME IInv, PeriodInv, NEW keeper, KeepInv(keeper), NEW s \in Callers, CommitUnit(s)
  PROVE  BasesLie' /\ CorrectionReachesItems'
<1> DEFINE w  == unit[s].writes
           pc == unit[s].pc
           c  == unit[s].corrected
<1>1. /\ KeepFits(w, s, keeper, pc, c) /\ Correcting(s, keeper) /\ pc \in {"commit", "marked"}
      /\ \A t \in Callers \ {s} : unit'[t] = unit[t]
      /\ pc = "commit" /\ c # <<>> => unit'[s].pc = "mark" /\ unit'[s].corrected = c
  BY CommitSession, CommitIs DEF KeepInv, Committing
<1>2. /\ pc = "marked" => c # <<>>
      /\ c # <<>> => s = keeper
  BY <1>1 DEF Correcting
<1>3. \A k \in DOMAIN att :
        /\ k \in DOMAIN att'
        /\ k \notin DOMAIN w.att => att'[k].status = att[k].status
        /\ KeepsStatuses(w) => att'[k].status = att[k].status
  BY CommitAtt
<1>4. \A i \in DOMAIN items' :
        /\ i \notin DOMAIN w.items \/ Quiet(w, i) =>
             /\ i \in DOMAIN items /\ items'[i].basis = items[i].basis
             /\ items'[i].stale = items[i].stale
        /\ i \in DOMAIN items /\ i \in DOMAIN w.items /\ Marks(w.items[i]) =>
             /\ items'[i].basis = items[i].basis
             /\ items'[i].stale = (items[i].stale \/ "stale" \in DOMAIN w.items[i])
        /\ i \in DOMAIN w.items => items'[i] = RowAfter(w, i)
        /\ runs'[i[1]].from = RunAfter(w, i[1]).from
        /\ runs'[i[1]].to = RunAfter(w, i[1]).to
  BY CommitItem
<1>5. ASSUME NEW a, NEW d, BeingMarked(a, d)
      PROVE  /\ keeper \in Callers /\ unit[keeper].corrected = <<a, d>>
             /\ unit[keeper].pc \in {"mark", "marked"}
  BY <1>5 DEF BeingMarked, KeepInv, Correcting
<1> DEFINE Computed(i) == s = keeper /\ c = <<>> /\ i \in DOMAIN w.items /\ Tallies(w, i)
           Kept(i)     == i \in DOMAIN items /\ items'[i].basis = items[i].basis
                          /\ (pc = "commit" => items'[i].stale = items[i].stale)
<1>6. ASSUME NEW i \in DOMAIN items' PROVE Computed(i) \/ Kept(i)
  <2>1. CASE i \notin DOMAIN w.items \/ Quiet(w, i)
    BY <1>4, <2>1
  <2>2. CASE i \in DOMAIN w.items /\ ~Quiet(w, i)
    <3>1. s = keeper
      BY <1>1, <2>2 DEF KeepFits
    <3>2. CASE c = <<>>
      BY <1>1, <2>2, <3>1, <3>2 DEF KeepFits
    <3>3. CASE c # <<>>
      <4>1. pc = "marked" /\ i \in DOMAIN items /\ Marks(w.items[i])
        BY <1>1, <2>2, <3>1, <3>3 DEF KeepFits
      <4> QED BY <1>4, <2>2, <4>1
    <3> QED BY <3>2, <3>3
  <2> QED BY <2>1, <2>2
<1>7. ASSUME NEW i \in DOMAIN items', NEW d \in DOMAIN items'[i].basis
      PROVE  /\ <<i[2], d>> \in DOMAIN att
             /\ d \in runs'[i[1]].from..runs'[i[1]].to
  <2>1. CASE Computed(i)
    BY <1>4, <1>7, <2>1 DEF Tallies
  <2>2. CASE Kept(i)
    <3>1. <<i[2], d>> \in DOMAIN att /\ d \in DaysOf(i[1]) /\ i[1] \in DOMAIN runs
      BY <1>7, <2>2, ItemFacts DEF KeepInv, BasesLie
    <3> QED BY <1>4, <1>7, <3>1 DEF DaysOf, RunAfter
  <2> QED BY <1>6, <2>1, <2>2
<1>8. BasesLie'
  BY <1>3, <1>7 DEF BasesLie, DaysOf
<1>9. ASSUME NEW i \in DOMAIN items', ~items'[i].stale, NEW d \in DOMAIN items'[i].basis,
             items'[i].basis[d] # att'[<<i[2], d>>].status
      PROVE  BeingMarked(i[2], d)'
  <2> DEFINE k == <<i[2], d>>
  <2>1. k \in DOMAIN att
    BY <1>7, <1>9
  <2>2. CASE Computed(i)
    <3>1. att'[k].status = att[k].status
      BY <1>1, <1>3, <2>1, <2>2 DEF KeepFits
    <3>2. items'[i].basis[d] = att[k].status
      BY <1>4, <1>9, <2>2 DEF Tallies
    <3> QED BY <1>9, <3>1, <3>2
  <2>3. CASE Kept(i) /\ pc = "commit"
    <3>1. CASE k \in DOMAIN w.att /\ c # <<>>
      <4>1. k = c /\ unit'[s].pc = "mark" /\ unit'[s].corrected = c
        BY <1>1, <1>2, <2>3, <3>1 DEF KeepFits
      <4> QED BY <4>1 DEF BeingMarked
    <3>2. CASE k \notin DOMAIN w.att \/ c = <<>>
      <4>1. att'[k].status = att[k].status
        BY <1>1, <1>3, <2>1, <3>2 DEF KeepFits
      <4>2. BeingMarked(i[2], d)
        BY <1>9, <2>3, <4>1 DEF KeepInv, CorrectionReachesItems
      <4>3. keeper # s /\ unit'[keeper] = unit[keeper]
        BY <1>1, <1>5, <2>3, <4>2
      <4> QED BY <1>5, <4>2, <4>3 DEF BeingMarked
    <3> QED BY <3>1, <3>2
  <2>4. CASE Kept(i) /\ pc = "marked"
    <3>1. /\ s = keeper /\ DOMAIN w.att = {}
          /\ \A j \in DOMAIN w.items : j \in DOMAIN items /\ Marks(w.items[j])
          /\ \A j \in Covering(c[1], c[2]) :
               items[j].stale \/ (j \in DOMAIN w.items /\ "stale" \in DOMAIN w.items[j])
      BY <1>1, <1>2, <2>4 DEF KeepFits
    <3>2. ~items[i].stale /\ i \notin Covering(c[1], c[2])
      <4>1. CASE i \in DOMAIN w.items
        BY <1>4, <1>9, <2>4, <3>1, <4>1
      <4>2. CASE i \notin DOMAIN w.items
        BY <1>4, <1>9, <2>4, <3>1, <4>2
      <4> QED BY <4>1, <4>2
    <3>3. att'[k].status = att[k].status
      BY <1>3, <2>1, <3>1
    <3>4. BeingMarked(i[2], d)
      BY <1>9, <2>4, <3>2, <3>3 DEF KeepInv, CorrectionReachesItems
    <3>5. c[1] = i[2] /\ c[2] = d
      BY <1>5, <3>1, <3>4
    <3>6. d \in DaysOf(i[1])
      BY <1>9, <2>4 DEF KeepInv, BasesLie
    <3> QED BY <2>4, <3>2, <3>5, <3>6 DEF Covering
  <2> QED BY <1>1, <1>6, <2>2, <2>3, <2>4
<1> QED BY <1>8, <1>9 DEF CorrectionReachesItems

(* What the keeper read of an item and its records, other commits leave.   *)
LEMMA CommitKeepsFits ==
  ASSUME IInv, PeriodInv, NEW keeper, KeepInv(keeper), NEW s \in Callers, CommitUnit(s),
         NEW t \in Callers \ {s}, NEW u, u = unit[t].writes, NEW p, p = unit[t].pc,
         NEW c, c = unit[t].corrected, Committing(t)
  PROVE  KeepFits(u, t, keeper, p, c)'
<1> DEFINE w == unit[s].writes
<1>1. KeepFits(u, t, keeper, p, c) /\ Correcting(t, keeper)
  BY DEF KeepInv
<1>2. DOMAIN items' = DOMAIN items \cup DOMAIN w.items
  BY CommitIs
<1>3. \A i \in DOMAIN u.items : Quiet(u, i) => Quiet(u, i)'
  BY <1>2 DEF Quiet
<1>4. p = "marked" => t = keeper /\ c # <<>>
  BY <1>1 DEF Correcting
<1>5. CASE t # keeper
  BY <1>1, <1>3, <1>4, <1>5 DEF KeepFits
<1>6. CASE t = keeper
  <2>1. KeepFits(w, s, keeper, unit[s].pc, unit[s].corrected) /\ s # keeper
    BY <1>6 DEF KeepInv, Committing, CommitUnit
  <2>2. KeepsStatuses(w) /\ \A i \in DOMAIN w.items : Quiet(w, i)
    BY <2>1 DEF KeepFits
  <2>3. DOMAIN items' = DOMAIN items
    BY <1>2, <2>2 DEF Quiet
  <2>4. \A i \in DOMAIN items : items'[i].basis = items[i].basis /\ items'[i].stale = items[i].stale
    BY <2>2, <2>3, CommitItem
  <2>5. \A r \in DOMAIN runs : r \in DOMAIN runs' /\ runs'[r].from = runs[r].from /\ runs'[r].to = runs[r].to
    BY CommitPeriods
  <2>6. \A k \in DOMAIN att : k \in DOMAIN att' /\ att'[k].status = att[k].status
    BY <2>2, CommitAtt
  <2>7. ASSUME NEW i \in DOMAIN u.items, Tallies(u, i) PROVE Tallies(u, i)'
    <3> DEFINE row == RowAfter(u, i)
               run == RunAfter(u, i[1])
    <3>1. row'.basis = row.basis
      <4>1. CASE i \in DOMAIN items
        <5> DEFINE x == u.items[i]
                   y == items'[i]
        <5>1. DOMAIN items[i] = Columns /\ DOMAIN y = Columns /\ y.basis = items[i].basis
          <6>1. DOMAIN items'[i] = Columns
            BY <2>3, <4>1, CommitTables DEF TablesOK, ItemRow, Columns
          <6> QED BY <2>4, <4>1, <6>1, ItemFacts
        <5>2. row = Overwritten(items[i], x) /\ row' = Overwritten(y, x)
          BY <2>3, <4>1 DEF RowAfter
        <5> HIDE DEF x, y, row
        <5> QED BY <5>1, <5>2 DEF Overwritten, Columns
      <4>2. CASE i \notin DOMAIN items
        BY <2>3, <4>2 DEF RowAfter
      <4> QED BY <4>1, <4>2
    <3>2. run'.from = run.from /\ run'.to = run.to
      <4>1. CASE i[1] \in DOMAIN runs
        BY <2>5, <4>1 DEF RunAfter
      <4>2. CASE i[1] \notin DOMAIN runs
        <5>1. i[1] \in DOMAIN u.runs
          BY <4>2 DEF IInv, SessOK, WritesOK, ItemWritesOK
        <5>2. i[1] \notin DOMAIN w.runs
          BY <4>2, <5>1 DEF PeriodInv, NewRunsOf
        <5>3. DOMAIN runs' = DOMAIN runs \cup DOMAIN w.runs
          BY CommitRuns
        <5> QED BY <4>2, <5>2, <5>3 DEF RunAfter
      <4> QED BY <4>1, <4>2
    <3>3. \A d \in DOMAIN row.basis :
            /\ d \in run.from..run.to
            /\ <<i[2], d>> \in DOMAIN att /\ row.basis[d] = att[<<i[2], d>>].status
      BY <2>7 DEF Tallies
    <3> HIDE DEF row, run
    <3>4. \A d \in DOMAIN row'.basis :
            /\ d \in run'.from..run'.to
            /\ <<i[2], d>> \in DOMAIN att' /\ row'.basis[d] = att'[<<i[2], d>>].status
      BY <2>6, <3>1, <3>2, <3>3
    <3> QED BY <3>4 DEF Tallies, row, run
  <2>8. Covering(c[1], c[2])' = Covering(c[1], c[2])
    BY <2>3, <2>5, ItemFacts DEF Covering, DaysOf
  <2>9. \A i \in Covering(c[1], c[2]) : items'[i].stale = items[i].stale
    BY <2>4 DEF Covering
  <2>10. \A i \in DOMAIN u.items : Quiet(u, i) \/ Tallies(u, i) => (Quiet(u, i) \/ Tallies(u, i))'
    BY <1>3, <2>7
  <2> QED BY <1>1, <1>6, <2>3, <2>8, <2>9, <2>10 DEF KeepFits, KeepsStatuses
<1> QED BY <1>5, <1>6

LEMMA CommitKeepsKeep ==
  ASSUME IInv, PeriodInv, NEW keeper, KeepInv(keeper), NEW s \in Callers, CommitUnit(s)
  PROVE  KeepInv(keeper)'
<1>1. unit'[s].pc \in {"idle", "mark"} /\ \A t \in Callers \ {s} : unit'[t] = unit[t]
  BY CommitIs
<1>2. ASSUME NEW t \in Callers PROVE Correcting(t, keeper)'
  <2>1. CASE t = s
    <3>1. Correcting(s, keeper)
      BY DEF KeepInv
    <3> QED BY <2>1, <3>1, CommitSession DEF Correcting
  <2>2. CASE t # s
    BY <1>1, <2>2 DEF KeepInv, Correcting
  <2> QED BY <2>1, <2>2
<1>3. ASSUME NEW t \in Callers, NEW u, NEW p, NEW c, u = unit'[t].writes, p = unit'[t].pc,
             c = unit'[t].corrected, Committing(t)'
      PROVE  KeepFits(u, t, keeper, p, c)'
  <2>1. t \in Callers \ {s} /\ unit'[t] = unit[t]
    BY <1>1, <1>3 DEF Committing
  <2>2. u = unit[t].writes /\ p = unit[t].pc /\ c = unit[t].corrected /\ Committing(t)
    BY <1>3, <2>1 DEF Committing
  <2> QED BY <2>1, <2>2, CommitKeepsFits
<1> QED BY <1>2, <1>3, CommitKeepsStep DEF KeepInv

LEMMA NextKeep ==
  ASSUME IInv, PeriodInv, NEW keeper, OneKeeper(keeper), KeepInv(keeper), [PayrollNext]_payrollVars
  PROVE  KeepInv(keeper)'
<1>1. CASE PayrollNext
  <2>1. RunsWhole
    BY DEF PeriodInv
  <2>2. PICK s \in Callers :
           \/ PlansFit(s)
           \/ \E k \in DOMAIN att, status \in Corrections : Correct(s, k, status)
           \/ MarkStale(s) \/ CommitUnit(s) \/ DropUnit(s)
    BY <1>1, <2>1, NextFits
  <2> QED BY <2>2, PlanKeepsKeep, CorrectionKeepsKeep, CommitKeepsKeep, AbortKeepsKeep
<1>2. CASE UNCHANGED payrollVars
  <2>1. BasesLie' /\ CorrectionReachesItems'
    BY <1>2 DEF payrollVars, KeepInv, BasesLie, DaysOf, CorrectionReachesItems, BeingMarked
  <2>2. ASSUME NEW s \in Callers
        PROVE  /\ Correcting(s, keeper)'
               /\ (Committing(s) => KeepFits(unit[s].writes, s, keeper, unit[s].pc, unit[s].corrected))'
    BY <1>2
    DEF payrollVars, KeepInv, Correcting, Committing, KeepFits, Quiet, Tallies, RowAfter, RunAfter, Covering, DaysOf
  <2> QED BY <2>1, <2>2 DEF KeepInv
<1> QED BY <1>1, <1>2

(* With one session correcting records and computing items from them, a    *)
(* correction reaches every item computed from the record: unless marked   *)
(* as stale, or about to be, an item tallies the records as they are.      *)
THEOREM CorrectionReaches ==
  ASSUME NEW keeper \in Callers, OneKeeper(keeper)
  PROVE  PayrollSpec => []CorrectionReachesItems
<1>1. PayrollInit => KeepInv(keeper)
  BY InitKeep
<1>2. IInv /\ PeriodInv /\ KeepInv(keeper) /\ [PayrollNext]_payrollVars => KeepInv(keeper)'
  BY NextKeep
<1>3. KeepInv(keeper) => CorrectionReachesItems
  BY DEF KeepInv
<1> QED BY <1>1, <1>2, <1>3, PeriodInvariance, PTL DEF PayrollSpec
=============================================================================
