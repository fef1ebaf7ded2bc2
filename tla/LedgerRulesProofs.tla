-------------------------- MODULE LedgerRulesProofs --------------------------
(***************************************************************************)
(* Lemmas about the sums of LedgerRules, for every table and every finite  *)
(* set of rows.  SumOf folds over a set in whatever order CHOOSE picks;    *)
(* the lemmas say that the order does not matter and how a sum moves when  *)
(* a row is added, removed, left out or changed.                           *)
(***************************************************************************)
EXTENDS LedgerRules, FiniteSetTheorems, TLAPS

(* Induction over the subsets of a finite set, with the predicate given as *)
(* the set of those it holds of.                                           *)
LEMMA SubsetInduction ==
  ASSUME NEW S, IsFiniteSet(S), NEW Good,
         \A T \in SUBSET S : (\A U \in SUBSET T : U # T => U \in Good) => T \in Good
  PROVE  S \in Good
<1> DEFINE Bad == {T \in SUBSET S : T \notin Good}
<1>1. SUFFICES ASSUME Bad # {} PROVE FALSE
  BY <1>1
<1>2. IsWellFoundedOn(StrictSubsetOrdering(S), SUBSET S)
  BY FS_StrictSubsetOrderingWellFounded, FS_FiniteSubsetsOfFinite
<1>3. PICK T \in Bad : \A U \in Bad : <<U, T>> \notin StrictSubsetOrdering(S)
  <2> HIDE DEF Bad
  <2>1. Bad \subseteq SUBSET S
    BY DEF Bad
  <2> QED BY <1>1, <1>2, <2>1, WFMin
<1>4. \A U \in SUBSET T : U # T => U \in Good
  BY <1>3 DEF StrictSubsetOrdering
<1> QED BY <1>3, <1>4

(* f is the recursive function that SumOf evaluates over the subsets of T. *)
Picked(s) == CHOOSE x \in s : TRUE
SumStep(f, rows, s) ==
  IF s = {} THEN 0 ELSE rows[Picked(s)].amount + f[s \ {Picked(s)}]
IsSum(f, rows, T) == f = [s \in SUBSET T |-> SumStep(f, rows, s)]

LEMMA SumOfDef ==
  ASSUME NEW rows, NEW T
  PROVE  SumOf(rows, T) = (CHOOSE f : IsSum(f, rows, T))[T]
BY DEF SumOf, MapThenSumSet, MapThenFoldSet, IsSum, SumStep, Picked

LEMMA PickedIn == ASSUME NEW s, s # {} PROVE Picked(s) \in s
BY DEF Picked

LEMMA SumRestricted ==
  ASSUME NEW rows, NEW T, NEW U \in SUBSET T, NEW f, IsSum(f, rows, T)
  PROVE  IsSum([s \in SUBSET U |-> f[s]], rows, U)
<1> DEFINE g == [s \in SUBSET U |-> f[s]]
<1>1. \A s \in SUBSET U : s \in SUBSET T /\ s \ {Picked(s)} \in SUBSET U
  OBVIOUS
<1>2. \A s \in SUBSET T : f[s] = SumStep(f, rows, s)
  BY DEF IsSum
<1>3. \A s \in SUBSET U : SumStep(f, rows, s) = SumStep(g, rows, s)
  BY <1>1 DEF SumStep
<1>4. g = [s \in SUBSET U |-> SumStep(g, rows, s)]
  BY <1>1, <1>2, <1>3
<1> QED BY <1>4 DEF IsSum

LEMMA SumUnique ==
  ASSUME NEW rows, NEW T, IsFiniteSet(T), NEW f, NEW g,
         IsSum(f, rows, T), IsSum(g, rows, T)
  PROVE  f[T] = g[T]
<1> DEFINE Good == {s \in SUBSET T : f[s] = g[s]}
<1>1. /\ \A s \in SUBSET T : f[s] = SumStep(f, rows, s)
      /\ \A s \in SUBSET T : g[s] = SumStep(g, rows, s)
  BY DEF IsSum
<1>2. ASSUME NEW s \in SUBSET T, \A u \in SUBSET s : u # s => u \in Good
      PROVE  s \in Good
  <2>1. CASE s = {}
    BY <1>1, <2>1 DEF SumStep
  <2>2. CASE s # {}
    <3>1. s \ {Picked(s)} \in Good
      BY <1>2, <2>2, PickedIn
    <3>2. SumStep(f, rows, s) = SumStep(g, rows, s)
      BY <2>2, <3>1 DEF SumStep
    <3> QED BY <1>1, <3>2
  <2> QED BY <2>1, <2>2
<1> HIDE DEF Good
<1>3. T \in Good
  BY <1>2, SubsetInduction
<1> QED BY <1>3 DEF Good

(* Any recursive sum over T agrees with SumOf on the subsets of T.         *)
LEMMA SumCoherent ==
  ASSUME NEW rows, NEW T, IsFiniteSet(T), NEW U \in SUBSET T, NEW f, IsSum(f, rows, T)
  PROVE  f[U] = SumOf(rows, U)
<1> DEFINE g == [s \in SUBSET U |-> f[s]]
           h == CHOOSE e : IsSum(e, rows, U)
<1>1. IsSum(g, rows, U)
  BY SumRestricted
<1>2. IsSum(h, rows, U)
  BY <1>1
<1>3. IsFiniteSet(U)
  BY FS_Subset
<1>4. g[U] = h[U]
  BY <1>1, <1>2, <1>3, SumUnique
<1> QED BY <1>4, SumOfDef

LEMMA SumExists ==
  ASSUME NEW rows, NEW S, IsFiniteSet(S)
  PROVE  \E f : IsSum(f, rows, S)
<1> DEFINE Good == {T \in SUBSET S : \E f : IsSum(f, rows, T)}
<1>1. ASSUME NEW T \in SUBSET S, \A U \in SUBSET T : U # T => U \in Good
      PROVE  T \in Good
  <2> DEFINE F == [s \in SUBSET T |-> SumOf(rows, s)]
             h == [s \in SUBSET T |-> SumStep(F, rows, s)]
  <2>1. IsFiniteSet(T)
    BY FS_Subset
  <2>2. ASSUME NEW u \in SUBSET T, u # T
        PROVE  h[u] = SumOf(rows, u)
    <3>1. PICK f : IsSum(f, rows, u)
      BY <1>1, <2>2
    <3>2. IsFiniteSet(u)
      BY <2>1, FS_Subset
    <3>3. f[u] = SumOf(rows, u)
      BY <3>1, <3>2, SumCoherent
    <3>4. f[u \ {Picked(u)}] = SumOf(rows, u \ {Picked(u)})
      BY <3>1, <3>2, SumCoherent
    <3>5. f[u] = SumStep(f, rows, u)
      BY <3>1 DEF IsSum
    <3>6. SumStep(f, rows, u) = SumStep(F, rows, u)
      BY <3>4 DEF SumStep
    <3> QED BY <3>3, <3>5, <3>6
  <2>3. ASSUME NEW s \in SUBSET T PROVE SumStep(F, rows, s) = SumStep(h, rows, s)
    <3>1. CASE s = {}
      BY <3>1 DEF SumStep
    <3>2. CASE s # {}
      <4>1. s \ {Picked(s)} \in SUBSET T /\ s \ {Picked(s)} # T
        BY <3>2, PickedIn
      <4>2. h[s \ {Picked(s)}] = F[s \ {Picked(s)}]
        BY <2>2, <4>1
      <4> HIDE DEF h, F
      <4> QED BY <3>2, <4>2 DEF SumStep
    <3> QED BY <3>1, <3>2
  <2>4. h = [s \in SUBSET T |-> SumStep(h, rows, s)]
    BY <2>3
  <2>5. IsSum(h, rows, T)
    BY <2>4 DEF IsSum
  <2> HIDE DEF h
  <2> QED BY <2>5
<1> HIDE DEF Good
<1>2. S \in Good
  BY <1>1, SubsetInduction
<1> QED BY <1>2 DEF Good

LEMMA SumUnfold ==
  ASSUME NEW rows, NEW S, IsFiniteSet(S)
  PROVE  /\ S = {} => SumOf(rows, S) = 0
         /\ S # {} => /\ Picked(S) \in S
                      /\ SumOf(rows, S) = rows[Picked(S)].amount + SumOf(rows, S \ {Picked(S)})
<1>1. PICK f : IsSum(f, rows, S)
  BY SumExists
<1>2. f[S] = SumOf(rows, S) /\ f[S \ {Picked(S)}] = SumOf(rows, S \ {Picked(S)})
  BY <1>1, SumCoherent
<1>3. f[S] = SumStep(f, rows, S)
  BY <1>1 DEF IsSum
<1> QED BY <1>2, <1>3, PickedIn DEF SumStep

-----------------------------------------------------------------------------
(* What the ledger proofs use: the sum of nothing is 0; a sum of rupees is *)
(* a natural number; any row of the set may be taken out first.            *)
LEMMA SumEmpty == ASSUME NEW rows PROVE SumOf(rows, {}) = 0
BY SumUnfold, FS_EmptySet

LEMMA SumNat ==
  ASSUME NEW rows, NEW S, IsFiniteSet(S), \A r \in S : rows[r].amount \in Nat
  PROVE  SumOf(rows, S) \in Nat
<1> DEFINE Good == {T \in SUBSET S : SumOf(rows, T) \in Nat}
<1>1. ASSUME NEW T \in SUBSET S, \A U \in SUBSET T : U # T => U \in Good
      PROVE  T \in Good
  <2>1. IsFiniteSet(T)
    BY FS_Subset
  <2>2. T # {} => T \ {Picked(T)} \in Good
    BY <1>1, <2>1, SumUnfold
  <2>3. T # {} => SumOf(rows, T) = rows[Picked(T)].amount + SumOf(rows, T \ {Picked(T)})
                  /\ Picked(T) \in T
    BY <2>1, SumUnfold
  <2> QED BY <2>1, <2>2, <2>3, SumUnfold
<1> HIDE DEF Good
<1>2. S \in Good
  BY <1>1, SubsetInduction
<1> QED BY <1>2 DEF Good

LEMMA SumTakeOut ==
  ASSUME NEW rows, NEW S, IsFiniteSet(S), \A r \in S : rows[r].amount \in Nat,
         NEW x \in S
  PROVE  SumOf(rows, S) = rows[x].amount + SumOf(rows, S \ {x})
<1> DEFINE Good == {T \in SUBSET S : \A y \in T :
                      SumOf(rows, T) = rows[y].amount + SumOf(rows, T \ {y})}
<1>1. ASSUME NEW T \in SUBSET S, \A U \in SUBSET T : U # T => U \in Good
      PROVE  T \in Good
  <2> SUFFICES ASSUME NEW y \in T
               PROVE  SumOf(rows, T) = rows[y].amount + SumOf(rows, T \ {y})
    OBVIOUS
  <2>0. PICK c : c = Picked(T)
    OBVIOUS
  <2>1. IsFiniteSet(T) /\ IsFiniteSet(T \ {c}) /\ IsFiniteSet(T \ {y})
        /\ IsFiniteSet((T \ {c}) \ {y})
    BY FS_Subset
  <2>2. c \in T /\ SumOf(rows, T) = rows[c].amount + SumOf(rows, T \ {c})
    BY <2>0, <2>1, SumUnfold
  <2>3. CASE y = c
    BY <2>2, <2>3
  <2>4. CASE y # c
    <3>1. T \ {c} \in Good /\ T \ {y} \in Good
      BY <1>1, <2>2
    <3>2. SumOf(rows, T \ {c}) = rows[y].amount + SumOf(rows, (T \ {c}) \ {y})
      BY <2>4, <3>1
    <3>3. SumOf(rows, T \ {y}) = rows[c].amount + SumOf(rows, (T \ {y}) \ {c})
      BY <2>2, <2>4, <3>1
    <3>4. (T \ {y}) \ {c} = (T \ {c}) \ {y}
      OBVIOUS
    <3>5. /\ SumOf(rows, (T \ {c}) \ {y}) \in Nat
          /\ rows[c].amount \in Nat /\ rows[y].amount \in Nat
      BY <2>1, <2>2, SumNat
    <3>6. SumOf(rows, T \ {y}) = rows[c].amount + SumOf(rows, (T \ {c}) \ {y})
      BY <3>3, <3>4
    <3> HIDE DEF Good
    <3> QED BY <2>2, <3>2, <3>5, <3>6
  <2> QED BY <2>3, <2>4
<1> HIDE DEF Good
<1>2. S \in Good
  BY <1>1, SubsetInduction
<1> QED BY <1>2 DEF Good

(* Adding a row, or a row that adds nothing to what was there.             *)
LEMMA SumPutIn ==
  ASSUME NEW rows, NEW S, NEW x, IsFiniteSet(S), x \notin S,
         \A r \in S \cup {x} : rows[r].amount \in Nat
  PROVE  SumOf(rows, S \cup {x}) = rows[x].amount + SumOf(rows, S)
<1>1. IsFiniteSet(S \cup {x}) /\ (S \cup {x}) \ {x} = S
  BY FS_AddElement
<1> QED BY <1>1, SumTakeOut

(* Two tables that agree on the rows of S have the same sum over S.        *)
LEMMA SumAgrees ==
  ASSUME NEW rows, NEW other, NEW S, IsFiniteSet(S),
         \A r \in S : other[r].amount = rows[r].amount
  PROVE  SumOf(other, S) = SumOf(rows, S)
<1> DEFINE Good == {T \in SUBSET S : SumOf(other, T) = SumOf(rows, T)}
<1>1. ASSUME NEW T \in SUBSET S, \A U \in SUBSET T : U # T => U \in Good
      PROVE  T \in Good
  <2>1. IsFiniteSet(T)
    BY FS_Subset
  <2>2. CASE T = {}
    BY <2>2, SumEmpty
  <2>3. CASE T # {}
    <3>1. Picked(T) \in T /\ T \ {Picked(T)} \in Good
      BY <1>1, <2>1, <2>3, SumUnfold
    <3>2. /\ SumOf(rows, T) = rows[Picked(T)].amount + SumOf(rows, T \ {Picked(T)})
          /\ SumOf(other, T) = other[Picked(T)].amount + SumOf(other, T \ {Picked(T)})
      BY <2>1, <2>3, SumUnfold
    <3> QED BY <3>1, <3>2
  <2> QED BY <2>2, <2>3
<1> HIDE DEF Good
<1>2. S \in Good
  BY <1>1, SubsetInduction
<1> QED BY <1>2 DEF Good

(* Leaving rows out never makes a sum larger.                              *)
LEMMA SumMonotonic ==
  ASSUME NEW rows, NEW S, IsFiniteSet(S), \A r \in S : rows[r].amount \in Nat,
         NEW U \in SUBSET S
  PROVE  SumOf(rows, U) <= SumOf(rows, S)
<1> DEFINE Good == {T \in SUBSET S : \A V \in SUBSET T : SumOf(rows, V) <= SumOf(rows, T)}
<1>1. ASSUME NEW T \in SUBSET S, \A W \in SUBSET T : W # T => W \in Good
      PROVE  T \in Good
  <2> SUFFICES ASSUME NEW V \in SUBSET T PROVE SumOf(rows, V) <= SumOf(rows, T)
    OBVIOUS
  <2>1. IsFiniteSet(T) /\ SumOf(rows, T) \in Nat
    BY FS_Subset, SumNat
  <2>2. CASE V = T
    BY <2>1, <2>2
  <2>3. CASE V # T
    <3>1. PICK x \in T : x \notin V
      BY <2>3
    <3>2. T \ {x} \in Good /\ V \in SUBSET (T \ {x})
      BY <1>1, <3>1
    <3>3. SumOf(rows, V) <= SumOf(rows, T \ {x})
      BY <3>2
    <3>4. SumOf(rows, T) = rows[x].amount + SumOf(rows, T \ {x})
      BY <2>1, SumTakeOut
    <3>5. IsFiniteSet(T \ {x}) /\ IsFiniteSet(V)
      BY <2>1, FS_Subset
    <3>6. SumOf(rows, T \ {x}) \in Nat /\ SumOf(rows, V) \in Nat /\ rows[x].amount \in Nat
      BY <3>5, SumNat
    <3> QED BY <3>3, <3>4, <3>6
  <2> QED BY <2>2, <2>3
<1> HIDE DEF Good
<1>2. S \in Good
  BY <1>1, SubsetInduction
<1> QED BY <1>2 DEF Good

LEMMA SumDisjoint ==
  ASSUME NEW rows, NEW S, NEW R, IsFiniteSet(S), IsFiniteSet(R), S \cap R = {},
         \A r \in S \cup R : rows[r].amount \in Nat
  PROVE  SumOf(rows, S \cup R) = SumOf(rows, S) + SumOf(rows, R)
<1> DEFINE Good == {T \in SUBSET R : SumOf(rows, S \cup T) = SumOf(rows, S) + SumOf(rows, T)}
<1>1. ASSUME NEW T \in SUBSET R, \A U \in SUBSET T : U # T => U \in Good
      PROVE  T \in Good
  <2>1. IsFiniteSet(T) /\ IsFiniteSet(S \cup T) /\ SumOf(rows, S) \in Nat
    BY FS_Subset, FS_Union, SumNat
  <2>2. CASE T = {}
    <3>1. S \cup T = S /\ SumOf(rows, T) = 0
      BY <2>2, SumEmpty
    <3>2. SumOf(rows, S \cup T) = SumOf(rows, S) /\ SumOf(rows, S) + 0 = SumOf(rows, S)
      BY <2>1, <3>1
    <3> QED BY <3>1, <3>2
  <2>3. CASE T # {}
    <3>1. PICK x : x \in T
      BY <2>3
    <3>2. T \ {x} \in Good /\ IsFiniteSet(T \ {x})
      BY <1>1, <2>1, <3>1, FS_Subset
    <3>3. SumOf(rows, T) = rows[x].amount + SumOf(rows, T \ {x})
      BY <2>1, <3>1, SumTakeOut
    <3>4. SumOf(rows, S \cup T) = rows[x].amount + SumOf(rows, S \cup (T \ {x}))
      <4>1. (S \cup T) \ {x} = S \cup (T \ {x})
        BY <3>1
      <4> QED BY <2>1, <3>1, <4>1, SumTakeOut
    <3>5. SumOf(rows, T \ {x}) \in Nat /\ rows[x].amount \in Nat
      BY <3>1, <3>2, SumNat
    <3>6. SumOf(rows, S \cup (T \ {x})) = SumOf(rows, S) + SumOf(rows, T \ {x})
      BY <3>2
    <3> HIDE DEF Good
    <3>7. SumOf(rows, S \cup T) = SumOf(rows, S) + SumOf(rows, T)
      BY <2>1, <3>3, <3>4, <3>5, <3>6
    <3> QED BY <3>7 DEF Good
  <2> QED BY <2>2, <2>3
<1> HIDE DEF Good
<1>2. R \in Good
  BY <1>1, SubsetInduction
<1> QED BY <1>2 DEF Good

-----------------------------------------------------------------------------
(* A ledger of charges only: a charge that became "refunded" counts on     *)
(* both sides of the balance, so what is paid is the sum of the paid rows. *)
LEMMA NetOfCharges ==
  ASSUME NEW rows, NEW S, IsFiniteSet(S),
         \A r \in S : rows[r].amount \in Nat /\ ~IsRefund(rows[r])
  PROVE  /\ TotalPaid(rows, S) = SumOf(rows, {r \in S : rows[r].status = "paid"})
         /\ TotalPaid(rows, S) \in Nat
<1> DEFINE P == {r \in S : rows[r].status = "paid"}
           R == {r \in S : rows[r].status = "refunded"}
<1>1. /\ {r \in S : ~IsRefund(rows[r]) /\ Settled(rows[r])} = P \cup R
      /\ {r \in S : \/ IsRefund(rows[r]) /\ Settled(rows[r])
                    \/ ~IsRefund(rows[r]) /\ rows[r].status = "refunded"} = R
  BY DEF Settled
<1>2. GrossPaid(rows, S) = SumOf(rows, P \cup R) /\ RefundedAmount(rows, S) = SumOf(rows, R)
  BY <1>1 DEF GrossPaid, RefundedAmount
<1>3. /\ IsFiniteSet(P) /\ IsFiniteSet(R) /\ P \cap R = {}
      /\ SumOf(rows, P) \in Nat /\ SumOf(rows, R) \in Nat
  BY FS_Subset, SumNat
<1> HIDE DEF P, R
<1>4. SumOf(rows, P \cup R) = SumOf(rows, P) + SumOf(rows, R)
  BY <1>3, SumDisjoint DEF P, R
<1>5. TotalPaid(rows, S) = SumOf(rows, P)
  BY <1>2, <1>3, <1>4 DEF TotalPaid, NonNegative
<1> QED BY <1>3, <1>5 DEF P

(* The server derives at most one amount: the client is never offered two  *)
(* intents at once, and the one offered is positive and fits the quote.    *)
THEOREM OneIntent ==
  ASSUME NEW quote, ValidQuote(quote), NEW reqStatus, NEW paid \in Nat,
         NEW i \in PaymentIntents(quote, reqStatus, paid)
  PROVE  /\ \A j \in PaymentIntents(quote, reqStatus, paid) : j = i
         /\ i.amount \in Nat \ {0}
         /\ paid + i.amount <= quote.total
         /\ i.purpose = "advance" => paid + i.amount = quote.advance
         /\ i.purpose = "balance" => paid + i.amount = quote.total /\ quote.advance <= paid
BY DEF PaymentIntents, ValidQuote, AdvanceDue, Outstanding, NonNegative
=============================================================================
