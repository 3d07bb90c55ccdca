------------------------ MODULE OrderValidationProofs ------------------------
(* Theorems about OrderValidation, for orders of any length, catalogs of    *)
(* any prices and matchers of any accuracy.                                 *)
EXTENDS OrderValidation, TLAPS

(* An unmatched line adds nothing to the sum, a matched one at most 100.    *)
SumBound == tally.confidence <= 100 * (tally.lines - tally.misses)

Undecided == pc \in {"customer", "duplicate", "lines"}

IInv ==
  /\ TypeOK
  /\ SumBound
  /\ Undecided => decision = "escalate"
  /\ decision = "auto_approve" => customer
  /\ FailedChecksDecide
  /\ FewMisses
  /\ SavedOrderIsSound
-----------------------------------------------------------------------------
LEMMA MatchOutcomeRange == \A c \in MatchOutcomes : c \in 0..100
BY ScoreRange DEF MatchOutcomes, MatchSku

LEMMA CheckOutcomeType ==
  \A c \in CheckOutcomes : c.price \in BOOLEAN /\ c.qty \in BOOLEAN /\ c.blank \in BOOLEAN
BY DEF CheckOutcomes

(* The penalty of one failed check is more than the distance of a perfect   *)
(* order from the threshold, however many lines share the mean.             *)
LEMMA PenaltyDecides ==
  ASSUME NEW n \in Nat, NEW f \in Nat, NEW c \in Nat, n > 0, c <= 100 * n
  PROVE  /\ f >= 1 => c - 15 * f * n <= 85 * n
         /\ f >= 2 => c - 15 * f * n <= 70 * n
<1>1. ASSUME NEW k \in Nat, f >= k
      PROVE  c - 15 * f * n <= 100 * n - 15 * (k * n)
  <2>1. PICK g \in Nat : f = k + g
    BY <1>1, f - k \in Nat, f = k + (f - k)
  <2>2. f * n = k * n + g * n
    BY <2>1
  <2>3. g * n \in Nat /\ k * n \in Nat /\ f * n \in Nat
    OBVIOUS
  <2>4. 15 * f * n = 15 * (f * n)
    OBVIOUS
  <2> QED
    BY <2>2, <2>3, <2>4
<1>2. f >= 1 => c - 15 * f * n <= 85 * n
  BY <1>1
<1>3. f >= 2 => c - 15 * f * n <= 70 * n
  BY <1>1
<1> QED
  BY <1>2, <1>3

LEMMA AddLineBound ==
  ASSUME NEW t \in Tally, t.lines < MaxLines, t.confidence <= 100 * (t.lines - t.misses),
         NEW confidence \in MatchOutcomes, NEW check \in CheckOutcomes,
         AddLine(t, confidence, check).failures <= MaxFailures,
         t.misses <= t.lines
  PROVE  LET u == AddLine(t, confidence, check)
         IN  /\ u \in Tally
             /\ u.confidence <= 100 * (u.lines - u.misses)
<1>1. confidence \in 0..100
  BY MatchOutcomeRange
<1>2. check.price \in BOOLEAN /\ check.qty \in BOOLEAN /\ check.blank \in BOOLEAN
  BY CheckOutcomeType
<1> QED
  BY <1>1, <1>2, Bounds DEF Tally, AddLine, One
-----------------------------------------------------------------------------
LEMMA InitIInv == Init => IInv
<1> SUFFICES ASSUME Init PROVE IInv
  OBVIOUS
<1>1. tally \in Tally
  BY Bounds DEF Init, Tally, EmptyTally
<1>2. SumBound /\ FailedChecksDecide /\ FewMisses
  BY DEF Init, EmptyTally, SumBound, FailedChecksDecide, FewMisses
<1> QED
  BY <1>1, <1>2 DEF Init, IInv, TypeOK, Undecided, SavedOrderIsSound, Decisions

LEMMA NextIInv == IInv /\ [Next]_vars => IInv'
<1> SUFFICES ASSUME IInv, [Next]_vars
             PROVE  IInv'
  OBVIOUS
<1> USE DEF IInv, TypeOK, SumBound, Undecided, FailedChecksDecide, FewMisses,
            SavedOrderIsSound
<1>1. CASE ResolveCustomer
  BY <1>1 DEF ResolveCustomer
<1>2. CASE FindDuplicate
  BY <1>2 DEF FindDuplicate
<1>3. CASE ValidateLine
  <2>1. PICK confidence \in MatchOutcomes, check \in CheckOutcomes :
          /\ tally' = AddLine(tally, confidence, check)
          /\ tally'.failures <= MaxFailures
    BY <1>3 DEF ValidateLine
  <2>2. tally \in Tally /\ tally.lines < MaxLines /\ tally.misses <= tally.lines
    BY <1>3, Bounds DEF ValidateLine, Tally
  <2>3. tally' \in Tally /\ SumBound'
    BY <2>1, <2>2, AddLineBound
  <2> QED
    BY <1>3, <2>3 DEF ValidateLine
<1>4. CASE Route
  <2> DEFINE n == tally.lines  f == tally.failures  c == tally.confidence
             m == tally.misses
  <2>1. n \in Nat /\ f \in Nat /\ c \in Nat /\ m \in Nat
    BY Bounds DEF Tally
  <2>2. /\ decision' \in Decisions
        /\ decision' = "auto_approve" => customer /\ n > 0 /\ c - 15 * f * n >= 95 * n
        /\ decision' = "clarify" => n > 0 /\ c - 15 * f * n >= 80 * n
    BY <1>4 DEF Route, Decide, Decisions, Aggregate
  <2>3. c <= 100 * n
    BY <2>1
  <2>4. f >= 1 => decision' # "auto_approve"
    BY <2>1, <2>2, <2>3, PenaltyDecides
  <2>5. f >= 2 => decision' = "escalate"
    <3>1. ASSUME f >= 2, n > 0 PROVE c - 15 * f * n < 80 * n
      BY <2>1, <2>3, <3>1, PenaltyDecides
    <3>2. f >= 2 => decision' # "clarify"
      BY ONLY <2>1, <2>2, <3>1, 15 * f * n \in Int
    <3> QED
      BY ONLY <2>1, <2>2, <2>4, <3>2 DEF Decisions
  <2>6. decision' = "auto_approve" => 20 * m <= n
    <3> SUFFICES ASSUME decision' = "auto_approve" PROVE 20 * m <= n
      OBVIOUS
    <3>1. f = 0
      BY <2>1, <2>4
    <3>2. c >= 95 * n
      BY <2>1, <2>2, <3>1
    <3> QED
      BY <2>1, <3>2
  <2> QED
    BY <1>4, <2>2, <2>4, <2>5, <2>6 DEF Route
<1>5. CASE Save
  BY <1>5, Bounds DEF Save, Buildable, Tally
<1>6. CASE UNCHANGED vars
  BY <1>6 DEF vars
<1> QED
  BY <1>1, <1>2, <1>3, <1>4, <1>5, <1>6 DEF Next

LEMMA AlwaysIInv == Spec => []IInv
BY InitIInv, NextIInv, PTL DEF Spec

THEOREM TypeCorrect == Spec => []TypeOK
BY AlwaysIInv, PTL DEF IInv

(* One failed price or quantity check keeps an order of any length out of   *)
(* AUTO_APPROVE, and two of them escalate it.                               *)
THEOREM FailedChecksAlwaysDecide == Spec => []FailedChecksDecide
BY AlwaysIInv, PTL DEF IInv

(* An approved order has at most one unmatched line in twenty.              *)
THEOREM MissesAreFew == Spec => []FewMisses
BY AlwaysIInv, PTL DEF IInv

(* No order is saved but for a known customer, with every line matched,     *)
(* checked and of a positive whole quantity.                                *)
THEOREM SavedOrdersAreSound == Spec => []SavedOrderIsSound
BY AlwaysIInv, PTL DEF IInv
=============================================================================
