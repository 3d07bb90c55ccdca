--------------------------- MODULE OrderValidation ---------------------------
(***************************************************************************)
(* OrderValidator.validate and what IntakeCoordinator.process makes of its *)
(* answer, for one purchase order: resolve the customer, look for a        *)
(* duplicate, match and check line after line, score, decide, and build    *)
(* the record.  Confidences, quantities and prices are in hundredths.      *)
(***************************************************************************)
EXTENDS Integers

CONSTANTS
  MaxLines,    \* bound on the lines of an order
  MaxFailures, \* bound on the failed checks of an order
  Scores,      \* what the fuzzy and the embedding matcher may score, 0 for no candidate
  Quotes,      \* unit prices a line may quote, None if it quotes none
  Catalog,     \* unit prices of the catalog
  Quantities,  \* quantities a line may ask for, None if it names none
  MinOrders,   \* min_order_qty of the products, None if there is no floor
  None

ASSUME Bounds == MaxLines \in Nat \ {0} /\ MaxFailures \in Nat

ASSUME ScoreRange == Scores \subseteq 0..100

ASSUME Amounts ==
  /\ Quotes \ {None} \subseteq Int /\ Catalog \subseteq Int
  /\ Quantities \ {None} \subseteq Int /\ MinOrders \ {None} \subseteq Nat

VARIABLES
  pc,        \* "customer", "duplicate", "lines", "decided", "saved" or "raised"
  customer,  \* the customer name resolved to a master record
  tally,     \* the validated lines, summed up
  decision   \* the routing decision

vars == <<pc, customer, tally, decision>>

Decisions == {"auto_approve", "clarify", "escalate"}

(* Sum of the match confidences, failed price and quantity checks, lines    *)
(* without a matched_sku, and whether a quantity is no OrderLine quantity.  *)
Tally ==
  [lines: 0..MaxLines, confidence: 0..(100 * MaxLines), failures: 0..MaxFailures,
   misses: 0..MaxLines, blank: BOOLEAN]

TypeOK ==
  /\ pc \in {"customer", "duplicate", "lines", "decided", "saved", "raised"}
  /\ customer \in BOOLEAN
  /\ tally \in Tally
  /\ decision \in Decisions
-----------------------------------------------------------------------------
(* check_price: a missing quote is fine, a quote more than 10% off is not.  *)
CheckPrice(quoted, catalog) ==
  \/ quoted = None
  \/ /\ catalog > 0 /\ quoted > 0
     /\ 10 * (quoted - catalog) \in -catalog .. catalog

(* check_qty: present, positive, in a known unit, and not below the floor   *)
(* when it is in the base unit, which a line without a unit is.             *)
CheckQty(quantity, uom, floor) ==
  /\ quantity # None
  /\ quantity > 0
  /\ uom \in {None, "base", "alt"}
  /\ uom # "alt" /\ floor # None => quantity >= floor

(* int(quantity or 0), which OrderLine requires to be positive.             *)
IsBlank(quantity) == quantity = None \/ quantity < 100

(* What the two checks, and the conversion of the quantity, may come to.    *)
CheckOutcomes ==
  {c \in [price: BOOLEAN, qty: BOOLEAN, blank: BOOLEAN] :
     \E quoted \in Quotes, catalog \in Catalog, quantity \in Quantities,
        uom \in {None, "base", "alt", "unknown"}, floor \in MinOrders :
       /\ c.price <=> CheckPrice(quoted, catalog)
       /\ c.qty <=> CheckQty(quantity, uom, floor)
       /\ c.blank <=> IsBlank(quantity)}

(* Mutant: tier 2 returns the score, not the score over 100.                *)
MatchSkuUnscaled(exact, fuzzy, embedding) ==
  CASE exact -> 100
    [] ~exact /\ fuzzy >= 85 -> 100 * fuzzy
    [] ~exact /\ fuzzy < 85 /\ embedding >= 70 -> embedding
    [] OTHER -> 0

(* match_sku, its confidence: the first tier that hits.  Zero is a miss.    *)
MatchSku(exact, fuzzy, embedding) ==
  CASE exact -> 100
    [] ~exact /\ fuzzy >= 85 -> fuzzy
    [] ~exact /\ fuzzy < 85 /\ embedding >= 70 -> embedding
    [] OTHER -> 0

MatchOutcomes ==
  {MatchSku(exact, fuzzy, embedding) :
     exact \in BOOLEAN, fuzzy \in Scores, embedding \in Scores}

One(condition) == IF condition THEN 1 ELSE 0

(* A line that matched nothing is not checked, and fails no check.          *)
AddLine(t, confidence, check) ==
  LET missed == confidence = 0
  IN  [lines |-> t.lines + 1,
       confidence |-> t.confidence + confidence,
       failures |-> IF missed THEN t.failures
                    ELSE t.failures + One(~check.price) + One(~check.qty),
       misses |-> t.misses + One(missed),
       blank |-> t.blank \/ check.blank]

EmptyTally ==
  [lines |-> 0, confidence |-> 0, failures |-> 0, misses |-> 0, blank |-> FALSE]

(* Mutant: each penalty is taken from its line, before the mean.            *)
AggregatePenaltyInMean(t) == t.confidence - 15 * t.failures

(* aggregate, times the number of lines: mean confidence less 0.15 for each *)
(* failed check.  Clamping to [0, 1] moves no value across a threshold.     *)
Aggregate(t) == t.confidence - 15 * t.failures * t.lines

(* Mutant: AUTO_THRESHOLD is inclusive of the clarify band.                 *)
DecideLenient(t) ==
  {d \in Decisions :
     CASE d = "auto_approve" -> t.lines > 0 /\ Aggregate(t) >= 80 * t.lines
       [] d = "clarify"      -> FALSE
       [] d = "escalate"     -> t.lines = 0 \/ Aggregate(t) <= 80 * t.lines}

(* decide.  The code computes in floating point: a score that equals a      *)
(* threshold may come out on either side of it (0.95 - 0.15 is below 0.80). *)
Decide(t) ==
  {d \in Decisions :
     CASE d = "auto_approve" -> t.lines > 0 /\ Aggregate(t) >= 95 * t.lines
       [] d = "clarify"      -> /\ t.lines > 0
                                /\ Aggregate(t) >= 80 * t.lines
                                /\ Aggregate(t) <= 95 * t.lines
       [] d = "escalate"     -> t.lines = 0 \/ Aggregate(t) <= 80 * t.lines}
-----------------------------------------------------------------------------
(* Without a customer there is nothing to compare for duplicates.           *)
ResolveCustomer ==
  /\ pc = "customer"
  /\ customer' \in BOOLEAN
  /\ pc' = IF customer' THEN "duplicate" ELSE "lines"
  /\ UNCHANGED <<tally, decision>>

(* A duplicate leaves at once, escalated (as the decision still is) and with *)
(* no lines.                                                                *)
FindDuplicate ==
  /\ pc = "duplicate"
  /\ \/ pc' = "lines"
     \/ pc' = "decided"
  /\ UNCHANGED <<customer, tally, decision>>

ValidateLine ==
  /\ pc = "lines" /\ tally.lines < MaxLines
  /\ \E confidence \in MatchOutcomes, check \in CheckOutcomes :
       /\ tally' = AddLine(tally, confidence, check)
       /\ tally'.failures <= MaxFailures
  /\ UNCHANGED <<pc, customer, decision>>

(* The score is computed either way; an unresolved customer overrides it.   *)
Route ==
  /\ pc = "lines"
  /\ pc' = "decided"
  /\ decision' \in (IF customer THEN Decide(tally) ELSE {"escalate"})
  /\ UNCHANGED <<customer, tally>>

(* Mutant: the two asserts on matched_sku and product are stripped.         *)
BuildableUnasserted(t) == ~t.blank

(* _build_order_lines: a line without a sku fails an assertion, a quantity  *)
(* that truncates to zero fails the validation of OrderLine.                *)
Buildable(t) == t.misses = 0 /\ ~t.blank

(* process: an order that cannot be built raises, and nothing is saved.     *)
Save ==
  /\ pc = "decided"
  /\ pc' = IF decision = "auto_approve" /\ ~Buildable(tally) THEN "raised" ELSE "saved"
  /\ UNCHANGED <<customer, tally, decision>>
-----------------------------------------------------------------------------
Init ==
  /\ pc = "customer"
  /\ customer = FALSE
  /\ tally = EmptyTally
  /\ decision = "escalate"

Next == ResolveCustomer \/ FindDuplicate \/ ValidateLine \/ Route \/ Save

Spec == Init /\ [][Next]_vars
-----------------------------------------------------------------------------
(* scorer.py: one failed check takes an order of any size and any match     *)
(* quality out of AUTO, and two push it through to ESCALATE: no number of   *)
(* perfect lines makes up for a wrong price or quantity.                    *)
FailedChecksDecide ==
  /\ tally.failures >= 1 => decision # "auto_approve"
  /\ tally.failures >= 2 => decision = "escalate"

(* What the thresholds do promise of unmatched lines: an approved order has *)
(* at most one in twenty, so that an order of fewer lines has none.         *)
FewMisses == decision = "auto_approve" => 20 * tally.misses <= tally.lines

(* An order reaches `orders' only for a known customer and with every line  *)
(* matched, checked and countable, whatever the score made of it.           *)
SavedOrderIsSound ==
  pc = "saved" /\ decision = "auto_approve" =>
    /\ customer
    /\ tally.misses = 0 /\ tally.failures = 0 /\ ~tally.blank

(* "a single unmatched line should not auto-approve" (scorer.py), which     *)
(* _build_order_lines asserts as the "AUTO_APPROVE invariant".              *)
UnmatchedNotApproved == decision = "auto_approve" => tally.misses = 0
=============================================================================
