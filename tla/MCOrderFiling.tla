--------------------------- MODULE MCOrderFiling ---------------------------
(* A small instance of the filing of orders for TLC.                       *)
EXTENDS OrderFiling, TLC

CONSTANTS e1, e2, e3, e4, s1, s2, k1, k2, n1, n2, p1, t1, t2, srv, piece, box

(* s1 gets dearer in the second file, which no longer names s2.             *)
Prices == <<[s \in Skus |-> 100], [s \in Skus |-> IF s = s1 THEN 200 ELSE None]>>

Named(n, aliases) == [names |-> {n}, aliases |-> aliases]

(* In the second file k1 has another name and the name n1 is k2's, which     *)
(* means s1 when it writes s2.                                              *)
Rosters ==
  <<[k \in CustomerIds |-> IF k = k1 THEN Named(n1, NoAliases) ELSE None],
    [k \in CustomerIds |-> IF k = k1 THEN Named(n2, NoAliases)
                           ELSE Named(n1, [s \in Skus |-> s1])]>>

L(sku, like, qty, unit, quote) ==
  [sku |-> sku, like |-> like, qty |-> qty, unit |-> unit, quote |-> quote]

(* e1 and e2 share a number and quote prices; e2 only describes what it       *)
(* wants.  e3 asks for as many boxes as e1 for pieces.  e4 says neither who   *)
(* orders nor what.                                                         *)
FourOrders ==
  [e \in Emails |->
     CASE e = e1 -> [name |-> n1, po |-> p1, lines |-> <<L(s2, None, 2, piece, 100)>>]
       [] e = e2 -> [name |-> n1, po |-> p1, lines |-> <<L(None, s1, 1, None, 100)>>]
       [] e = e3 -> [name |-> n1, po |-> None, lines |-> <<L(s2, None, 2, box, None)>>]
       [] OTHER -> [name |-> None, po |-> None,
                    lines |-> <<L(None, None, None, None, None)>>]]

TaskSymmetry == Permutations(Tasks)

OneServer == [t \in Tasks |-> srv]
=============================================================================
