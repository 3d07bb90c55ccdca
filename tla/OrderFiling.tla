---------------------------- MODULE OrderFiling ----------------------------
(***************************************************************************)
(* Orders that arrive over weeks, each validated and filed by a task of    *)
(* some process, while the master data is loaded anew: the duplicate check  *)
(* with its window, the matcher's fresh and cached reads, the caches a      *)
(* process fills once and keeps, the price check and the snapshot that      *)
(* _build_order_lines takes.  An email brings one order here; several of    *)
(* one email are in IntakePipeline, and the arithmetic of the score in      *)
(* OrderValidation.                                                         *)
(***************************************************************************)
EXTENDS MasterData

CONSTANTS
  Tasks,       \* runs that go on at the same time
  Processes,
  ProcessOf,   \* the process of each task
  Emails,
  OrderOf,     \* the order each email brings
  POs,
  Units,       \* unit_of_measure
  Window,      \* DUPLICATE_WINDOW_DAYS
  MaxDay,      \* bound on the days
  MaxRestarts, \* bound on the restarts of processes
  MaxRuns      \* bound on the runs that begin

(* A line names a sku, or describes a product, or both.  Any other field may *)
(* be missing.                                                              *)
Line == [sku: Skus \cup {None}, like: Skus \cup {None}, qty: Nat \cup {None},
         unit: Units \cup {None}, quote: Nat \cup {None}]

Order == [name: CustomerNames \cup {None}, po: POs \cup {None}, lines: Seq(Line)]

ASSUME TaskAssumption == ProcessOf \in [Tasks -> Processes]

(* An order of 20 lines can be approved with one that is not matched: those  *)
(* are in OrderValidation.                                                  *)
ASSUME OrderAssumption ==
  /\ OrderOf \in [Emails -> Order]
  /\ \A e \in Emails : Len(OrderOf[e].lines) < 20
  /\ None \notin Emails \cup POs

ASSUME FilingBounds == Window \in Nat /\ MaxDay \in Nat /\ MaxRestarts \in Nat /\ MaxRuns \in Nat

VARIABLES
  products,    \* version of the collection `products'
  customers,   \* version of the collection `customers'
  cache,       \* of each process: the versions it holds in memory, 0 for none
  born,        \* history: the versions there were when the process started
  today,
  restarts,
  runs,        \* runs that have begun
  orders,      \* the collection `orders'
  exceptions,  \* emails with a document in `exceptions'
  task

vars == <<products, customers, cache, born, today, restarts, runs, orders, exceptions,
          task>>

world == <<products, customers, born, restarts, today>>

filed == <<orders, exceptions>>

Masters == [products: Nat, customers: Nat]

(* A matched line: the sku, and whether its price is right.                 *)
Match == [sku: Skus \cup {None}, ok: BOOLEAN]

(* ProductSnapshot: the sku and price_at_time.                              *)
ProductSnapshot == [sku: Skus, price: Nat]

OrderRecord ==
  [doc: Emails, customer: CustomerIds, lines: Seq(ProductSnapshot), day: Nat]

PCs == {"idle", "fill_roster", "po", "hash", "lines", "fill_catalog",
        "preflight", "build", "refuse", "raised"}

(* The state of a run, with the aliases of its customer as the roster it was *)
(* found in has them; known and since are history: the orders that were on   *)
(* file, and the version of the products, when it began.                    *)
Task ==
  [pc: PCs, msg: Emails \cup {None}, read: Nat, customer: CustomerIds \cup {None},
   aliases: [Skus -> Skus], found: Emails \cup {None}, matches: Seq(Match),
   built: Seq(ProductSnapshot), known: SUBSET Emails, since: Nat]

NoAliases == [s \in Skus |-> s]

NewTask(pc, e, known, since) ==
  [pc |-> pc, msg |-> e, read |-> 0, customer |-> None, aliases |-> NoAliases,
   found |-> None, matches |-> <<>>, built |-> <<>>, known |-> known, since |-> since]

IdleTask == NewTask("idle", None, {}, 0)

TypeOK ==
  /\ products \in Versions /\ customers \in Versions
  /\ cache \in [Processes -> [products: {0} \cup Versions, customers: {0} \cup Versions]]
  /\ born \in [Processes -> Masters]
  /\ today \in 0..MaxDay
  /\ restarts \in 0..MaxRestarts
  /\ runs \in 0..MaxRuns
  /\ orders \subseteq OrderRecord
  /\ exceptions \subseteq Emails
  /\ task \in [Tasks -> Task]
-----------------------------------------------------------------------------
OrderAt(t) == OrderOf[task[t].msg]

Lines(e) == OrderOf[e].lines

OnFile == {o.doc : o \in orders}

(* What the hash takes of a line: the sku as it is written, whatever product *)
(* an alias makes of it, and the quantity, zero when it is missing.  The     *)
(* unit is no part of it.                                                   *)
Goods(line) == [sku |-> line.sku, qty |-> IF line.qty = None THEN 0 ELSE line.qty]

NamedLines(e) == {i \in DOMAIN Lines(e) : Lines(e)[i].sku # None}

(* compute_content_hash, but for the customer: what it takes of the lines    *)
(* that name a sku, in no order.                                            *)
ContentHash(e) ==
  LET named == {Goods(Lines(e)[i]) : i \in NamedLines(e)}
  IN  [g \in named |-> Cardinality({i \in NamedLines(e) : Goods(Lines(e)[i]) = g})]

(* Mutant: the cutoff is exclusive.                                         *)
InWindowExclusive(o) == o.day > today - Window

InWindow(o) == o.day >= today - Window

(* Mutant: the query for the customer's orders is one for all orders.       *)
CandidatesOfAll(t) == {o \in orders : InWindow(o) /\ o.doc # task[t].msg}

(* What both queries of find_duplicate ask for.                             *)
Candidates(t) ==
  {o \in orders : /\ o.customer = task[t].customer
                  /\ InWindow(o)
                  /\ o.doc # task[t].msg}

SamePO(o, e) == OrderOf[e].po # None /\ OrderOf[o.doc].po = OrderOf[e].po

SameContent(o, e) == ContentHash(o.doc) = ContentHash(e)

(* Mutant: the sign of the difference is lost.                              *)
CheckPriceOneSided(quote, price) ==
  quote = None \/ (price > 0 /\ quote > 0 /\ 10 * (quote - price) <= price)

(* check_price: no quote, or one within 10% of the catalog.                 *)
CheckPrice(quote, price) ==
  \/ quote = None
  \/ price > 0 /\ quote > 0 /\ 10 * (quote - price) \in -price .. price

Matched(sku, quote, price) ==
  [sku |-> sku, ok |-> CheckPrice(quote, price)]

(* Mutant: a line that is missed has no result of the price check.          *)
MissedUnchecked == [sku |-> None, ok |-> None]

Missed == [sku |-> None, ok |-> FALSE]

AtLine(t) == Len(task[t].matches) < Len(OrderAt(t).lines)

LineOf(t) == OrderAt(t).lines[Len(task[t].matches) + 1]

(* The sku the customer means by the one on the line.                       *)
Canonical(t) ==
  IF LineOf(t).sku = None THEN None ELSE task[t].aliases[LineOf(t).sku]

(* match_sku below tier 1, in the catalog of version v: a description that   *)
(* is close to a product's, else one whose embedding is.  The embedding is   *)
(* searched for in the collection.                                          *)
MatchDescription(line, v) ==
  CASE GetProduct(v, line.like) # None ->
         Matched(line.like, line.quote, GetProduct(v, line.like))
    [] GetProduct(v, line.like) = None /\ GetProduct(products, line.like) # None ->
         Matched(line.like, line.quote, GetProduct(products, line.like))
    [] OTHER -> Missed

(* The score can reach approval: every line is matched and its price is      *)
(* right.  Whether it does is up to the quantities and the closeness of the  *)
(* matches.                                                                 *)
MayApprove(t) ==
  /\ task[t].customer # None /\ task[t].matches # <<>>
  /\ \A i \in DOMAIN task[t].matches : task[t].matches[i].ok
-----------------------------------------------------------------------------
(* A run begins at its first read of the collections.                       *)
Begins(t, e) ==
  /\ task[t].pc = "idle"
  /\ runs < MaxRuns
  /\ runs' = runs + 1

Began(e) == NewTask("idle", e, OnFile, products)

(* What find_customer_by_name may answer: one of those it finds, or None.    *)
Answers(v, name) ==
  LET found == FindCustomerByName(v, name)
  IN  IF found = {} THEN {None} ELSE found

(* The customer, if the roster at version v has one: next the duplicate      *)
(* check, which an unknown customer is spared.                              *)
Resolved(k, v, id) ==
  [k EXCEPT !.pc = CASE id = None -> "lines"
                     [] id # None /\ OrderOf[k.msg].po # None -> "po"
                     [] OTHER -> "hash",
            !.customer = id,
            !.aliases = IF id = None THEN NoAliases ELSE Customer(v, id).aliases,
            !.read = 0]

(* resolve_customer with the roster in memory; without a name it is not      *)
(* asked for.                                                               *)
ResolveCustomer(t, e) ==
  /\ Begins(t, e)
  /\ cache[ProcessOf[t]].customers # 0 \/ OrderOf[e].name = None
  /\ LET v == cache[ProcessOf[t]].customers
     IN  \E id \in Answers(v, OrderOf[e].name) :
           task' = [task EXCEPT ![t] = Resolved(Began(e), v, id)]
  /\ UNCHANGED <<world, cache, filed>>

(* _list_all_customers, first call: the collection is read, and after the    *)
(* await kept.  Two tasks may both find the cache empty.                    *)
ReadRoster(t, e) ==
  /\ Begins(t, e)
  /\ cache[ProcessOf[t]].customers = 0 /\ OrderOf[e].name # None
  /\ task' = [task EXCEPT ![t] = [Began(e) EXCEPT !.pc = "fill_roster",
                                                 !.read = customers]]
  /\ UNCHANGED <<world, cache, filed>>

FillRoster(t) ==
  /\ task[t].pc = "fill_roster"
  /\ cache' = [cache EXCEPT ![ProcessOf[t]].customers = task[t].read]
  /\ \E id \in Answers(task[t].read, OrderAt(t).name) :
       task' = [task EXCEPT ![t] = Resolved(task[t], task[t].read, id)]
  /\ UNCHANGED <<world, runs, filed>>

(* What a query found: any order of it ends the validation.                 *)
Query(t, hits, next) ==
  \/ \E o \in hits : task' = [task EXCEPT ![t].pc = "preflight", ![t].found = o.doc]
  \/ hits = {} /\ task' = [task EXCEPT ![t].pc = next]

QueryPO(t) ==
  /\ task[t].pc = "po"
  /\ Query(t, {o \in Candidates(t) : SamePO(o, task[t].msg)}, "hash")
  /\ UNCHANGED <<world, runs, cache, filed>>

QueryHash(t) ==
  /\ task[t].pc = "hash"
  /\ Query(t, {o \in Candidates(t) : SameContent(o, task[t].msg)}, "lines")
  /\ UNCHANGED <<world, runs, cache, filed>>

AddMatch(t, match) ==
  task' = [task EXCEPT ![t].pc = "lines", ![t].read = 0, ![t].matches = Append(@, match)]

(* match_sku, tier 1: the document of the sku the customer means, read now.  *)
MatchExact(t) ==
  /\ task[t].pc = "lines" /\ AtLine(t)
  /\ LET price == GetProduct(products, Canonical(t))
     IN  /\ price # None
         /\ AddMatch(t, Matched(Canonical(t), LineOf(t).quote, price))
  /\ UNCHANGED <<world, runs, cache, filed>>

(* Tiers 2 and 3, with the catalog in memory.                               *)
MatchClose(t) ==
  /\ task[t].pc = "lines" /\ AtLine(t)
  /\ GetProduct(products, Canonical(t)) = None
  /\ cache[ProcessOf[t]].products # 0 \/ LineOf(t).like = None
  /\ AddMatch(t, MatchDescription(LineOf(t), cache[ProcessOf[t]].products))
  /\ UNCHANGED <<world, runs, cache, filed>>

(* list_all_products, first call, and what follows its await.               *)
ReadCatalog(t) ==
  /\ task[t].pc = "lines" /\ AtLine(t)
  /\ GetProduct(products, Canonical(t)) = None
  /\ cache[ProcessOf[t]].products = 0 /\ LineOf(t).like # None
  /\ task' = [task EXCEPT ![t].pc = "fill_catalog", ![t].read = products]
  /\ UNCHANGED <<world, runs, cache, filed>>

FillCatalog(t) ==
  /\ task[t].pc = "fill_catalog"
  /\ cache' = [cache EXCEPT ![ProcessOf[t]].products = task[t].read]
  /\ AddMatch(t, MatchDescription(LineOf(t), task[t].read))
  /\ UNCHANGED <<world, runs, filed>>

(* process: a document that is on file ends the run; otherwise the decision  *)
(* chooses the collection.                                                  *)
Preflight(t) ==
  /\ \/ task[t].pc = "lines" /\ ~AtLine(t)
     \/ task[t].pc = "preflight"
  /\ IF task[t].msg \in OnFile \cup exceptions
     THEN task' = [task EXCEPT ![t] = IdleTask]
     ELSE \/ /\ task[t].found = None /\ MayApprove(t)
             /\ task' = [task EXCEPT ![t].pc = "build"]
          \/ task' = [task EXCEPT ![t].pc = "refuse"]
  /\ UNCHANGED <<world, runs, cache, filed>>

(* _build_order_lines, one line: the product is read again, and asserted to  *)
(* be there.                                                                *)
BuildLine(t) ==
  /\ task[t].pc = "build" /\ Len(task[t].built) < Len(task[t].matches)
  /\ LET sku == task[t].matches[Len(task[t].built) + 1].sku
         price == GetProduct(products, sku)
     IN  task' = IF price = None THEN [task EXCEPT ![t].pc = "raised"]
                 ELSE [task EXCEPT ![t].built =
                         Append(@, [sku |-> sku, price |-> price])]
  /\ UNCHANGED <<world, runs, cache, filed>>

(* OrderStore.save: create-once, stamped by the server.                     *)
CreateOrder(t) ==
  /\ task[t].pc = "build" /\ Len(task[t].built) = Len(task[t].matches)
  /\ orders' = IF task[t].msg \in OnFile THEN orders
               ELSE orders \cup
                 {[doc |-> task[t].msg, customer |-> task[t].customer,
                   lines |-> task[t].built, day |-> today]}
  /\ task' = [task EXCEPT ![t] = IdleTask]
  /\ UNCHANGED <<world, runs, cache, exceptions>>

CreateException(t) ==
  /\ task[t].pc = "refuse"
  /\ exceptions' = exceptions \cup {task[t].msg}
  /\ task' = [task EXCEPT ![t] = IdleTask]
  /\ UNCHANGED <<world, runs, cache, orders>>
-----------------------------------------------------------------------------
(* load_master_data.py: one commit for the products, then one for the        *)
(* customers.                                                               *)
LoadProducts ==
  /\ products = customers /\ products < Len(PriceFiles)
  /\ products' = products + 1
  /\ UNCHANGED <<customers, cache, born, today, restarts, runs, filed, task>>

LoadCustomers ==
  /\ customers < products
  /\ customers' = customers + 1
  /\ UNCHANGED <<products, cache, born, today, restarts, runs, filed, task>>

NextDay ==
  /\ today < MaxDay
  /\ today' = today + 1
  /\ UNCHANGED <<products, customers, born, restarts, runs, cache, filed, task>>

NoCache == [products |-> 0, customers |-> 0]

(* Mutant: the cached roster outlives the process.                          *)
ColdCacheKept(p) == [cache[p] EXCEPT !.products = 0]

(* MasterDataRepo.__init__.                                                 *)
ColdCache(p) == NoCache

(* A process dies with its tasks and is started again.                      *)
Restart(p) ==
  /\ restarts < MaxRestarts
  /\ restarts' = restarts + 1
  /\ cache' = [cache EXCEPT ![p] = ColdCache(p)]
  /\ born' = [born EXCEPT ![p] = [products |-> products, customers |-> customers]]
  /\ task' = [t \in Tasks |-> IF ProcessOf[t] = p THEN IdleTask ELSE task[t]]
  /\ UNCHANGED <<products, customers, today, runs, filed>>

Init ==
  /\ products = 1 /\ customers = 1
  /\ cache = [p \in Processes |-> NoCache]
  /\ born = [p \in Processes |-> [products |-> 1, customers |-> 1]]
  /\ today = 0
  /\ restarts = 0
  /\ runs = 0
  /\ orders = {}
  /\ exceptions = {}
  /\ task = [t \in Tasks |-> IdleTask]

Step(t) ==
  \/ \E e \in Emails : ResolveCustomer(t, e) \/ ReadRoster(t, e)
  \/ FillRoster(t)
  \/ QueryPO(t) \/ QueryHash(t)
  \/ MatchExact(t) \/ MatchClose(t) \/ ReadCatalog(t) \/ FillCatalog(t)
  \/ Preflight(t)
  \/ BuildLine(t) \/ CreateOrder(t) \/ CreateException(t)

Next ==
  \/ \E t \in Tasks : Step(t)
  \/ LoadProducts \/ LoadCustomers \/ NextDay
  \/ \E p \in Processes : Restart(p)

Spec == Init /\ [][Next]_vars
-----------------------------------------------------------------------------
(* Task t has just filed order o.                                           *)
Files(t, o) == o \in orders' \ orders /\ task[t].msg = o.doc /\ task'[t].pc = "idle"

(* find_duplicate: an order on file when a run began, of the same customer   *)
(* and no older than the window, keeps that run from filing one with its     *)
(* number or its content.  Only orders that race can both be filed.         *)
OnlyRacesDuplicate ==
  [][\A t \in Tasks, o \in orders' : Files(t, o) =>
       ~ \E p \in orders : /\ p.doc \in task[t].known
                           /\ p.customer = o.customer
                           /\ o.day - p.day <= Window
                           /\ SamePO(p, o.doc) \/ SameContent(p, o.doc)]_orders

AllNamed(e) == NamedLines(e) = DOMAIN Lines(e)

(* As many lines of each sku and quantity, in any order and any units.       *)
SameGoods(e, f) ==
  /\ Len(Lines(e)) = Len(Lines(f))
  /\ \A i \in DOMAIN Lines(e) :
       Cardinality({j \in DOMAIN Lines(e) : Goods(Lines(e)[j]) = Goods(Lines(e)[i])}) =
       Cardinality({j \in DOMAIN Lines(f) : Goods(Lines(f)[j]) = Goods(Lines(e)[i])})

(* An order is escalated as a duplicate only of another email's order of     *)
(* the same customer that has its number or names the same skus as often in  *)
(* the same quantities.  Of the units nothing is promised: ten boxes repeat  *)
(* ten pieces.  Nor of lines without a sku, which the hash leaves out.       *)
DuplicateIsAlike ==
  \A t \in Tasks :
    task[t].found # None =>
      LET e == task[t].msg
      IN  \E o \in orders :
            /\ o.doc = task[t].found /\ o.doc # e /\ o.customer = task[t].customer
            /\ \/ OrderOf[e].po # None /\ OrderOf[o.doc].po = OrderOf[e].po
               \/ AllNamed(e) /\ AllNamed(o.doc) => SameGoods(e, o.doc)

(* The product has had no other price since the process started.            *)
Steady(p, sku, price) ==
  \A v \in born[p].products..products : GetProduct(v, sku) \in {None, price}

(* The price that was agreed: an order is filed at prices within 10% of      *)
(* those it quoted, except for a product whose own price has changed since   *)
(* the process started.  The loads that a run or a cache lives through do no *)
(* harm to the other products.                                              *)
QuotesHonoured ==
  [][\A t \in Tasks, o \in orders' : Files(t, o) =>
       \A i \in DOMAIN o.lines :
         LET quote == Lines(o.doc)[i].quote
             price == o.lines[i].price
         IN  quote # None /\ Steady(ProcessOf[t], o.lines[i].sku, price) =>
               10 * quote <= 11 * price /\ 10 * quote >= 9 * price]_orders

(* How old the snapshots on an order may be: its prices were in the catalog  *)
(* while its run lasted, its customer in the roster while its process did.   *)
SnapshotsAreDated ==
  [][\A t \in Tasks, o \in orders' : Files(t, o) =>
       /\ \E v \in born[ProcessOf[t]].customers..customers :
            o.customer \in FindCustomerByName(v, OrderOf[o.doc].name)
       /\ \A i \in DOMAIN o.lines :
            \E v \in task[t].since..products :
              o.lines[i].price = GetProduct(v, o.lines[i].sku)]_orders

(* "validator already proved existence": the product of a matched line is    *)
(* still there when the record is built, whatever was loaded in between.     *)
ProductsStay == \A t \in Tasks : task[t].pc # "raised"
=============================================================================
