----------------------------- MODULE MasterData -----------------------------
(***************************************************************************)
(* The master-data collections `products' and `customers', and what        *)
(* MasterDataRepo reads of them.  scripts/load_master_data.py writes them    *)
(* from its files, version after version; a document is written over but    *)
(* never deleted, so what a file no longer names stays as it was.           *)
(***************************************************************************)
EXTENDS Integers, Sequences, FiniteSetsExt

CONSTANTS
  Skus,
  CustomerNames,  \* what a document may give as customer_name, up to closeness
  CustomerIds,
  PriceFiles,     \* unit_price_usd by sku, in each version of products.json
  RosterFiles,    \* the record of each customer_id, in each version of customers.json
  None

Versions == DOMAIN PriceFiles

(* CustomerRecord: the names that are close enough to its name or dba, and  *)
(* the sku it means by each sku it writes, itself where it has no alias.     *)
CustomerRecord == [names: SUBSET CustomerNames, aliases: [Skus -> Skus]]

ASSUME FileAssumptions ==
  /\ PriceFiles \in Seq([Skus -> Nat \cup {None}])
  /\ RosterFiles \in Seq([CustomerIds -> CustomerRecord \cup {None}])
  /\ PriceFiles # <<>> /\ Len(RosterFiles) = Len(PriceFiles)
  /\ None \notin Nat \cup Skus \cup CustomerNames \cup CustomerIds \cup CustomerRecord

(* The versions up to v whose file has an entry for x.                      *)
Naming(files, v, x) == {u \in 1..v : files[u][x] # None}

(* Mutant: the loader replaces the collection.                              *)
StoredReplaced(files, v, x) == IF v = 0 THEN None ELSE files[v][x]

(* The document of x in a collection loaded up to version v.                *)
Stored(files, v, x) ==
  IF Naming(files, v, x) = {} THEN None ELSE files[Max(Naming(files, v, x))][x]

(* get_product, in products at version v; a sku that is no document id is   *)
(* not looked up.                                                           *)
GetProduct(v, sku) == IF sku = None THEN None ELSE Stored(PriceFiles, v, sku)

(* The roster at version v.  A customer's document is kept by its id: a file *)
(* that renames it, or changes its aliases, replaces the document.           *)
Customer(v, id) == Stored(RosterFiles, v, id)

Roster(v) == {id \in CustomerIds : Customer(v, id) # None}

(* find_customer_by_name: the customers close enough to the name.  The best  *)
(* of them is taken, and how close each one is is left open.                *)
FindCustomerByName(v, name) == {id \in Roster(v) : name \in Customer(v, id).names}
=============================================================================
