------------------------- MODULE OrderFilingProofs -------------------------
(* Theorems about OrderFiling, for any orders, any files of master data, any *)
(* number of tasks and processes and any window.                            *)
EXTENDS OrderFiling, Positions

(* A run under way knows its email, began when its process was up, and the  *)
(* orders it has known of are still on file.                                *)
BusyInv(k, p) ==
  /\ k.pc = "idle" => k = IdleTask
  /\ k.pc # "idle" => /\ k.msg \in Emails
                      /\ k.since \in born[p].products..products
                      /\ k.known \subseteq OnFile

ReadInv(k, p) ==
  /\ k.pc = "fill_roster" => /\ k.read \in born[p].customers..customers
                             /\ k.matches = <<>> /\ k.built = <<>>
  /\ k.pc = "fill_catalog" => /\ k.read \in born[p].products..products
                              /\ Len(k.matches) < Len(Lines(k.msg))

(* The customer was in the roster while the process was up.                 *)
CustomerInv(k, p) ==
  k.customer # None =>
    \E v \in born[p].customers..customers :
      k.customer \in FindCustomerByName(v, OrderOf[k.msg].name)

(* Each match that passed the price check passed it for a price the catalog *)
(* had while the process was up.                                            *)
MatchInv(k, p) ==
  k.pc # "idle" =>
    /\ DOMAIN k.matches \subseteq DOMAIN Lines(k.msg)
    /\ \A i \in DOMAIN k.matches :
         k.matches[i].ok =>
           /\ k.matches[i].sku # None
           /\ \E v \in born[p].products..products :
                /\ GetProduct(v, k.matches[i].sku) # None
                /\ CheckPrice(Lines(k.msg)[i].quote, GetProduct(v, k.matches[i].sku))

(* Each snapshot is of its match, at a price the catalog had in the run.    *)
BuiltInv(k) ==
  /\ k.pc = "build" => /\ k.customer # None /\ k.found = None
                       /\ \A i \in DOMAIN k.matches : k.matches[i].ok
  /\ DOMAIN k.built \subseteq DOMAIN k.matches
  /\ \A i \in DOMAIN k.built :
       /\ k.built[i].sku = k.matches[i].sku
       /\ \E v \in k.since..products : k.built[i].price = GetProduct(v, k.built[i].sku)

(* The orders a run has known of that its queries ask for.                  *)
Askable(k) == {o \in orders : /\ o.doc \in k.known /\ o.doc # k.msg
                              /\ o.customer = k.customer /\ InWindow(o)}

(* A run that is past a query has none of those with its number, its goods.  *)
QueriesInv(k) ==
  k.found = None /\ k.customer # None =>
    /\ k.pc \in {"hash", "lines", "fill_catalog", "preflight", "build"} =>
         \A o \in Askable(k) : ~SamePO(o, k.msg)
    /\ k.pc \in {"lines", "fill_catalog", "preflight", "build"} =>
         \A o \in Askable(k) : ~SameContent(o, k.msg)

TaskInv(k, p) ==
  /\ BusyInv(k, p) /\ ReadInv(k, p) /\ CustomerInv(k, p) /\ MatchInv(k, p)
  /\ BuiltInv(k) /\ QueriesInv(k)
  /\ k.pc # "raised"

(* What a process holds, the collection held since the process started.     *)
ProcessInv(p) ==
  /\ born[p].products \in 1..products /\ born[p].customers \in 1..customers
  /\ cache[p].products # 0 => cache[p].products \in born[p].products..products
  /\ cache[p].customers # 0 => cache[p].customers \in born[p].customers..customers

IInv ==
  /\ TypeOK
  /\ customers <= products
  /\ \A p \in Processes : ProcessInv(p)
  /\ \A t \in Tasks : TaskInv(task[t], ProcessOf[t])
  /\ \A o, q \in orders : o.doc = q.doc => o = q
-----------------------------------------------------------------------------
LEMMA VersionsType ==
  /\ Len(PriceFiles) \in Nat \ {0}
  /\ Versions = 1..Len(PriceFiles)
  /\ DOMAIN PriceFiles = 1..Len(PriceFiles) /\ DOMAIN RosterFiles = 1..Len(PriceFiles)
BY FileAssumptions DEF Versions

LEMMA PricesType ==
  \A v \in Versions, sku \in Skus : PriceFiles[v][sku] \in Nat \cup {None}
<1> SUFFICES ASSUME NEW v \in Versions, NEW sku \in Skus
             PROVE  PriceFiles[v][sku] \in Nat \cup {None}
  OBVIOUS
<1>1. PriceFiles[v] \in [Skus -> Nat \cup {None}]
  BY FileAssumptions DEF Versions
<1> QED
  BY <1>1

LEMMA RostersType ==
  \A v \in Versions, id \in CustomerIds : RosterFiles[v][id] \in CustomerRecord \cup {None}
<1> SUFFICES ASSUME NEW v \in Versions, NEW id \in CustomerIds
             PROVE  RosterFiles[v][id] \in CustomerRecord \cup {None}
  OBVIOUS
<1>1. RosterFiles[v] \in [CustomerIds -> CustomerRecord \cup {None}]
  BY FileAssumptions, VersionsType
<1> QED
  BY <1>1

(* What is stored is from the last file that names it.                      *)
LEMMA StoredFrom ==
  ASSUME NEW files, NEW x, NEW v \in Nat, Naming(files, v, x) # {}
  PROVE  \E u \in 1..v : Stored(files, v, x) = files[u][x] /\ files[u][x] # None
<1> DEFINE named == Naming(files, v, x)
<1>1. named \in SUBSET (1..v)
  BY DEF Naming
<1>2. Max(named) \in named
  BY <1>1, MaxIsMember
<1>3. Stored(files, v, x) = files[Max(named)][x]
  BY DEF Stored
<1> QED
  BY <1>1, <1>2, <1>3 DEF Naming

(* A product that is in the catalog stays there: nothing is deleted.        *)
LEMMA GetProductType ==
  ASSUME NEW v \in 0..Len(PriceFiles), NEW sku \in Skus \cup {None}
  PROVE  /\ GetProduct(v, sku) \in Nat \cup {None}
         /\ GetProduct(v, sku) # None => sku \in Skus
         /\ \A w \in v..Len(PriceFiles) :
              GetProduct(v, sku) # None => GetProduct(w, sku) # None
<1>1. CASE sku = None
  BY <1>1 DEF GetProduct
<1>2. CASE sku # None
  <2>1. sku \in Skus /\ v \in Nat
    BY <1>2, VersionsType
  <2>2. \A w \in 0..Len(PriceFiles) : GetProduct(w, sku) = Stored(PriceFiles, w, sku)
    BY <1>2 DEF GetProduct
  <2>3. ASSUME NEW w \in 0..Len(PriceFiles)
        PROVE  /\ Stored(PriceFiles, w, sku) \in Nat \cup {None}
               /\ Stored(PriceFiles, w, sku) # None <=> Naming(PriceFiles, w, sku) # {}
    <3>1. CASE Naming(PriceFiles, w, sku) = {}
      BY <3>1 DEF Stored
    <3>2. CASE Naming(PriceFiles, w, sku) # {}
      <4>1. w \in Nat
        BY VersionsType
      <4>2. PICK u \in 1..w : /\ Stored(PriceFiles, w, sku) = PriceFiles[u][sku]
                              /\ PriceFiles[u][sku] # None
        BY <3>2, <4>1, StoredFrom
      <4>3. u \in Versions
        BY VersionsType
      <4> QED
        BY <2>1, <3>2, <4>2, <4>3, PricesType
    <3> QED
      BY <3>1, <3>2
  <2>4. \A w \in v..Len(PriceFiles) :
          Naming(PriceFiles, v, sku) \subseteq Naming(PriceFiles, w, sku)
    BY VersionsType DEF Naming
  <2>5. \A w \in v..Len(PriceFiles) : w \in 0..Len(PriceFiles)
    BY VersionsType
  <2> QED
    BY <2>1, <2>2, <2>3, <2>4, <2>5
<1> QED
  BY <1>1, <1>2

LEMMA FindCustomerType ==
  ASSUME NEW v \in 0..Len(PriceFiles), NEW name, NEW id \in FindCustomerByName(v, name)
  PROVE  id \in CustomerIds /\ Customer(v, id) \in CustomerRecord /\ v # 0
<1>1. id \in CustomerIds /\ Customer(v, id) # None /\ v \in Nat
  BY VersionsType DEF FindCustomerByName, Roster
<1>2. Naming(RosterFiles, v, id) # {}
  BY <1>1 DEF Customer, Stored
<1>3. PICK u \in 1..v : Customer(v, id) = RosterFiles[u][id]
  BY <1>1, <1>2, StoredFrom DEF Customer
<1>4. u \in Versions /\ v # 0
  BY <1>1, VersionsType
<1> QED
  BY <1>1, <1>3, <1>4, RostersType

LEMMA OrderFields ==
  ASSUME NEW e \in Emails
  PROVE  /\ OrderOf[e].name \in CustomerNames \cup {None}
         /\ Lines(e) \in Seq(Line)
         /\ \A i \in DOMAIN Lines(e) :
              /\ Lines(e)[i].sku \in Skus \cup {None}
              /\ Lines(e)[i].like \in Skus \cup {None}
              /\ Lines(e)[i].quote \in Nat \cup {None}
<1>1. OrderOf[e] \in Order
  BY OrderAssumption
<1>2. Lines(e) \in Seq(Line) /\ OrderOf[e].name \in CustomerNames \cup {None}
  BY <1>1 DEF Order, Lines
<1>3. \A i \in DOMAIN Lines(e) : Lines(e)[i] \in Line
  BY <1>2
<1> QED
  BY <1>2, <1>3 DEF Line

LEMMA TaskFields ==
  ASSUME NEW k \in Task
  PROVE  /\ k.pc \in PCs /\ k.msg \in Emails \cup {None} /\ k.read \in Nat
         /\ k.customer \in CustomerIds \cup {None} /\ k.found \in Emails \cup {None}
         /\ k.matches \in Seq(Match) /\ k.built \in Seq(ProductSnapshot)
         /\ k.known \in SUBSET Emails /\ k.since \in Nat
         /\ DOMAIN k.matches = 1..Len(k.matches) /\ DOMAIN k.built = 1..Len(k.built)
         /\ \A i \in DOMAIN k.matches :
              /\ k.matches[i].sku \in Skus \cup {None}
              /\ k.matches[i].ok \in BOOLEAN
<1>1. k.matches \in Seq(Match) /\ k.built \in Seq(ProductSnapshot)
  BY DEF Task
<1>2. \A i \in DOMAIN k.matches : k.matches[i] \in Match
  BY <1>1
<1> QED
  BY <1>1, <1>2 DEF Task, Match

LEMMA OrderRecordFields ==
  ASSUME NEW o \in OrderRecord
  PROVE  o.doc \in Emails /\ o.customer \in CustomerIds /\ o.day \in Nat
BY DEF OrderRecord

LEMMA NewTaskType ==
  ASSUME NEW pc \in PCs, NEW e \in Emails \cup {None}, NEW known \in SUBSET Emails,
         NEW since \in Nat
  PROVE  NewTask(pc, e, known, since) \in Task
BY DEF NewTask, NoAliases, Task

LEMMA IdleTaskInv ==
  ASSUME NEW p
  PROVE  IdleTask \in Task /\ TaskInv(IdleTask, p) /\ TaskInv(IdleTask, p)'
<1>1. IdleTask \in Task
  BY NewTaskType DEF IdleTask, PCs
<1>2. /\ IdleTask.pc = "idle" /\ IdleTask.customer = None
      /\ IdleTask.matches = <<>> /\ IdleTask.built = <<>>
  BY DEF IdleTask, NewTask
<1> QED
  BY <1>1, <1>2 DEF TaskInv, BusyInv, ReadInv, CustomerInv, MatchInv, BuiltInv, QueriesInv

LEMMA InitIInv == Init => IInv
<1> SUFFICES ASSUME Init PROVE IInv
  OBVIOUS
<1>1. TypeOK
  <2>1. task \in [Tasks -> Task]
    BY IdleTaskInv DEF Init
  <2>2. 1 \in Versions
    BY VersionsType
  <2> QED
    BY <2>1, <2>2, FilingBounds DEF Init, TypeOK, NoCache, Masters
<1>2. \A p \in Processes : ProcessInv(p)
  BY DEF Init, ProcessInv, NoCache
<1>3. \A t \in Tasks : TaskInv(task[t], ProcessOf[t])
  BY IdleTaskInv DEF Init
<1> QED
  BY <1>1, <1>2, <1>3 DEF Init, IInv
-----------------------------------------------------------------------------
(* Time goes on, the collections are loaded anew and orders are filed: what  *)
(* a run knows of stays true of it.                                         *)
LEMMA TaskInvStays ==
  ASSUME NEW k \in Task, NEW p, TypeOK, TaskInv(k, p),
         products \in Nat, products' \in Nat, customers \in Nat, customers' \in Nat,
         products <= products', customers <= customers', born'[p] = born[p],
         born[p].products \in Nat, born[p].customers \in Nat,
         today \in Nat, today' \in Nat, today <= today',
         orders \subseteq orders', orders' \subseteq OrderRecord,
         \A o \in orders' : o \in orders \/ o.doc \notin OnFile
  PROVE  TaskInv(k, p)'
<1>1. BusyInv(k, p)'
  <2>1. OnFile \subseteq OnFile'
    BY DEF OnFile
  <2> QED
    BY <2>1, TaskFields DEF TaskInv, BusyInv
<1>2. ReadInv(k, p)'
  BY DEF TaskInv, ReadInv
<1>3. CustomerInv(k, p)'
  <2>1. born[p].customers..customers \subseteq born'[p].customers..customers'
    OBVIOUS
  <2> QED
    BY <2>1 DEF TaskInv, CustomerInv
<1>4. born[p].products..products \subseteq born'[p].products..products'
  OBVIOUS
<1>5. MatchInv(k, p)'
  BY <1>4 DEF TaskInv, MatchInv
<1>6. BuiltInv(k)'
  <2>1. k.since..products \subseteq k.since..products'
    BY TaskFields
  <2> QED
    BY <2>1 DEF TaskInv, BuiltInv
<1>7. QueriesInv(k)'
  <2>1. CASE k.pc = "idle"
    BY <2>1 DEF QueriesInv
  <2>2. CASE k.pc # "idle"
    <3>1. k.known \subseteq OnFile
      BY <2>2 DEF TaskInv, BusyInv
    <3>2. ASSUME NEW o \in orders', InWindow(o)', o.doc \in k.known
          PROVE  o \in orders /\ InWindow(o)
      <4>1. o \in orders /\ o.day \in Nat
        BY <3>1, <3>2, OrderRecordFields
      <4> QED
        BY <3>2, <4>1, FilingBounds DEF InWindow
    <3>3. Askable(k)' \subseteq Askable(k)
      BY <3>2 DEF Askable
    <3> QED
      BY <3>3 DEF TaskInv, QueriesInv, SamePO, SameContent
  <2> QED
    BY <2>1, <2>2
<1> QED
  BY <1>1, <1>2, <1>3, <1>5, <1>6, <1>7 DEF TaskInv

LEMMA Numbers ==
  ASSUME IInv
  PROVE  /\ products \in 1..Len(PriceFiles) /\ customers \in 1..Len(PriceFiles)
         /\ products \in Nat /\ customers \in Nat /\ today \in Nat
         /\ \A p \in Processes :
              /\ born[p].products \in 1..products /\ born[p].customers \in 1..customers
              /\ cache[p].products \in 0..products
              /\ cache[p].customers \in 0..customers
              /\ born[p].products \in Nat /\ born[p].customers \in Nat
              /\ ProcessInv(p)
<1>1. products \in Versions /\ customers \in Versions /\ today \in Nat
  BY FilingBounds DEF IInv, TypeOK
<1>2. products \in 1..Len(PriceFiles) /\ customers \in 1..Len(PriceFiles)
  BY <1>1, VersionsType
<1>3. ASSUME NEW p \in Processes
      PROVE  /\ born[p].products \in 1..products /\ born[p].customers \in 1..customers
             /\ cache[p].products \in 0..products
             /\ cache[p].customers \in 0..customers
             /\ ProcessInv(p)
  BY <1>2 DEF IInv, ProcessInv
<1> QED
  BY <1>1, <1>2, <1>3

(* A step of task t, which leaves the collections and the time alone.       *)
LEMMA StepPreserves ==
  ASSUME IInv, NEW t \in Tasks, NEW k \in Task, task' = [task EXCEPT ![t] = k],
         UNCHANGED world, runs' \in 0..MaxRuns,
         cache' \in [Processes -> [products: {0} \cup Versions,
                                   customers: {0} \cup Versions]],
         \A p \in Processes : ProcessInv(p)',
         orders \subseteq orders', orders' \subseteq OrderRecord,
         \A o \in orders' : o \in orders \/ o.doc \notin OnFile,
         \A o, q \in orders' : o.doc = q.doc => o = q,
         exceptions' \subseteq Emails,
         TaskInv(k, ProcessOf[t])'
  PROVE  IInv'
<1>1. /\ task'[t] = k
      /\ \A u \in Tasks : u # t => task'[u] = task[u]
  BY DEF IInv, TypeOK
<1>2. TypeOK'
  BY DEF IInv, TypeOK, world
<1>3. UNCHANGED <<products, customers, born, today>>
  BY DEF world
<1>4. ASSUME NEW u \in Tasks, u # t
      PROVE  TaskInv(task[u], ProcessOf[u])'
  <2> DEFINE j == task[u]
             p == ProcessOf[u]
  <2>1. j \in Task /\ TaskInv(j, p) /\ p \in Processes
    BY TaskAssumption DEF IInv, TypeOK
  <2>2. task'[u] = j
    BY <1>1, <1>4
  <2>3. TypeOK
    BY DEF IInv
  <2>4. PICK c \in Task : c = j
    BY <2>1
  <2>5. TaskInv(c, p)'
    BY <1>3, <2>1, <2>3, <2>4, Numbers, TaskInvStays
  <2> QED
    BY <2>2, <2>4, <2>5
<1>5. TaskInv(task[t], ProcessOf[t])'
  BY <1>1
<1> QED
  BY <1>2, <1>3, <1>4, <1>5 DEF IInv

(* A step that files nothing.                                               *)
LEMMA FillPreserves ==
  ASSUME IInv, NEW t \in Tasks, NEW k \in Task, task' = [task EXCEPT ![t] = k],
         UNCHANGED <<world, filed>>, runs' \in 0..MaxRuns,
         cache' \in [Processes -> [products: {0} \cup Versions,
                                   customers: {0} \cup Versions]],
         \A p \in Processes :
           /\ cache'[p].products \in {0, cache[p].products} \cup born[p].products..products
           /\ cache'[p].customers \in {0, cache[p].customers} \cup born[p].customers..customers,
         TaskInv(k, ProcessOf[t])
  PROVE  IInv'
<1>1. /\ products' = products /\ customers' = customers /\ born' = born /\ today' = today
      /\ orders' = orders /\ exceptions' = exceptions
  BY DEF world, filed
<1>2. \A p \in Processes : ProcessInv(p)'
  BY <1>1 DEF IInv, ProcessInv
<1>3. TaskInv(k, ProcessOf[t])'
  <2>1. OnFile' = OnFile /\ Askable(k)' = Askable(k)
    BY <1>1 DEF OnFile, Askable, InWindow
  <2> QED
    BY <1>1, <2>1 DEF TaskInv, BusyInv, ReadInv, CustomerInv, MatchInv, BuiltInv,
       QueriesInv, SamePO, SameContent
<1>4. /\ orders \subseteq orders' /\ orders' \subseteq OrderRecord
      /\ \A o \in orders' : o \in orders \/ o.doc \notin OnFile
      /\ \A o, q \in orders' : o.doc = q.doc => o = q
      /\ exceptions' \subseteq Emails
  BY <1>1 DEF IInv, TypeOK
<1> QED
  BY <1>2, <1>3, <1>4, StepPreserves

(* One that fills no cache either.                                          *)
LEMMA QuietPreserves ==
  ASSUME IInv, NEW t \in Tasks, NEW k \in Task, task' = [task EXCEPT ![t] = k],
         UNCHANGED <<world, cache, filed>>, runs' \in 0..MaxRuns,
         TaskInv(k, ProcessOf[t])
  PROVE  IInv'
BY FillPreserves DEF IInv, TypeOK

(* A step of the task as it is, and what is known of it.                    *)
LEMMA Own ==
  ASSUME IInv, NEW t \in Tasks
  PROVE  /\ task[t] \in Task /\ TaskInv(task[t], ProcessOf[t])
         /\ ProcessOf[t] \in Processes
         /\ task[t].pc # "idle" => task[t].msg \in Emails
BY TaskAssumption DEF IInv, TypeOK, TaskInv, BusyInv

LEMMA RunsBound ==
  ASSUME IInv
  PROVE  runs \in 0..MaxRuns /\ \A t \in Tasks, e \in Emails : Begins(t, e) => runs' \in 0..MaxRuns
BY FilingBounds DEF IInv, TypeOK, Begins

LEMMA BeganTask ==
  ASSUME IInv, NEW p \in Processes, NEW e \in Emails
  PROVE  /\ Began(e) \in Task
         /\ Began(e).msg = e /\ Began(e).since = products /\ Began(e).known = OnFile
         /\ Began(e).matches = <<>> /\ Began(e).built = <<>>
         /\ Began(e).customer = None /\ Began(e).found = None
         /\ products \in born[p].products..products
<1>1. OnFile \in SUBSET Emails
  BY OrderRecordFields DEF OnFile, IInv, TypeOK
<1>2. Began(e) \in Task
  BY <1>1, Numbers, NewTaskType DEF Began, PCs
<1> QED
  BY <1>2, Numbers DEF Began, NewTask

(* The customer is resolved, in a roster the process holds or has just read. *)
LEMMA ResolvedTask ==
  ASSUME IInv, NEW p \in Processes, NEW k \in Task,
         k.msg \in Emails, k.since \in born[p].products..products, k.known \subseteq OnFile,
         k.matches = <<>>, k.built = <<>>,
         NEW v \in 0..customers, v # 0 => v \in born[p].customers..customers,
         NEW id \in Answers(v, OrderOf[k.msg].name)
  PROVE  Resolved(k, v, id) \in Task /\ TaskInv(Resolved(k, v, id), p)
<1> DEFINE pc == CASE id = None -> "lines"
                   [] id # None /\ OrderOf[k.msg].po # None -> "po"
                   [] OTHER -> "hash"
           aliases == IF id = None THEN NoAliases ELSE Customer(v, id).aliases
           j == [k EXCEPT !.pc = pc, !.customer = id, !.aliases = aliases, !.read = 0]
<1>1. /\ id \in CustomerIds \cup {None}
      /\ id # None => /\ v # 0 /\ Customer(v, id) \in CustomerRecord
                      /\ id \in FindCustomerByName(v, OrderOf[k.msg].name)
  <2>1. v \in 0..Len(PriceFiles)
    BY Numbers, VersionsType
  <2>2. id # None => id \in FindCustomerByName(v, OrderOf[k.msg].name)
    BY DEF Answers
  <2> QED
    BY <2>1, <2>2, FindCustomerType
<1>0. aliases \in [Skus -> Skus]
  BY <1>1 DEF CustomerRecord, NoAliases
<1>2. /\ pc \in {"lines", "po", "hash"}
      /\ pc = "lines" => id = None
      /\ pc = "hash" => OrderOf[k.msg].po = None
  OBVIOUS
<1>3. Resolved(k, v, id) = j
  BY DEF Resolved
<1>4. id # None => /\ v \in born[p].customers..customers
                   /\ id \in FindCustomerByName(v, OrderOf[k.msg].name)
  BY <1>1
<1> HIDE DEF pc, aliases
<1>5. j \in Task
  BY <1>0, <1>1, <1>2 DEF Task, PCs
<1>6. /\ j.pc = pc /\ j.customer = id /\ j.msg = k.msg /\ j.since = k.since
      /\ j.known = k.known /\ j.matches = <<>> /\ j.built = <<>>
  BY DEF Task
<1> HIDE DEF j
<1>7. BusyInv(j, p) /\ ReadInv(j, p)
  BY <1>2, <1>6 DEF BusyInv, ReadInv
<1>8. CustomerInv(j, p)
  BY <1>4, <1>6 DEF CustomerInv
<1>9. MatchInv(j, p) /\ BuiltInv(j)
  BY <1>2, <1>6 DEF MatchInv, BuiltInv
<1>10. QueriesInv(j)
  BY <1>2, <1>6 DEF QueriesInv, SamePO
<1> QED
  BY <1>2, <1>3, <1>5, <1>6, <1>7, <1>8, <1>9, <1>10 DEF TaskInv

LEMMA BeginSteps ==
  ASSUME IInv, NEW t \in Tasks, NEW e \in Emails, ResolveCustomer(t, e) \/ ReadRoster(t, e)
  PROVE  IInv'
<1> DEFINE p == ProcessOf[t]
<1>1. p \in Processes
  BY Own
<1>2. Begins(t, e) /\ UNCHANGED <<world, cache, filed>>
  BY DEF ResolveCustomer, ReadRoster
<1>3. runs' \in 0..MaxRuns
  BY <1>2, RunsBound
<1>4. CASE ResolveCustomer(t, e)
  <2> DEFINE v == cache[p].customers
  <2>0. PICK id \in Answers(v, OrderOf[e].name) :
          task' = [task EXCEPT ![t] = Resolved(Began(e), v, id)]
    BY <1>4 DEF ResolveCustomer
  <2> DEFINE k == Resolved(Began(e), v, id)
  <2>1. v \in 0..customers /\ (v # 0 => v \in born[p].customers..customers)
    BY <1>1, Numbers DEF ProcessInv
  <2>2. k \in Task /\ TaskInv(k, p)
    BY <1>1, <2>1, BeganTask, ResolvedTask
  <2>3. task' = [task EXCEPT ![t] = k]
    BY <2>0
  <2> HIDE DEF k
  <2> QED
    BY <1>2, <1>3, <2>2, <2>3, QuietPreserves
<1>5. CASE ReadRoster(t, e)
  <2> DEFINE b == Began(e)
             k == [b EXCEPT !.pc = "fill_roster", !.read = customers]
  <2>1. /\ b \in Task /\ b.msg = e /\ b.since = products /\ b.known = OnFile
        /\ b.matches = <<>> /\ b.built = <<>> /\ b.customer = None
        /\ products \in born[p].products..products
        /\ customers \in born[p].customers..customers /\ customers \in Nat
    BY <1>1, BeganTask, Numbers
  <2>2. task' = [task EXCEPT ![t] = k]
    BY <1>5 DEF ReadRoster
  <2> HIDE DEF b
  <2>3. /\ k \in Task
        /\ k.pc = "fill_roster" /\ k.read = customers /\ k.msg = e /\ k.since = products
        /\ k.known = OnFile /\ k.matches = <<>> /\ k.built = <<>> /\ k.customer = None
    BY <2>1 DEF Task, PCs
  <2> HIDE DEF k
  <2>4. TaskInv(k, p)
    BY <2>1, <2>3 DEF TaskInv, BusyInv, ReadInv, CustomerInv, MatchInv, BuiltInv, QueriesInv
  <2> QED
    BY <1>2, <1>3, <2>2, <2>3, <2>4, QuietPreserves
<1> QED
  BY <1>4, <1>5

LEMMA FillRosterStep ==
  ASSUME IInv, NEW t \in Tasks, FillRoster(t)
  PROVE  IInv'
<1> DEFINE p == ProcessOf[t]
           read == task[t].read
<1>0. PICK id \in Answers(read, OrderOf[task[t].msg].name) :
        task' = [task EXCEPT ![t] = Resolved(task[t], read, id)]
  BY DEF FillRoster, OrderAt
<1> DEFINE k == Resolved(task[t], read, id)
<1>1. /\ task[t] \in Task /\ TaskInv(task[t], p) /\ p \in Processes
      /\ task[t].pc = "fill_roster" /\ task[t].msg \in Emails
  BY Own DEF FillRoster
<1>2. /\ read \in born[p].customers..customers
      /\ task[t].matches = <<>> /\ task[t].built = <<>>
      /\ task[t].since \in born[p].products..products /\ task[t].known \subseteq OnFile
  BY <1>1 DEF TaskInv, ReadInv, BusyInv
<1>3. read \in 0..customers /\ read \in Versions
  BY <1>1, <1>2, Numbers, VersionsType
<1>4. k \in Task /\ TaskInv(k, p)
  BY <1>1, <1>2, <1>3, ResolvedTask
<1>5. /\ task' = [task EXCEPT ![t] = k]
      /\ cache' = [cache EXCEPT ![p].customers = read]
      /\ UNCHANGED <<world, filed>> /\ runs' = runs
  BY <1>0 DEF FillRoster
<1> HIDE DEF k, read
<1>6. cache' \in [Processes -> [products: {0} \cup Versions, customers: {0} \cup Versions]]
  BY <1>1, <1>3, <1>5 DEF IInv, TypeOK
<1>7. \A q \in Processes :
        /\ cache'[q].products \in {0, cache[q].products} \cup born[q].products..products
        /\ cache'[q].customers \in {0, cache[q].customers} \cup born[q].customers..customers
  BY <1>1, <1>2, <1>5 DEF IInv, TypeOK
<1> QED
  BY <1>4, <1>5, <1>6, <1>7, RunsBound, FillPreserves

(* A query that finds nothing has left nothing unfound.                     *)
LEMMA QuerySteps ==
  ASSUME IInv, NEW t \in Tasks, QueryPO(t) \/ QueryHash(t)
  PROVE  IInv'
<1> DEFINE p == ProcessOf[t]
           k == task[t]
<1>1. /\ k \in Task /\ TaskInv(k, p) /\ k.msg \in Emails /\ k.pc \in {"po", "hash"}
  BY Own DEF QueryPO, QueryHash
<1>2. UNCHANGED <<world, cache, filed>> /\ runs' \in 0..MaxRuns
  BY RunsBound DEF QueryPO, QueryHash
<1>3. ASSUME NEW pc \in {"hash", "lines", "preflight"}, NEW found \in Emails \cup {None},
             task' = [task EXCEPT ![t] = [k EXCEPT !.pc = pc, !.found = found]],
             \/ found # None /\ pc = "preflight"
             \/ /\ found = k.found
                /\ pc = "hash" => \A o \in Askable(k) : ~SamePO(o, k.msg)
                /\ pc = "lines" => /\ k.pc = "hash"
                                   /\ \A o \in Askable(k) : ~SameContent(o, k.msg)
                /\ pc # "preflight"
      PROVE  IInv'
  <2> DEFINE j == [k EXCEPT !.pc = pc, !.found = found]
  <2>1. j \in Task
    BY <1>1 DEF Task, PCs
  <2>2. /\ j.pc = pc /\ j.found = found /\ j.msg = k.msg /\ j.customer = k.customer
        /\ j.matches = k.matches /\ j.built = k.built /\ j.known = k.known
        /\ j.since = k.since
    BY <1>1 DEF Task
  <2>3. task' = [task EXCEPT ![t] = j]
    BY <1>3
  <2> HIDE DEF j, k
  <2>4. Askable(j) = Askable(k)
    BY <2>2 DEF Askable
  <2>5. QueriesInv(j)
    BY <1>1, <1>3, <2>2, <2>4 DEF TaskInv, QueriesInv
  <2>6. BusyInv(j, p) /\ ReadInv(j, p) /\ CustomerInv(j, p) /\ MatchInv(j, p) /\ BuiltInv(j)
    BY <1>1, <1>3, <2>2 DEF TaskInv, BusyInv, ReadInv, CustomerInv, MatchInv, BuiltInv
  <2> QED
    BY <1>2, <2>1, <2>2, <2>3, <2>5, <2>6, QuietPreserves DEF TaskInv
<1>4. Askable(k) \subseteq Candidates(t)
  BY DEF Askable, Candidates
<1>5. \A o \in Candidates(t) : o.doc \in Emails
  BY OrderRecordFields DEF Candidates, IInv, TypeOK
<1>6. CASE QueryPO(t)
  <2>1. CASE \E o \in Candidates(t) :
               task' = [task EXCEPT ![t].pc = "preflight", ![t].found = o.doc]
    <3>1. PICK o \in Candidates(t) :
            task' = [task EXCEPT ![t].pc = "preflight", ![t].found = o.doc]
      BY <2>1
    <3>2. task' = [task EXCEPT ![t] = [k EXCEPT !.pc = "preflight", !.found = o.doc]]
      BY <3>1 DEF IInv, TypeOK
    <3> QED
      BY <1>3, <1>5, <3>2, OrderAssumption
  <2>2. CASE /\ \A o \in Candidates(t) : ~SamePO(o, k.msg)
             /\ task' = [task EXCEPT ![t].pc = "hash"]
    <3>1. task' = [task EXCEPT ![t] = [k EXCEPT !.pc = "hash", !.found = k.found]]
      BY <1>1, <2>2 DEF IInv, TypeOK, Task
    <3>2. k.found \in Emails \cup {None}
      BY <1>1, TaskFields
    <3> QED
      BY <1>3, <1>4, <2>2, <3>1, <3>2
  <2> QED
    BY <1>6, <2>1, <2>2 DEF QueryPO, Query
<1>7. CASE QueryHash(t)
  <2>1. CASE \E o \in Candidates(t) :
               task' = [task EXCEPT ![t].pc = "preflight", ![t].found = o.doc]
    <3>1. PICK o \in Candidates(t) :
            task' = [task EXCEPT ![t].pc = "preflight", ![t].found = o.doc]
      BY <2>1
    <3>2. task' = [task EXCEPT ![t] = [k EXCEPT !.pc = "preflight", !.found = o.doc]]
      BY <3>1 DEF IInv, TypeOK
    <3> QED
      BY <1>3, <1>5, <3>2, OrderAssumption
  <2>2. CASE /\ \A o \in Candidates(t) : ~SameContent(o, k.msg)
             /\ task' = [task EXCEPT ![t].pc = "lines"]
    <3>1. task' = [task EXCEPT ![t] = [k EXCEPT !.pc = "lines", !.found = k.found]]
      BY <1>1, <2>2 DEF IInv, TypeOK, Task
    <3>2. k.found \in Emails \cup {None} /\ k.pc = "hash"
      BY <1>1, <1>7, TaskFields DEF QueryHash
    <3> QED
      BY <1>3, <1>4, <2>2, <3>1, <3>2
  <2> QED
    BY <1>7, <2>1, <2>2 DEF QueryHash, Query
<1> QED
  BY <1>6, <1>7
-----------------------------------------------------------------------------
(* What a match that passed the price check has been compared with.         *)
Compared(m, line, p) ==
  m.ok =>
    /\ m.sku # None
    /\ \E v \in born[p].products..products :
         /\ GetProduct(v, m.sku) # None
         /\ CheckPrice(line.quote, GetProduct(v, m.sku))

LEMMA MatchedInv ==
  ASSUME NEW p, NEW sku \in Skus, NEW line,
         NEW v \in born[p].products..products, GetProduct(v, sku) # None
  PROVE  LET m == Matched(sku, line.quote, GetProduct(v, sku))
         IN  m \in Match /\ Compared(m, line, p)
<1> DEFINE ok == CheckPrice(line.quote, GetProduct(v, sku))
           m == Matched(sku, line.quote, GetProduct(v, sku))
<1>1. ok \in BOOLEAN
  BY DEF CheckPrice
<1>2. m = [sku |-> sku, ok |-> ok]
  BY DEF Matched
<1>3. sku # None
  BY FileAssumptions
<1>4. ok => CheckPrice(line.quote, GetProduct(v, sku))
  OBVIOUS
<1> HIDE DEF ok, m
<1>5. m \in Match /\ m.sku = sku /\ m.ok = ok
  BY <1>1, <1>2 DEF Match
<1>6. Compared(m, line, p)
  BY <1>3, <1>4, <1>5 DEF Compared
<1> QED
  BY <1>5, <1>6 DEF m

LEMMA DescribedInv ==
  ASSUME IInv, NEW p \in Processes, NEW line, line.like \in Skus \cup {None},
         NEW v \in 0..products, v # 0 => v \in born[p].products..products,
         v = 0 => line.like = None
  PROVE  /\ MatchDescription(line, v) \in Match
         /\ Compared(MatchDescription(line, v), line, p)
<1>1. Missed \in Match /\ Compared(Missed, line, p)
  BY DEF Missed, Match, Compared
<1>2. v \in 0..Len(PriceFiles) /\ products \in 0..Len(PriceFiles)
  BY Numbers, VersionsType
<1>3. \A u \in 0..Len(PriceFiles) :
        GetProduct(u, line.like) # None => line.like \in Skus
  BY GetProductType
<1>4. products \in born[p].products..products
  BY Numbers
<1>5. CASE GetProduct(v, line.like) # None
  <2>1. line.like \in Skus /\ v # 0
    BY <1>2, <1>3, <1>5, FileAssumptions
  <2>2. MatchDescription(line, v) =
          Matched(line.like, line.quote, GetProduct(v, line.like))
    BY <1>5 DEF MatchDescription
  <2> QED
    BY <1>5, <2>1, <2>2, MatchedInv
<1>6. CASE GetProduct(v, line.like) = None /\ GetProduct(products, line.like) # None
  <2>1. line.like \in Skus
    BY <1>2, <1>3, <1>6
  <2>2. MatchDescription(line, v) =
          Matched(line.like, line.quote, GetProduct(products, line.like))
    BY <1>6 DEF MatchDescription
  <2> QED
    BY <1>4, <1>6, <2>1, <2>2, MatchedInv
<1>7. CASE GetProduct(v, line.like) = None /\ GetProduct(products, line.like) = None
  BY <1>1, <1>7 DEF MatchDescription
<1> QED
  BY <1>5, <1>6, <1>7

(* A line is matched, or missed: the run goes on with its lines.            *)
LEMMA LineAdded ==
  ASSUME NEW p, NEW k \in Task, TaskInv(k, p), k.pc \in {"lines", "fill_catalog"},
         k.msg \in Emails, Len(k.matches) < Len(Lines(k.msg)),
         NEW m \in Match, Compared(m, Lines(k.msg)[Len(k.matches) + 1], p)
  PROVE  LET j == [k EXCEPT !.pc = "lines", !.read = 0, !.matches = Append(@, m)]
         IN  j \in Task /\ TaskInv(j, p)
<1> DEFINE n == Len(k.matches) + 1
           matches == Append(k.matches, m)
           j == [k EXCEPT !.pc = "lines", !.read = 0, !.matches = matches]
<1>1. k.matches \in Seq(Match) /\ Lines(k.msg) \in Seq(Line)
  BY TaskFields, OrderFields
<1>2. /\ matches \in Seq(Match)
      /\ DOMAIN matches = 1..n /\ matches[n] = m
      /\ DOMAIN k.matches \subseteq DOMAIN matches
      /\ \A i \in DOMAIN k.matches : matches[i] = k.matches[i]
      /\ \A i \in DOMAIN matches : i \in DOMAIN k.matches \/ i = n
  BY <1>1
<1>3. n \in DOMAIN Lines(k.msg)
  BY <1>1
<1> HIDE DEF matches
<1>4. j \in Task
  BY <1>2 DEF Task, PCs
<1>5. /\ j.pc = "lines" /\ j.found = k.found /\ j.msg = k.msg /\ j.customer = k.customer
      /\ j.matches = matches /\ j.built = k.built /\ j.known = k.known
      /\ j.since = k.since
  BY DEF Task
<1> HIDE DEF j, n
<1>6. MatchInv(j, p)
  BY <1>2, <1>3, <1>5 DEF TaskInv, MatchInv, Compared, n
<1>7. BuiltInv(j)
  BY <1>2, <1>5 DEF TaskInv, BuiltInv
<1>8. QueriesInv(j)
  <2>1. Askable(j) = Askable(k)
    BY <1>5 DEF Askable
  <2> QED
    BY <1>5, <2>1 DEF TaskInv, QueriesInv
<1>9. BusyInv(j, p) /\ ReadInv(j, p) /\ CustomerInv(j, p)
  BY <1>5 DEF TaskInv, BusyInv, ReadInv, CustomerInv
<1> QED
  BY <1>4, <1>5, <1>6, <1>7, <1>8, <1>9 DEF TaskInv, j, matches

LEMMA MatchSteps ==
  ASSUME IInv, NEW t \in Tasks, MatchExact(t) \/ MatchClose(t) \/ FillCatalog(t)
  PROVE  IInv'
<1> DEFINE p == ProcessOf[t]
           k == task[t]
           line == LineOf(t)
           sku == Canonical(t)
<1>1. /\ k \in Task /\ TaskInv(k, p) /\ k.msg \in Emails /\ p \in Processes
      /\ k.pc \in {"lines", "fill_catalog"}
  BY Own DEF MatchExact, MatchClose, FillCatalog
<1>2. Len(k.matches) < Len(Lines(k.msg)) /\ line = Lines(k.msg)[Len(k.matches) + 1]
  <2>1. k.pc = "fill_catalog" => Len(k.matches) < Len(Lines(k.msg))
    BY <1>1 DEF TaskInv, ReadInv
  <2> QED
    BY <2>1 DEF MatchExact, MatchClose, FillCatalog, AtLine, OrderAt, Lines, LineOf
<1>3. sku \in Skus \cup {None} /\ line.like \in Skus \cup {None}
  <2>1. Len(k.matches) + 1 \in DOMAIN Lines(k.msg)
    BY <1>1, <1>2, OrderFields, TaskFields
  <2>2. line.sku \in Skus \cup {None} /\ line.like \in Skus \cup {None}
    BY <1>1, <1>2, <2>1, OrderFields
  <2>3. k.aliases \in [Skus -> Skus]
    BY <1>1 DEF Task
  <2> QED
    BY <2>2, <2>3 DEF Canonical
<1>4. UNCHANGED <<world, filed>> /\ runs' \in 0..MaxRuns
  BY RunsBound DEF MatchExact, MatchClose, FillCatalog
<1>5. ASSUME NEW m \in Match, Compared(m, line, p), AddMatch(t, m)
      PROVE  \E j \in Task : task' = [task EXCEPT ![t] = j] /\ TaskInv(j, p)
  <2> DEFINE j == [k EXCEPT !.pc = "lines", !.read = 0, !.matches = Append(@, m)]
  <2>1. task' = [task EXCEPT ![t] = j]
    BY <1>5 DEF AddMatch, IInv, TypeOK
  <2>2. j \in Task /\ TaskInv(j, p)
    BY <1>1, <1>2, <1>5, LineAdded
  <2> QED
    BY <2>1, <2>2
<1>6. CASE MatchExact(t)
  <2> DEFINE m == Matched(sku, line.quote, GetProduct(products, sku))
  <2>1. GetProduct(products, sku) # None /\ AddMatch(t, m)
    BY <1>6 DEF MatchExact
  <2>2. sku \in Skus
    BY <1>3, <2>1, Numbers, GetProductType
  <2>3. products \in born[p].products..products
    BY <1>1, Numbers
  <2>4. m \in Match /\ Compared(m, line, p)
    BY <2>1, <2>2, <2>3, MatchedInv
  <2> HIDE DEF m
  <2>5. UNCHANGED cache
    BY <1>6 DEF MatchExact
  <2> QED
    BY <1>1, <1>4, <1>5, <2>1, <2>4, <2>5, QuietPreserves
<1>7. CASE MatchClose(t)
  <2> DEFINE v == cache[p].products
             m == MatchDescription(line, v)
  <2>1. AddMatch(t, m) /\ UNCHANGED cache /\ (v = 0 => line.like = None)
    BY <1>7 DEF MatchClose
  <2>2. v \in 0..products /\ (v # 0 => v \in born[p].products..products)
    BY <1>1, Numbers DEF ProcessInv
  <2>3. m \in Match /\ Compared(m, line, p)
    BY <1>1, <1>3, <2>1, <2>2, DescribedInv
  <2> HIDE DEF m
  <2> QED
    BY <1>1, <1>4, <1>5, <2>1, <2>3, QuietPreserves
<1>8. CASE FillCatalog(t)
  <2> DEFINE v == k.read
             m == MatchDescription(line, v)
  <2>1. AddMatch(t, m) /\ cache' = [cache EXCEPT ![p].products = v] /\ k.pc = "fill_catalog"
    BY <1>8 DEF FillCatalog
  <2>2. v \in born[p].products..products
    BY <1>1, <2>1 DEF TaskInv, ReadInv
  <2>3. v \in 0..products /\ v # 0 /\ v \in Versions
    BY <1>1, <2>2, Numbers, VersionsType
  <2>4. m \in Match /\ Compared(m, line, p)
    BY <1>1, <1>3, <2>2, <2>3, DescribedInv
  <2> HIDE DEF m, v
  <2>5. cache' \in [Processes -> [products: {0} \cup Versions, customers: {0} \cup Versions]]
    BY <1>1, <2>1, <2>3 DEF IInv, TypeOK
  <2>6. \A q \in Processes :
          /\ cache'[q].products \in {0, cache[q].products} \cup born[q].products..products
          /\ cache'[q].customers \in {0, cache[q].customers} \cup born[q].customers..customers
    BY <1>1, <2>1, <2>2 DEF IInv, TypeOK
  <2> QED
    BY <1>1, <1>4, <1>5, <2>1, <2>4, <2>5, <2>6, FillPreserves
<1> QED
  BY <1>6, <1>7, <1>8

LEMMA ReadCatalogStep ==
  ASSUME IInv, NEW t \in Tasks, ReadCatalog(t)
  PROVE  IInv'
<1> DEFINE p == ProcessOf[t]
           k == task[t]
           j == [k EXCEPT !.pc = "fill_catalog", !.read = products]
<1>1. /\ k \in Task /\ TaskInv(k, p) /\ p \in Processes /\ k.pc = "lines"
      /\ Len(k.matches) < Len(Lines(k.msg))
  BY Own DEF ReadCatalog, AtLine, OrderAt, Lines
<1>2. UNCHANGED <<world, cache, filed>> /\ runs' \in 0..MaxRuns
  BY RunsBound DEF ReadCatalog
<1>3. task' = [task EXCEPT ![t] = j]
  BY DEF ReadCatalog, IInv, TypeOK
<1>4. products \in born[p].products..products /\ products \in Nat
  BY <1>1, Numbers
<1> HIDE DEF k
<1>5. /\ j \in Task
      /\ j.pc = "fill_catalog" /\ j.read = products /\ j.found = k.found /\ j.msg = k.msg
      /\ j.customer = k.customer /\ j.matches = k.matches /\ j.built = k.built
      /\ j.known = k.known /\ j.since = k.since
  BY <1>1, <1>4 DEF Task, PCs
<1> HIDE DEF j
<1>6. Askable(j) = Askable(k)
  BY <1>5 DEF Askable
<1>7. TaskInv(j, p)
  BY <1>1, <1>4, <1>5, <1>6
  DEF TaskInv, BusyInv, ReadInv, CustomerInv, MatchInv, BuiltInv, QueriesInv
<1> QED
  BY <1>2, <1>3, <1>5, <1>7, QuietPreserves

LEMMA PreflightStep ==
  ASSUME IInv, NEW t \in Tasks, Preflight(t)
  PROVE  IInv'
<1> DEFINE p == ProcessOf[t]
           k == task[t]
<1>1. /\ k \in Task /\ TaskInv(k, p) /\ k.pc \in {"lines", "preflight"} /\ k.msg \in Emails
  BY Own DEF Preflight
<1>2. UNCHANGED <<world, cache, filed>> /\ runs' \in 0..MaxRuns
  BY RunsBound DEF Preflight
<1>3. CASE task' = [task EXCEPT ![t] = IdleTask]
  BY <1>2, <1>3, IdleTaskInv, QuietPreserves
<1>4. ASSUME NEW pc \in {"build", "refuse"}, task' = [task EXCEPT ![t].pc = pc],
             pc = "build" => k.found = None /\ MayApprove(t)
      PROVE  IInv'
  <2> DEFINE j == [k EXCEPT !.pc = pc]
  <2>1. task' = [task EXCEPT ![t] = j]
    BY <1>4 DEF IInv, TypeOK
  <2>2. /\ j \in Task
        /\ j.pc = pc /\ j.found = k.found /\ j.msg = k.msg
        /\ j.customer = k.customer /\ j.matches = k.matches /\ j.built = k.built
        /\ j.known = k.known /\ j.since = k.since
    BY <1>1 DEF Task, PCs
  <2>3. pc = "build" => /\ k.found = None /\ k.customer # None
                        /\ \A i \in DOMAIN k.matches : k.matches[i].ok
    BY <1>4 DEF MayApprove
  <2> HIDE DEF j, k
  <2>4. Askable(j) = Askable(k)
    BY <2>2 DEF Askable
  <2>5. BusyInv(j, p) /\ ReadInv(j, p) /\ CustomerInv(j, p) /\ MatchInv(j, p)
    BY <1>1, <1>4, <2>2 DEF TaskInv, BusyInv, ReadInv, CustomerInv, MatchInv
  <2>6. BuiltInv(j)
    BY <1>1, <2>2, <2>3 DEF TaskInv, BuiltInv
  <2>7. QueriesInv(j)
    BY <1>1, <1>4, <2>2, <2>4 DEF TaskInv, QueriesInv
  <2> QED
    BY <1>2, <1>4, <2>1, <2>2, <2>5, <2>6, <2>7, QuietPreserves DEF TaskInv
<1> QED
  BY <1>3, <1>4 DEF Preflight

(* The product of a match that was ok is there: it is only ever renewed.    *)
LEMMA BuildLineStep ==
  ASSUME IInv, NEW t \in Tasks, BuildLine(t)
  PROVE  IInv'
<1> DEFINE p == ProcessOf[t]
           k == task[t]
           n == Len(k.built) + 1
           sku == k.matches[n].sku
           price == GetProduct(products, sku)
           snap == [sku |-> sku, price |-> price]
           built == Append(k.built, snap)
           j == [k EXCEPT !.built = built]
<1>1. /\ k \in Task /\ TaskInv(k, p) /\ p \in Processes /\ k.pc = "build"
      /\ Len(k.built) < Len(k.matches)
  BY Own DEF BuildLine
<1>2. UNCHANGED <<world, cache, filed>> /\ runs' \in 0..MaxRuns
  BY RunsBound DEF BuildLine
<1>3. /\ k.built \in Seq(ProductSnapshot) /\ DOMAIN k.matches = 1..Len(k.matches)
      /\ k.matches \in Seq(Match) /\ n \in DOMAIN k.matches
      /\ sku \in Skus \cup {None}
  <2>1. k.built \in Seq(ProductSnapshot) /\ DOMAIN k.matches = 1..Len(k.matches)
        /\ k.matches \in Seq(Match)
    BY <1>1, TaskFields
  <2>2. n \in DOMAIN k.matches
    BY <1>1, <2>1
  <2> QED
    BY <1>1, <2>1, <2>2, TaskFields
<1>4. price \in Nat /\ sku \in Skus
  <2>1. k.matches[n].ok
    BY <1>1, <1>3 DEF TaskInv, BuiltInv
  <2>2. PICK v \in born[p].products..products : GetProduct(v, sku) # None
    BY <1>1, <1>3, <2>1 DEF TaskInv, MatchInv
  <2>3. /\ v \in 0..Len(PriceFiles) /\ products \in v..Len(PriceFiles)
        /\ products \in 0..Len(PriceFiles)
    BY <1>1, <2>2, Numbers, VersionsType
  <2>4. price # None /\ sku \in Skus
    BY <1>3, <2>2, <2>3, GetProductType
  <2> QED
    BY <1>3, <2>3, <2>4, GetProductType
<1>5. price # None
  BY <1>4, FileAssumptions
<1>6. task' = [task EXCEPT ![t] = j]
  <2>1. task' = [task EXCEPT ![t].built = Append(@, snap)]
    BY <1>5 DEF BuildLine
  <2> QED
    BY <2>1 DEF IInv, TypeOK
<1>7. snap \in ProductSnapshot /\ snap.sku = sku /\ snap.price = price
  BY <1>4 DEF ProductSnapshot
<1>8. products \in k.since..products
  BY <1>1, Numbers DEF TaskInv, BusyInv
<1> HIDE DEF snap
<1>9. /\ built \in Seq(ProductSnapshot)
      /\ DOMAIN built = 1..n /\ built[n] = snap
      /\ \A i \in DOMAIN k.built : built[i] = k.built[i]
      /\ \A i \in DOMAIN built : i \in DOMAIN k.built \/ i = n
  BY <1>3, <1>7
<1> HIDE DEF built
<1>10. /\ j \in Task
       /\ j.pc = "build" /\ j.found = k.found /\ j.msg = k.msg
       /\ j.customer = k.customer /\ j.matches = k.matches /\ j.built = built
       /\ j.known = k.known /\ j.since = k.since
  BY <1>1, <1>9 DEF Task
<1>11. DOMAIN built \subseteq DOMAIN k.matches
  BY <1>3, <1>9
<1> HIDE DEF j, k, n, price, sku
<1>12. BuiltInv(j)
  <2>1. ASSUME NEW i \in DOMAIN built
        PROVE  /\ built[i].sku = k.matches[i].sku
               /\ \E v \in k.since..products : built[i].price = GetProduct(v, built[i].sku)
    <3>1. CASE i \in DOMAIN k.built
      BY <1>1, <1>9, <3>1 DEF TaskInv, BuiltInv
    <3>2. CASE i = n
      BY <1>7, <1>8, <1>9, <3>2 DEF price, sku
    <3> QED
      BY <1>9, <3>1, <3>2
  <2> QED
    BY <1>1, <1>10, <1>11, <2>1 DEF TaskInv, BuiltInv
<1>13. Askable(j) = Askable(k)
  BY <1>10 DEF Askable
<1>14. TaskInv(j, p)
  BY <1>1, <1>10, <1>12, <1>13
  DEF TaskInv, BusyInv, ReadInv, CustomerInv, MatchInv, QueriesInv
<1> QED
  BY <1>2, <1>6, <1>10, <1>14, QuietPreserves
-----------------------------------------------------------------------------
(* The order that task t files.                                             *)
Filed(t) == [doc |-> task[t].msg, customer |-> task[t].customer,
             lines |-> task[t].built, day |-> today]

LEMMA FiledType ==
  ASSUME IInv, NEW t \in Tasks, task[t].pc = "build"
  PROVE  Filed(t) \in OrderRecord
<1> DEFINE k == task[t]
<1>1. k \in Task /\ k.msg \in Emails /\ k.customer # None
  BY Own DEF TaskInv, BuiltInv
<1>2. k.customer \in CustomerIds /\ k.built \in Seq(ProductSnapshot) /\ today \in Nat
  BY <1>1, TaskFields, Numbers
<1> QED
  BY <1>1, <1>2 DEF Filed, OrderRecord

LEMMA CreateSteps ==
  ASSUME IInv, NEW t \in Tasks, CreateOrder(t) \/ CreateException(t)
  PROVE  IInv'
<1>1. /\ task' = [task EXCEPT ![t] = IdleTask] /\ UNCHANGED <<world, cache>> /\ runs' = runs
      /\ task[t].msg \in Emails
  BY Own DEF CreateOrder, CreateException
<1>2. /\ IdleTask \in Task /\ TaskInv(IdleTask, ProcessOf[t])'
      /\ runs' \in 0..MaxRuns
      /\ cache' \in [Processes -> [products: {0} \cup Versions,
                                   customers: {0} \cup Versions]]
  BY <1>1, IdleTaskInv, RunsBound DEF IInv, TypeOK
<1>3. \A p \in Processes : ProcessInv(p)'
  BY <1>1 DEF IInv, ProcessInv, world
<1>4. CASE CreateOrder(t)
  <2>1. /\ orders' = orders \/ (orders' = orders \cup {Filed(t)} /\ task[t].msg \notin OnFile)
        /\ exceptions' = exceptions
        /\ task[t].pc = "build"
    BY <1>4 DEF CreateOrder, Filed
  <2>2. Filed(t) \in OrderRecord /\ Filed(t).doc = task[t].msg
    BY <2>1, FiledType DEF Filed
  <2>3. /\ orders \subseteq orders' /\ orders' \subseteq OrderRecord
        /\ \A o \in orders' : o \in orders \/ o.doc \notin OnFile
    BY <2>1, <2>2 DEF IInv, TypeOK
  <2>4. \A o, q \in orders' : o.doc = q.doc => o = q
    BY <2>1, <2>2 DEF IInv, OnFile
  <2>5. exceptions' \subseteq Emails
    BY <2>1 DEF IInv, TypeOK
  <2> QED
    BY <1>1, <1>2, <1>3, <2>3, <2>4, <2>5, StepPreserves
<1>5. CASE CreateException(t)
  <2>1. orders' = orders /\ exceptions' \subseteq Emails
    BY <1>1, <1>5 DEF CreateException, IInv, TypeOK
  <2>2. /\ orders \subseteq orders' /\ orders' \subseteq OrderRecord
        /\ \A o \in orders' : o \in orders \/ o.doc \notin OnFile
        /\ \A o, q \in orders' : o.doc = q.doc => o = q
    BY <2>1 DEF IInv, TypeOK
  <2> QED
    BY <1>1, <1>2, <1>3, <2>1, <2>2, StepPreserves
<1> QED
  BY <1>4, <1>5

LEMMA WorldSteps ==
  ASSUME IInv, LoadProducts \/ LoadCustomers \/ NextDay
  PROVE  IInv'
<1>1. /\ products' \in Versions /\ customers' \in Versions /\ today' \in 0..MaxDay
      /\ customers' <= products'
      /\ products <= products' /\ customers <= customers' /\ today <= today'
      /\ products' \in Nat /\ customers' \in Nat /\ today' \in Nat
  BY Numbers, VersionsType, FilingBounds
  DEF LoadProducts, LoadCustomers, NextDay, IInv, TypeOK
<1>2. /\ cache' = cache /\ born' = born /\ restarts' = restarts /\ runs' = runs
      /\ orders' = orders /\ exceptions' = exceptions /\ task' = task
  BY DEF LoadProducts, LoadCustomers, NextDay, filed
<1>3. TypeOK'
  BY <1>1, <1>2 DEF IInv, TypeOK
<1>4. \A p \in Processes : ProcessInv(p)'
  BY <1>1, <1>2, Numbers DEF ProcessInv
<1>5. ASSUME NEW t \in Tasks
      PROVE  TaskInv(task[t], ProcessOf[t])'
  <2>1. PICK k \in Task : k = task[t]
    BY Own
  <2>2. TaskInv(k, ProcessOf[t]) /\ ProcessOf[t] \in Processes
    BY <2>1, Own
  <2>3. TypeOK /\ orders' \subseteq OrderRecord
    BY <1>2 DEF IInv, TypeOK
  <2>4. TaskInv(k, ProcessOf[t])'
    BY <1>1, <1>2, <2>2, <2>3, Numbers, TaskInvStays
  <2> QED
    BY <1>2, <2>1, <2>4
<1> QED
  BY <1>1, <1>2, <1>3, <1>4, <1>5 DEF IInv

LEMMA RestartStep ==
  ASSUME IInv, NEW p \in Processes, Restart(p)
  PROVE  IInv'
<1>1. /\ cache' = [cache EXCEPT ![p] = NoCache]
      /\ born' = [born EXCEPT ![p] = [products |-> products, customers |-> customers]]
      /\ task' = [t \in Tasks |-> IF ProcessOf[t] = p THEN IdleTask ELSE task[t]]
      /\ products' = products /\ customers' = customers /\ today' = today /\ runs' = runs
      /\ orders' = orders /\ exceptions' = exceptions
      /\ restarts' = restarts + 1 /\ restarts < MaxRestarts
  BY DEF Restart, filed, ColdCache
<1>2. TypeOK'
  <2>1. cache' \in [Processes -> [products: {0} \cup Versions, customers: {0} \cup Versions]]
    BY <1>1 DEF IInv, TypeOK, NoCache
  <2>2. [products |-> products, customers |-> customers] \in Masters
    BY Numbers DEF Masters
  <2>3. born' \in [Processes -> Masters]
    BY <1>1, <2>2 DEF IInv, TypeOK
  <2>4. task' \in [Tasks -> Task]
    BY <1>1, IdleTaskInv DEF IInv, TypeOK
  <2>5. restarts' \in 0..MaxRestarts
    BY <1>1, FilingBounds DEF IInv, TypeOK
  <2> QED
    BY <1>1, <2>1, <2>3, <2>4, <2>5 DEF IInv, TypeOK
<1>3. \A q \in Processes : ProcessInv(q)'
  <2>1. ASSUME NEW q \in Processes, q # p
        PROVE  ProcessInv(q)'
    <3>1. cache'[q] = cache[q] /\ born'[q] = born[q] /\ ProcessInv(q)
      BY <1>1, <2>1 DEF IInv, TypeOK
    <3> QED
      BY <1>1, <3>1 DEF ProcessInv
  <2>2. ProcessInv(p)'
    <3>1. cache'[p] = NoCache /\ born'[p] = [products |-> products, customers |-> customers]
      BY <1>1 DEF IInv, TypeOK
    <3> QED
      BY <1>1, <3>1, Numbers DEF ProcessInv, NoCache
  <2> QED
    BY <2>1, <2>2
<1>4. ASSUME NEW t \in Tasks
      PROVE  TaskInv(task[t], ProcessOf[t])'
  <2>1. CASE ProcessOf[t] = p
    <3>1. task'[t] = IdleTask /\ TaskInv(IdleTask, ProcessOf[t])'
      BY <1>1, <2>1, IdleTaskInv
    <3> QED
      BY <3>1
  <2>2. CASE ProcessOf[t] # p
    <3>1. PICK k \in Task : k = task[t]
      BY Own
    <3>2. /\ TaskInv(k, ProcessOf[t]) /\ ProcessOf[t] \in Processes
          /\ TypeOK /\ orders' \subseteq OrderRecord
      BY <1>1, <3>1, Own DEF IInv, TypeOK
    <3>3. born'[ProcessOf[t]] = born[ProcessOf[t]] /\ task'[t] = k
      BY <1>1, <2>2, <3>1, <3>2 DEF IInv, TypeOK
    <3>4. TaskInv(k, ProcessOf[t])'
      BY <1>1, <3>2, <3>3, Numbers, TaskInvStays
    <3> QED
      BY <3>3, <3>4
  <2> QED
    BY <2>1, <2>2
<1> QED
  BY <1>1, <1>2, <1>3, <1>4 DEF IInv

LEMMA NextIInv == IInv /\ [Next]_vars => IInv'
<1> SUFFICES ASSUME IInv, [Next]_vars PROVE IInv'
  OBVIOUS
<1>1. CASE UNCHANGED vars
  <2>1. /\ products' = products /\ customers' = customers /\ born' = born /\ today' = today
        /\ cache' = cache /\ orders' = orders /\ exceptions' = exceptions /\ task' = task
        /\ restarts' = restarts /\ runs' = runs
    BY <1>1 DEF vars
  <2>2. TypeOK' /\ \A p \in Processes : ProcessInv(p)'
    BY <2>1 DEF IInv, TypeOK, ProcessInv
  <2>3. ASSUME NEW t \in Tasks
        PROVE  TaskInv(task[t], ProcessOf[t])'
    <3>1. PICK k \in Task : k = task[t]
      BY Own
    <3>2. /\ TaskInv(k, ProcessOf[t]) /\ ProcessOf[t] \in Processes
          /\ TypeOK /\ orders' \subseteq OrderRecord
      BY <2>1, <3>1, Own DEF IInv, TypeOK
    <3>3. TaskInv(k, ProcessOf[t])'
      BY <2>1, <3>2, Numbers, TaskInvStays
    <3> QED
      BY <2>1, <3>1, <3>3
  <2> QED
    BY <2>1, <2>2, <2>3 DEF IInv
<1>2. ASSUME NEW t \in Tasks, Step(t)
      PROVE  IInv'
  BY <1>2, BeginSteps, FillRosterStep, QuerySteps, MatchSteps, ReadCatalogStep,
     PreflightStep, BuildLineStep, CreateSteps DEF Step
<1> QED
  BY <1>1, <1>2, WorldSteps, RestartStep DEF Next

LEMMA Invariance == Spec => []IInv
BY InitIInv, NextIInv, PTL DEF Spec
-----------------------------------------------------------------------------
(* Only an order's own run files it, and only when none of its email is on   *)
(* file.                                                                    *)
LEMMA FilingStep ==
  ASSUME IInv, [Next]_vars, NEW t \in Tasks, NEW o \in orders', Files(t, o)
  PROVE  /\ task[t].pc = "build" /\ Len(task[t].built) = Len(task[t].matches)
         /\ task[t] \in Task /\ TaskInv(task[t], ProcessOf[t])
         /\ ProcessOf[t] \in Processes
         /\ o = Filed(t) /\ task[t].msg \in Emails /\ task[t].msg \notin OnFile
         /\ born' = born /\ customers' = customers /\ products' = products
<1>1. orders' # orders
  BY DEF Files
<1>2. \E u \in Tasks : CreateOrder(u)
  <2>1. Next
    BY <1>1 DEF vars
  <2>2. CASE \E u \in Tasks : Step(u)
    BY <1>1, <2>2
    DEF Step, ResolveCustomer, ReadRoster, FillRoster, QueryPO, QueryHash, MatchExact,
        MatchClose, ReadCatalog, FillCatalog, Preflight, BuildLine, CreateException, filed
  <2>3. CASE ~ \E u \in Tasks : Step(u)
    BY <1>1, <2>1, <2>3 DEF Next, LoadProducts, LoadCustomers, NextDay, Restart, filed
  <2> QED
    BY <2>2, <2>3
<1>3. PICK u \in Tasks : CreateOrder(u)
  BY <1>2
<1>4. /\ task[u].pc = "build" /\ Len(task[u].built) = Len(task[u].matches)
      /\ o = Filed(u) /\ o.doc = task[u].msg /\ task[u].msg \notin OnFile
      /\ task' = [task EXCEPT ![u] = IdleTask] /\ UNCHANGED world
  BY <1>1, <1>3 DEF CreateOrder, Files, Filed
<1>5. u = t
  <2>1. SUFFICES ASSUME u # t PROVE FALSE
    OBVIOUS
  <2>2. task'[t] = task[t] /\ task[t].pc = "idle"
    BY <1>4, <2>1 DEF Files, IInv, TypeOK
  <2>3. task[t] = IdleTask
    BY <2>2, Own DEF TaskInv, BusyInv
  <2>4. task[t].msg = None
    BY <2>3 DEF IdleTask, NewTask
  <2>5. task[u].msg \in Emails
    BY <1>4, Own
  <2> QED
    BY <1>4, <2>4, <2>5, OrderAssumption DEF Files
<1> QED
  BY <1>4, <1>5, Own DEF world

(* find_duplicate keeps a run from filing what repeats an order it has known *)
(* of, one in the window: both queries asked for it and did not find it.     *)
LEMMA NoDuplicateFiled ==
  ASSUME IInv, [Next]_vars, NEW t \in Tasks, NEW o \in orders', Files(t, o),
         NEW p \in orders, p.doc \in task[t].known, p.customer = o.customer,
         o.day - p.day <= Window
  PROVE  ~SamePO(p, o.doc) /\ ~SameContent(p, o.doc)
<1> DEFINE k == task[t]
<1>1. /\ k.pc = "build" /\ TaskInv(k, ProcessOf[t])
      /\ o = Filed(t) /\ k.msg \notin OnFile
  BY FilingStep
<1>2. o.doc = k.msg /\ o.customer = k.customer /\ o.day = today
  BY <1>1 DEF Filed
<1>3. p.doc # k.msg
  BY <1>1 DEF OnFile
<1>4. InWindow(p)
  <2>1. p.day \in Nat /\ today \in Nat
    BY Numbers, OrderRecordFields DEF IInv, TypeOK
  <2> QED
    BY <1>2, <2>1, FilingBounds DEF InWindow
<1>5. p \in Askable(k)
  BY <1>2, <1>3, <1>4 DEF Askable
<1>6. k.found = None /\ k.customer # None
  BY <1>1 DEF TaskInv, BuiltInv
<1> QED
  BY <1>1, <1>2, <1>5, <1>6 DEF TaskInv, QueriesInv

(* The snapshots of the order: as old as the run, and as the process.       *)
LEMMA SnapshotsFiled ==
  ASSUME IInv, [Next]_vars, NEW t \in Tasks, NEW o \in orders', Files(t, o)
  PROVE  /\ \E v \in born[ProcessOf[t]].customers..customers :
              o.customer \in FindCustomerByName(v, OrderOf[o.doc].name)
         /\ \A i \in DOMAIN o.lines :
              \E v \in task[t].since..products :
                o.lines[i].price = GetProduct(v, o.lines[i].sku)
<1> DEFINE k == task[t]
<1>1. k.pc = "build" /\ TaskInv(k, ProcessOf[t]) /\ o = Filed(t)
  BY FilingStep
<1>2. o.doc = k.msg /\ o.customer = k.customer /\ o.lines = k.built
  BY <1>1 DEF Filed
<1> QED
  BY <1>1, <1>2 DEF TaskInv, BuiltInv, CustomerInv

(* With one price of the product since the process started, the price that   *)
(* was compared is the price that is filed.                                 *)
LEMMA QuotesFiled ==
  ASSUME IInv, [Next]_vars, NEW t \in Tasks, NEW o \in orders', Files(t, o),
         NEW i \in DOMAIN o.lines, Lines(o.doc)[i].quote # None,
         Steady(ProcessOf[t], o.lines[i].sku, o.lines[i].price)
  PROVE  /\ 10 * Lines(o.doc)[i].quote <= 11 * o.lines[i].price
         /\ 10 * Lines(o.doc)[i].quote >= 9 * o.lines[i].price
<1> DEFINE k == task[t]
           p == ProcessOf[t]
           quote == Lines(k.msg)[i].quote
           price == k.built[i].price
<1>1. /\ k.pc = "build" /\ TaskInv(k, p) /\ p \in Processes /\ k \in Task
      /\ o = Filed(t) /\ k.msg \in Emails
  BY FilingStep
<1>2. o.doc = k.msg /\ o.lines = k.built
  BY <1>1 DEF Filed
<1>3. i \in DOMAIN k.built /\ i \in DOMAIN k.matches
  BY <1>1, <1>2 DEF TaskInv, BuiltInv
<1>4. k.matches[i].ok /\ k.built[i].sku = k.matches[i].sku
  BY <1>1, <1>3 DEF TaskInv, BuiltInv
<1>5. i \in DOMAIN Lines(k.msg)
  BY <1>1, <1>3 DEF TaskInv, MatchInv
<1>6. PICK v \in born[p].products..products :
        /\ GetProduct(v, k.matches[i].sku) # None
        /\ CheckPrice(quote, GetProduct(v, k.matches[i].sku))
  BY <1>1, <1>3, <1>4 DEF TaskInv, MatchInv
<1>7. GetProduct(v, k.matches[i].sku) = price
  BY <1>2, <1>4, <1>6 DEF Steady
<1>8. CheckPrice(quote, price)
  BY <1>6, <1>7
<1>9. price \in Nat /\ quote \in Nat
  <2>1. v \in 0..Len(PriceFiles)
    BY <1>1, Numbers, VersionsType
  <2>2. k.matches[i].sku \in Skus \cup {None}
    BY <1>1, <1>3, TaskFields
  <2>3. quote \in Nat \cup {None}
    BY <1>1, <1>5, OrderFields
  <2>4. price \in Nat \cup {None}
    BY <1>7, <2>1, <2>2, GetProductType
  <2> QED
    BY <1>2, <1>6, <1>7, <2>3, <2>4
<1>10. quote # None
  BY <1>2
<1> HIDE DEF quote, price
<1>11. 10 * quote <= 11 * price /\ 10 * quote >= 9 * price
  BY <1>8, <1>9, <1>10 DEF CheckPrice
<1>12. o.lines[i].price = price /\ Lines(o.doc)[i].quote = quote
  BY <1>2 DEF quote, price
<1> QED
  BY <1>11, <1>12
-----------------------------------------------------------------------------
(* Type correctness.                                                        *)
THEOREM TypeCorrect == Spec => []TypeOK
<1>1. IInv => TypeOK
  BY DEF IInv
<1> QED
  BY <1>1, Invariance, PTL

(* The assertion of _build_order_lines never fails, however often the        *)
(* catalog is loaded during a run: the loader deletes nothing.              *)
THEOREM ProductsAreThere == Spec => []ProductsStay
<1>1. IInv => ProductsStay
  BY DEF IInv, TaskInv, ProductsStay
<1> QED
  BY <1>1, Invariance, PTL

(* An order on file when a run began, in the window, keeps that run from      *)
(* filing a second with its number or its content.                          *)
THEOREM DuplicatesRace == Spec => OnlyRacesDuplicate
<1> DEFINE Act == \A t \in Tasks, o \in orders' : Files(t, o) =>
                    ~ \E p \in orders : /\ p.doc \in task[t].known
                                        /\ p.customer = o.customer
                                        /\ o.day - p.day <= Window
                                        /\ SamePO(p, o.doc) \/ SameContent(p, o.doc)
<1>1. IInv /\ [Next]_vars => Act
  BY NoDuplicateFiled
<1> HIDE DEF Act
<1>2. IInv /\ [Next]_vars => [Act]_orders
  BY <1>1
<1>3. Spec => [][Act]_orders
  BY <1>2, Invariance, PTL DEF Spec
<1> QED
  BY <1>3 DEF OnlyRacesDuplicate, Act

(* While a product has one price, it is filed within 10% of what was quoted. *)
THEOREM QuotesAreHonoured == Spec => QuotesHonoured
<1> DEFINE Act ==
      \A t \in Tasks, o \in orders' : Files(t, o) =>
        \A i \in DOMAIN o.lines :
          LET quote == Lines(o.doc)[i].quote
              price == o.lines[i].price
          IN  quote # None /\ Steady(ProcessOf[t], o.lines[i].sku, price) =>
                10 * quote <= 11 * price /\ 10 * quote >= 9 * price
<1>1. IInv /\ [Next]_vars => Act
  BY QuotesFiled
<1> HIDE DEF Act
<1>2. IInv /\ [Next]_vars => [Act]_orders
  BY <1>1
<1>3. Spec => [][Act]_orders
  BY <1>2, Invariance, PTL DEF Spec
<1> QED
  BY <1>3 DEF QuotesHonoured, Act

(* The prices on an order are of its run, the customer of its process's      *)
(* time, whichever task filled the cache and however old it is.              *)
THEOREM SnapshotsDated == Spec => SnapshotsAreDated
<1> DEFINE Act ==
      \A t \in Tasks, o \in orders' : Files(t, o) =>
        /\ \E v \in born[ProcessOf[t]].customers..customers :
             o.customer \in FindCustomerByName(v, OrderOf[o.doc].name)
        /\ \A i \in DOMAIN o.lines :
             \E v \in task[t].since..products :
               o.lines[i].price = GetProduct(v, o.lines[i].sku)
<1>1. IInv /\ [Next]_vars => Act
  BY SnapshotsFiled
<1> HIDE DEF Act
<1>2. IInv /\ [Next]_vars => [Act]_orders
  BY <1>1
<1>3. Spec => [][Act]_orders
  BY <1>2, Invariance, PTL DEF Spec
<1> QED
  BY <1>3 DEF SnapshotsAreDated, Act
-----------------------------------------------------------------------------
(* Why an order is escalated as a duplicate.                               *)

(* What a query has found is an order another email has on file.            *)
FoundInv(k) ==
  /\ k.pc = "fill_roster" => k.found = None
  /\ k.found # None =>
       \E o \in orders : /\ o.doc = k.found /\ o.doc # k.msg /\ o.customer = k.customer
                         /\ SamePO(o, k.msg) \/ SameContent(o, k.msg)

FInv == IInv /\ \A t \in Tasks : FoundInv(task[t])

LEMMA FoundInvStays ==
  ASSUME orders \subseteq orders', NEW k, NEW l, FoundInv(k),
         l.pc # "fill_roster", l.found = k.found, l.msg = k.msg, l.customer = k.customer
  PROVE  FoundInv(l)'
BY DEF FoundInv, SamePO, SameContent

LEMMA NothingFound ==
  ASSUME NEW k, k.found = None
  PROVE  FoundInv(k) /\ FoundInv(k)'
BY DEF FoundInv

LEMMA InitFInv == Init => FInv
<1> SUFFICES ASSUME Init PROVE FInv
  OBVIOUS
<1>1. IdleTask.found = None
  BY DEF IdleTask, NewTask
<1> QED
  BY <1>1, InitIInv, NothingFound DEF Init, FInv

LEMMA OrdersGrow ==
  ASSUME NEW t \in Tasks, Step(t)
  PROVE  orders \subseteq orders'
BY DEF Step, ResolveCustomer, ReadRoster, FillRoster, QueryPO, QueryHash, MatchExact,
       MatchClose, ReadCatalog, FillCatalog, Preflight, BuildLine, CreateOrder,
       CreateException, filed

(* A query is the one step that finds anything.                             *)
LEMMA QueryFinds ==
  ASSUME FInv, NEW t \in Tasks, QueryPO(t) \/ QueryHash(t)
  PROVE  \E l : task' = [task EXCEPT ![t] = l] /\ FoundInv(l)'
<1> DEFINE k == task[t]
<1>1. k \in Task /\ FoundInv(k) /\ UNCHANGED orders
  BY Own DEF FInv, QueryPO, QueryHash, filed
<1>2. ASSUME NEW o \in Candidates(t), SamePO(o, k.msg) \/ SameContent(o, k.msg),
             task' = [task EXCEPT ![t].pc = "preflight", ![t].found = o.doc]
      PROVE  \E l : task' = [task EXCEPT ![t] = l] /\ FoundInv(l)'
  <2>0. PICK l : l = [k EXCEPT !.pc = "preflight", !.found = o.doc]
    OBVIOUS
  <2>1. task' = [task EXCEPT ![t] = l]
    BY <1>2, <2>0 DEF FInv, IInv, TypeOK
  <2>2. /\ l.pc = "preflight" /\ l.found = o.doc /\ l.msg = k.msg
        /\ l.customer = k.customer
    BY <1>1, <2>0 DEF Task
  <2>3. FoundInv(l)'
    BY <1>1, <1>2, <2>2 DEF FoundInv, Candidates, SamePO, SameContent
  <2> QED
    BY <2>1, <2>3
<1>3. ASSUME NEW pc \in {"hash", "lines"}, task' = [task EXCEPT ![t].pc = pc]
      PROVE  \E l : task' = [task EXCEPT ![t] = l] /\ FoundInv(l)'
  <2>0. PICK l : l = [k EXCEPT !.pc = pc]
    OBVIOUS
  <2>1. task' = [task EXCEPT ![t] = l]
    BY <1>3, <2>0 DEF FInv, IInv, TypeOK
  <2>2. /\ l.pc = pc /\ l.found = k.found /\ l.msg = k.msg /\ l.customer = k.customer
    BY <1>1, <2>0 DEF Task
  <2>3. FoundInv(l)'
    BY <1>1, <2>2, FoundInvStays
  <2> QED
    BY <2>1, <2>3
<1> QED
  BY <1>2, <1>3 DEF QueryPO, QueryHash, Query

(* What a run has found it keeps, with its customer, until it is over.      *)
LEMMA OthersKeepFound ==
  ASSUME FInv, NEW t \in Tasks, Step(t), ~QueryPO(t), ~QueryHash(t)
  PROVE  \E l : task' = [task EXCEPT ![t] = l] /\ FoundInv(l)'
<1> DEFINE k == task[t]
<1>1. k \in Task /\ FoundInv(k) /\ orders \subseteq orders' /\ task \in [Tasks -> Task]
  BY Own, OrdersGrow DEF FInv, IInv, TypeOK
<1>2. CASE \E e \in Emails : ResolveCustomer(t, e) \/ ReadRoster(t, e)
  <2>1. PICK e \in Emails : ResolveCustomer(t, e) \/ ReadRoster(t, e)
    BY <1>2
  <2>2. Began(e) \in Task /\ Began(e).found = None
    BY BeganTask, Own DEF FInv
  <2>3. CASE ResolveCustomer(t, e)
    <3>1. PICK id, l : /\ l = Resolved(Began(e), cache[ProcessOf[t]].customers, id)
                       /\ task' = [task EXCEPT ![t] = l]
      BY <2>3 DEF ResolveCustomer
    <3>2. task' = [task EXCEPT ![t] = l] /\ l.found = None
      BY <2>2, <3>1 DEF Resolved, Task
    <3> QED
      BY <3>2, NothingFound
  <2>4. CASE ReadRoster(t, e)
    <3>1. PICK l : l = [Began(e) EXCEPT !.pc = "fill_roster", !.read = customers]
      OBVIOUS
    <3>2. task' = [task EXCEPT ![t] = l] /\ l.found = None
      BY <2>2, <2>4, <3>1 DEF ReadRoster, Task
    <3> QED
      BY <3>2, NothingFound
  <2> QED
    BY <2>1, <2>3, <2>4
<1>3. CASE FillRoster(t)
  <2>1. k.found = None
    BY <1>1, <1>3 DEF FillRoster, FoundInv
  <2>2. PICK id, l : l = Resolved(k, k.read, id) /\ task' = [task EXCEPT ![t] = l]
    BY <1>3 DEF FillRoster
  <2>3. task' = [task EXCEPT ![t] = l] /\ l.found = None
    BY <1>1, <2>1, <2>2 DEF Resolved, Task
  <2> QED
    BY <2>3, NothingFound
<1>4. CASE MatchExact(t) \/ MatchClose(t) \/ FillCatalog(t)
  <2>1. PICK m : AddMatch(t, m)
    BY <1>4 DEF MatchExact, MatchClose, FillCatalog
  <2> DEFINE l == [k EXCEPT !.pc = "lines", !.read = 0, !.matches = Append(k.matches, m)]
  <2>2. task' = [task EXCEPT ![t] = l]
    BY <1>1, <2>1 DEF AddMatch
  <2>3. l.pc = "lines" /\ l.found = k.found /\ l.msg = k.msg /\ l.customer = k.customer
    BY <1>1 DEF Task
  <2> HIDE DEF l
  <2> QED
    BY <1>1, <2>2, <2>3, FoundInvStays
<1>5. CASE ReadCatalog(t)
  <2> DEFINE l == [k EXCEPT !.pc = "fill_catalog", !.read = products]
  <2>1. task' = [task EXCEPT ![t] = l]
    BY <1>1, <1>5 DEF ReadCatalog
  <2>2. l.pc = "fill_catalog" /\ l.found = k.found /\ l.msg = k.msg
        /\ l.customer = k.customer
    BY <1>1 DEF Task
  <2> HIDE DEF l
  <2> QED
    BY <1>1, <2>1, <2>2, FoundInvStays
<1>6. CASE Preflight(t) \/ CreateOrder(t) \/ CreateException(t)
  <2>1. CASE task' = [task EXCEPT ![t] = IdleTask]
    BY <2>1, NothingFound DEF IdleTask, NewTask
  <2>2. ASSUME NEW pc \in {"build", "refuse"}, task' = [task EXCEPT ![t].pc = pc]
        PROVE  \E l : task' = [task EXCEPT ![t] = l] /\ FoundInv(l)'
    <3> DEFINE l == [k EXCEPT !.pc = pc]
    <3>1. task' = [task EXCEPT ![t] = l]
      BY <1>1, <2>2
    <3>2. l.pc = pc /\ l.found = k.found /\ l.msg = k.msg /\ l.customer = k.customer
      BY <1>1 DEF Task
    <3> HIDE DEF l
    <3> QED
      BY <1>1, <3>1, <3>2, FoundInvStays
  <2> QED
    BY <1>6, <2>1, <2>2 DEF Preflight, CreateOrder, CreateException
<1>7. CASE BuildLine(t)
  <2>1. ASSUME NEW l, task' = [task EXCEPT ![t] = l], l.pc \in {"raised", "build"},
               l.found = k.found, l.msg = k.msg, l.customer = k.customer
        PROVE  \E m : task' = [task EXCEPT ![t] = m] /\ FoundInv(m)'
    BY <1>1, <2>1, FoundInvStays
  <2>2. CASE task' = [task EXCEPT ![t].pc = "raised"]
    <3>1. PICK l : l = [k EXCEPT !.pc = "raised"]
      OBVIOUS
    <3>2. task' = [task EXCEPT ![t] = l]
      BY <1>1, <2>2, <3>1
    <3> QED
      BY <1>1, <2>1, <3>1, <3>2 DEF Task
  <2>3. ASSUME NEW line, task' = [task EXCEPT ![t].built = Append(@, line)]
        PROVE  \E m : task' = [task EXCEPT ![t] = m] /\ FoundInv(m)'
    <3>1. PICK l : l = [k EXCEPT !.built = Append(@, line)]
      OBVIOUS
    <3>2. task' = [task EXCEPT ![t] = l]
      BY <1>1, <2>3, <3>1
    <3>3. k.pc = "build"
      BY <1>7 DEF BuildLine
    <3> QED
      BY <1>1, <2>1, <3>1, <3>2, <3>3 DEF Task
  <2> QED
    BY <1>7, <2>2, <2>3 DEF BuildLine
<1> QED
  BY <1>2, <1>3, <1>4, <1>5, <1>6, <1>7 DEF Step

LEMMA NextFInv == FInv /\ [Next]_vars => FInv'
<1> SUFFICES ASSUME FInv, [Next]_vars PROVE \A t \in Tasks : FoundInv(task[t])'
  BY NextIInv DEF FInv
<1>1. ASSUME NEW t \in Tasks, Step(t) PROVE \A u \in Tasks : FoundInv(task[u])'
  <2>1. PICK l : task' = [task EXCEPT ![t] = l] /\ FoundInv(l)'
    BY <1>1, QueryFinds, OthersKeepFound
  <2>2. ASSUME NEW u \in Tasks, u # t PROVE FoundInv(task[u])'
    <3>1. FoundInv(task[u]) /\ task'[u] = task[u]
      BY <2>1, <2>2 DEF FInv, IInv, TypeOK
    <3> QED
      BY <1>1, <3>1, OrdersGrow DEF FoundInv, SamePO, SameContent
  <2>3. task'[t] = l
    BY <2>1 DEF FInv, IInv, TypeOK
  <2> QED
    BY <2>1, <2>2, <2>3 DEF FoundInv
<1>2. CASE UNCHANGED <<orders, task>>
  BY <1>2 DEF FInv, FoundInv, SamePO, SameContent
<1>3. CASE \E p \in Processes : Restart(p)
  <2>1. /\ orders' = orders
        /\ \A t \in Tasks : task'[t] = IdleTask \/ task'[t] = task[t]
    BY <1>3 DEF Restart, filed
  <2>2. IdleTask.found = None
    BY DEF IdleTask, NewTask
  <2> QED
    BY <2>1, <2>2 DEF FInv, FoundInv, SamePO, SameContent
<1> QED
  BY <1>1, <1>2, <1>3 DEF Next, LoadProducts, LoadCustomers, NextDay, filed, vars

(* Orders whose lines all name a sku and whose hashes agree have the same    *)
(* skus and quantities up to their order, also as many of each.             *)
LEMMA SameHashSameGoods ==
  ASSUME NEW e \in Emails, NEW f \in Emails, AllNamed(e), AllNamed(f),
         ContentHash(e) = ContentHash(f)
  PROVE  SameGoods(e, f)
<1> DEFINE A == DOMAIN Lines(e)
           B == DOMAIN Lines(f)
           as == [i \in A |-> Goods(Lines(e)[i])]
           bs == [j \in B |-> Goods(Lines(f)[j])]
           V == DOMAIN ContentHash(e)
<1>1. /\ Len(Lines(e)) \in Nat /\ A = 1..Len(Lines(e))
      /\ Len(Lines(f)) \in Nat /\ B = 1..Len(Lines(f))
  BY OrderFields
<1>2. IsFiniteSet(A) /\ IsFiniteSet(B)
  BY <1>1, FS_Interval
<1>3. /\ V = {as[i] : i \in A} /\ V = {bs[j] : j \in B}
      /\ \A v \in V : /\ ContentHash(e)[v] = Cardinality(Fibre(as, v))
                      /\ ContentHash(f)[v] = Cardinality(Fibre(bs, v))
  BY DEF ContentHash, AllNamed, Fibre
<1> HIDE DEF V, A, B, as, bs
<1>4. as \in Surjection(A, V) /\ bs \in [B -> V]
  BY <1>3 DEF Surjection, as, bs
<1>5. AsOften(as, bs, V)
  BY <1>3 DEF AsOften
<1>6. Cardinality(A) = Cardinality(B)
  BY <1>2, <1>4, <1>5, SameFibres
<1>7. Len(Lines(e)) = Len(Lines(f))
  <2>1. \A n \in Nat : Cardinality(1..n) = n
    BY FS_Interval
  <2> QED
    BY <1>1, <1>6, <2>1
<1>8. \A i \in A : as[i] \in V
  BY <1>4 DEF Surjection
<1> QED
  BY <1>5, <1>7, <1>8 DEF SameGoods, AsOften, Fibre, A, B, as, bs

(* An order is escalated as a duplicate only of an order of its customer     *)
(* that another email has on file, with its number or with the same skus in  *)
(* the same quantities, as many of each: counting equal lines loses nothing  *)
(* that the hash is made of.                                                *)
THEOREM DuplicatesAreAlike == Spec => []DuplicateIsAlike
<1>1. ASSUME FInv PROVE DuplicateIsAlike
  <2> SUFFICES ASSUME NEW t \in Tasks, task[t].found # None
               PROVE  LET e == task[t].msg
                      IN  \E o \in orders :
                            /\ o.doc = task[t].found /\ o.doc # e
                            /\ o.customer = task[t].customer
                            /\ \/ OrderOf[e].po # None /\ OrderOf[o.doc].po = OrderOf[e].po
                               \/ AllNamed(e) /\ AllNamed(o.doc) => SameGoods(e, o.doc)
    BY DEF DuplicateIsAlike
  <2>1. task[t].msg \in Emails
    <3>1. task[t].pc # "idle"
      BY <1>1, Own DEF FInv, TaskInv, BusyInv, IdleTask, NewTask
    <3> QED
      BY <1>1, <3>1, Own DEF FInv
  <2>2. PICK o \in orders : /\ o.doc = task[t].found /\ o.doc # task[t].msg
                            /\ o.customer = task[t].customer
                            /\ SamePO(o, task[t].msg) \/ SameContent(o, task[t].msg)
    BY <1>1 DEF FInv, FoundInv
  <2>3. o.doc \in Emails
    BY <1>1, OrderRecordFields DEF FInv, IInv, TypeOK
  <2> QED
    BY <2>1, <2>2, <2>3, SameHashSameGoods DEF SamePO, SameContent
<1>2. Spec => []FInv
  BY InitFInv, NextFInv, PTL DEF Spec
<1> QED
  BY <1>1, <1>2, PTL
=============================================================================
