--------------------------- MODULE OrderDeskProofs ---------------------------
(***************************************************************************)
(* With one worker the pipeline implements the order desk, for any emails  *)
(* and faults.  A create is an entry in a book, a mail Gmail accepts is a  *)
(* letter, the label closes the email; every other step, a crash and a     *)
(* retry included, changes nothing the desk's customer can see.  The last  *)
(* part is about any number of workers, who implement the shared desk.     *)
(***************************************************************************)
EXTENDS OneWorkerProofs, FiniteSetTheorems

MailsOf(d, out) == {i \in DOMAIN out : out[i].doc = d}

(* Neither collection gained or lost a document.                            *)
SameFiled ==
  \A d \in Docs : /\ (orders'[d] = None) = (orders[d] = None)
                  /\ (exceptions'[d] = None) = (exceptions[d] = None)

LEMMA DeskStutters ==
  ASSUME SameFiled, UNCHANGED <<labelled, outbox>>
  PROVE  UNCHANGED Desk!deskVars
BY DEF SameFiled, Desk!deskVars

LEMMA DeskInit == Init => Desk!Init
<1> SUFFICES ASSUME Init PROVE Desk!Init
  OBVIOUS
<1>1. \A d \in Docs : MailsOf(d, outbox) = {}
  BY DEF Init, MailsOf
<1>2. \A d \in Docs : Cardinality(MailsOf(d, outbox)) = 0
  BY <1>1, FS_EmptySet
<1> QED
  BY <1>2 DEF Init, Desk!Init, MailsOf, Docs
-----------------------------------------------------------------------------
LEMMA DeskEnters ==
  ASSUME SInv, NEW w \in Workers, CreateOrder(w) \/ CreateException(w)
  PROVE  Desk!Next
<1> DEFINE s == run[w]
           d == DocOf(w)
<1>1. /\ s \in Run /\ RunInv(s, w, orders, exceptions, approved, outbox)
      /\ SoloRun(s, orders, exceptions, outbox, labelled)
      /\ s.pc = "create" /\ UNCHANGED <<labelled, outbox>>
  BY SoloBefore DEF CreateException, CreateOrder
<1>2. s.pos \in 1..Len(s.entries)
  BY <1>1, RunFields DEF RunInv, Aligned
<1>3. /\ d = DocAt(s, s.pos) /\ d \in Docs /\ s.entries[s.pos].po \in POs
      /\ s.msg \in Emails
  BY <1>1, <1>2, DocAtType DEF DocOf, EntryOf, DocAt, RunInv, Aligned
<1>4. orders[d] = None /\ exceptions[d] = None
  BY <1>1, <1>3 DEF SoloRun, Unfiled
<1>5. d[1] \notin labelled
  BY <1>1 DEF SoloRun, Untouched, DocOf, ComposeDocId
<1>6. /\ \/ orders'[d] # None /\ exceptions'[d] = None
         \/ orders'[d] = None /\ exceptions'[d] # None
      /\ \A c \in Docs : c # d => orders'[c] = orders[c] /\ exceptions'[c] = exceptions[c]
  <2>1. NewOrder(w) \in OrderRecord
    BY <1>3, DayAssumption
    DEF NewOrder, OrderRecord, EntryOf, Drafts, Verdicts, Receipts, SInv, IInv, TypeOK
  <2>2. NewException(w, Validated(s)) \in ExceptionRecord
    <3>1. ThreadOf[s.msg] \in Emails /\ clock \in Nat
      BY <1>3, EmailAssumptions DEF SInv, IInv, TypeOK
    <3> QED
      BY <1>3, <3>1 DEF NewException, ExceptionOf, ExceptionRecord, EntryOf, Drafts,
         Verdicts, Receipts, ExceptionStatus
  <2> HIDE DEF d
  <2>3. CASE CreateOrder(w)
    <3>1. orders' = [orders EXCEPT ![d] = NewOrder(w)] /\ UNCHANGED exceptions
      BY <1>4, <2>3 DEF CreateOrder, Create, d
    <3> QED
      BY <1>3, <1>4, <2>1, <3>1, NoneIsFresh DEF SInv, IInv, TypeOK
  <2>4. CASE CreateException(w)
    <3>1. /\ exceptions' = [exceptions EXCEPT ![d] = NewException(w, Validated(s))]
          /\ UNCHANGED orders
      BY <1>4, <2>4 DEF CreateException, Create, d
    <3> QED
      BY <1>3, <1>4, <2>2, <3>1, NoneIsFresh DEF SInv, IInv, TypeOK
  <2> QED
    BY <2>3, <2>4
<1> HIDE DEF d
<1>7. \E which \in {"order", "exception"} : Desk!Enter(d, which)
  BY <1>1, <1>3, <1>4, <1>5, <1>6 DEF Desk!Enter
<1> QED
  BY <1>3, <1>7 DEF Desk!Next, Docs

LEMMA DeskSends ==
  ASSUME SInv, NEW w \in Workers, SendMail(w)
  PROVE  Desk!Next
<1> DEFINE s == run[w]
           d == DocOf(w)
           mail == [doc |-> d, kind |-> ResultOf(w).kind,
                    body |-> ResultOf(w).body, by |-> w]
           n == Len(outbox) + 1
<1>1. /\ s \in Run /\ RunInv(s, w, orders, exceptions, approved, outbox)
      /\ SoloRun(s, orders, exceptions, outbox, labelled)
      /\ s.pc = "send" /\ AtEntry(w) /\ ~NothingToDo(w)
      /\ outbox' = Append(outbox, mail) /\ UNCHANGED <<labelled, orders, exceptions>>
  BY SoloBefore DEF SendMail, AtSend, stores
<1>2. /\ s.pos \in DOMAIN s.results /\ d = DocAt(s, s.pos) /\ d \in Docs
      /\ ResultOf(w) = s.results[s.pos] /\ ResultOf(w).kind # "duplicate"
      /\ orders[d] # None \/ exceptions[d] # None
  <2>1. ResultOf(w).kind # "duplicate" /\ ResultOf(w) \in Result
    BY <1>1, AtResult DEF NothingToDo, SInv
  <2>2. ResultOf(w).kind \in {"order", "exception"}
    BY <2>1 DEF Result, Kinds
  <2> QED
    BY <1>1, <2>1, <2>2, AtResult, NoneIsFresh DEF SInv
<1>3. d[1] \notin labelled
  BY <1>1 DEF SoloRun, Untouched, DocOf, ComposeDocId
<1>4. NoMail(d, outbox)
  BY <1>1, <1>2, RunFields DEF SoloRun, Unmailed, Past
<1>5. /\ DOMAIN outbox' = DOMAIN outbox \cup {n} /\ n \notin DOMAIN outbox
      /\ outbox'[n].doc = d /\ \A k \in DOMAIN outbox : outbox'[k] = outbox[k]
  BY <1>1 DEF SInv, IInv, TypeOK
<1> HIDE DEF d, mail, n
<1>6. MailsOf(d, outbox) = {} /\ MailsOf(d, outbox') = {n}
  BY <1>4, <1>5 DEF MailsOf, NoMail
<1>7. Cardinality(MailsOf(d, outbox)) = 0 /\ Cardinality(MailsOf(d, outbox')) = 1
  BY <1>6, FS_EmptySet, FS_Singleton
<1>8. \A c \in Docs : c # d => MailsOf(c, outbox') = MailsOf(c, outbox)
  BY <1>5 DEF MailsOf
<1>9. Desk!Send(d)
  <2> DEFINE letters == [c \in Docs |-> Cardinality(MailsOf(c, outbox))]
             after == [c \in Docs |-> Cardinality(MailsOf(c, outbox'))]
  <2>1. letters[d] = 0 /\ after = [letters EXCEPT ![d] = 1]
    BY <1>2, <1>7, <1>8
  <2> QED
    BY <1>1, <1>2, <1>3, <2>1 DEF Desk!Send, MailsOf
<1> QED
  BY <1>2, <1>9 DEF Desk!Next, Docs

LEMMA DeskCloses ==
  ASSUME SInv, NEW w \in Workers, ApplyLabel(w)
  PROVE  Desk!Next
<1>1. run[w].msg \in Emails
  BY SoloBefore, RunFields DEF ApplyLabel, RunInv, Aligned
<1>2. Desk!Close(run[w].msg)
  BY DEF ApplyLabel, stores, Desk!Close
<1> QED
  BY <1>1, <1>2 DEF Desk!Next
-----------------------------------------------------------------------------
(* A record that is amended was on file and stays there.                    *)
LEMMA AmendedStaysFiled ==
  ASSUME IInv, KeepsRecords, NEW d \in Docs,
         \/ /\ orders[d] # None /\ \E new : orders' = [orders EXCEPT ![d] = new]
            /\ UNCHANGED exceptions
         \/ /\ exceptions[d] # None /\ \E new : exceptions' = [exceptions EXCEPT ![d] = new]
            /\ UNCHANGED orders
  PROVE  SameFiled
<1>1. \A c \in Docs : /\ orders[c] # None => orders'[c] # None
                      /\ exceptions[c] # None => exceptions'[c] # None
  BY DEF KeepsRecords, SameOrigin
<1> QED
  BY <1>1 DEF SameFiled, IInv, TypeOK

LEMMA UpdateStaysFiled ==
  ASSUME IInv, KeepsRecords, NEW w \in Workers,
         run[w].pc \in {"judge", "send", "receipt"}, AtEntry(w), NEW v,
         SaveVerdict(w, v) \/ SaveReceipt(w, v)
  PROVE  SameFiled
<1> DEFINE d == DocOf(w)
<1>1. /\ d \in Docs
      /\ ResultOf(w).kind = "order" => orders[d] \in OrderRecord
      /\ ResultOf(w).kind = "exception" => exceptions[d] \in ExceptionRecord
  BY AtResult
<1>2. /\ ResultOf(w).kind = "order" => orders[d] # None
      /\ ResultOf(w).kind = "exception" => exceptions[d] # None
  BY <1>1, NoneIsFresh
<1> HIDE DEF d
<1>3. \/ /\ orders[d] # None /\ \E new : orders' = [orders EXCEPT ![d] = new]
         /\ UNCHANGED exceptions
      \/ /\ exceptions[d] # None /\ \E new : exceptions' = [exceptions EXCEPT ![d] = new]
         /\ UNCHANGED orders
  BY <1>2 DEF SaveVerdict, SaveReceipt, UpdateRecord, PutVerdict, PutReceipt, d
<1> QED
  BY <1>1, <1>3, AmendedStaysFiled

LEMMA AmendStaysFiled ==
  ASSUME IInv, KeepsRecords, NEW w \in Workers,
         \/ ReplyAdvance(w) \/ Confirm(w) \/ Judge(w)
         \/ SendBlocked(w) \/ SendRefused(w) \/ WriteReceipt(w)
  PROVE  SameFiled
<1>1. CASE ReplyAdvance(w)
  <2>1. run[w].target \in Docs /\ exceptions[run[w].target] # None
    BY <1>1, Before, RunFields DEF ReplyAdvance, RunInv, Backed
  <2>2. \E new : exceptions' = [exceptions EXCEPT ![run[w].target] = new]
    BY <1>1, <2>1 DEF ReplyAdvance, PutReply, IInv, TypeOK
  <2> QED
    BY <1>1, <2>1, <2>2, AmendedStaysFiled DEF ReplyAdvance
<1>2. CASE Confirm(w)
  <2> DEFINE s == run[w]
             d == DocOf(w)
  <2>1. /\ s \in Run /\ RunInv(s, w, orders, exceptions, approved, outbox)
        /\ s.pc = "confirm" /\ s.pos <= Len(s.entries) /\ s.results[s.pos].kind = "order"
    BY <1>2, Before DEF Confirm, AtEntry, NothingToDo, ResultOf
  <2>2. s.pos \in DOMAIN s.results /\ s.pos \in 1..Len(s.entries)
    BY <2>1, RunFields DEF RunInv, Aligned, Late
  <2>3. d \in Docs /\ orders[d] # None
    BY <2>1, <2>2, DocAtType DEF DocOf, EntryOf, DocAt, RunInv, Backed
  <2>4. (\E new : orders' = [orders EXCEPT ![d] = new]) /\ UNCHANGED exceptions
    BY <1>2 DEF Confirm, PutBody
  <2> HIDE DEF d
  <2> QED
    BY <2>3, <2>4, AmendedStaysFiled
<1>3. CASE Judge(w)
  <2>1. PICK v : SaveVerdict(w, v)
    BY <1>3 DEF Judge
  <2> QED
    BY <1>3, <2>1, UpdateStaysFiled DEF Judge
<1>4. CASE SendBlocked(w) \/ SendRefused(w) \/ WriteReceipt(w)
  <2>1. run[w].pc \in {"send", "receipt"} /\ AtEntry(w)
    BY <1>4, Before
    DEF SendBlocked, SendRefused, AtSend, WriteReceipt, RunInv, Aligned, AtEntry
  <2>2. (\E v : SaveReceipt(w, v)) \/ UNCHANGED <<orders, exceptions>>
    BY <1>4 DEF SendBlocked, SendRefused, RecordFailure, WriteReceipt
  <2> QED
    BY <2>1, <2>2, UpdateStaysFiled DEF SameFiled
<1> QED
  BY <1>1, <1>2, <1>3, <1>4

LEMMA DeskStep == SInv /\ [Next]_vars => [Desk!Next]_Desk!deskVars
<1>1. ASSUME SInv, KeepsRecords, NEW w \in Workers, Step(w) \/ RunFails(w) \/ Crash(w)
      PROVE  Desk!Next \/ UNCHANGED Desk!deskVars
  <2>1. CASE CreateOrder(w) \/ CreateException(w)
    BY <1>1, <2>1, DeskEnters
  <2>2. CASE SendMail(w)
    BY <1>1, <2>2, DeskSends
  <2>3. CASE ApplyLabel(w)
    BY <1>1, <2>3, DeskCloses
  <2>4. CASE \/ ReplyAdvance(w) \/ Confirm(w) \/ Judge(w)
             \/ SendBlocked(w) \/ SendRefused(w) \/ WriteReceipt(w)
    <3>1. UNCHANGED <<labelled, outbox>>
      BY <2>4 DEF ReplyAdvance, Confirm, Judge, SendBlocked, SendRefused, WriteReceipt
    <3> QED
      BY <1>1, <2>4, <3>1, AmendStaysFiled, DeskStutters DEF SInv
  <2>5. CASE UNCHANGED <<labelled, stores, outbox>>
    BY <2>5, DeskStutters DEF SameFiled, stores
  <2> QED
    BY <1>1, <2>1, <2>2, <2>3, <2>4, <2>5
    DEF Step, Scan, Pick, FindPending, ReplyGuard, Parse, Validate, Clarify,
        PersistPreflight, Reread, Finalize, SendDryRun, SkipEntry, StageDone,
        RunFails, Crash
<1>2. ASSUME UNCHANGED vars \/ NextDay PROVE UNCHANGED Desk!deskVars
  BY <1>2, DeskStutters DEF SameFiled, vars, NextDay, stores
<1>3. ASSUME SInv, [Next]_vars PROVE KeepsRecords
  BY <1>3, NextKeepsRecords DEF SInv
<1> QED
  BY <1>1, <1>2, <1>3 DEF Next

(* Whatever crashes, is retried or changes its mind, one worker is seen to   *)
(* enter a document once, in one book, to mail about it once and after that, *)
(* and to do neither on account of a message it has labelled.                *)
THEOREM OneWorkerImplementsDesk ==
  ASSUME Alone PROVE Spec => ImplementsDesk
<1>1. Init => Desk!Init
  BY DeskInit
<1>2. SInv /\ [Next]_vars => [Desk!Next]_Desk!deskVars
  BY DeskStep
<1> QED
  BY <1>1, <1>2, AlwaysSInv, PTL DEF Spec, ImplementsDesk, Desk!Spec
-----------------------------------------------------------------------------
(***************************************************************************)
(* Any number of workers.                                                  *)
(***************************************************************************)

NoMailBy(w, d, out) == \A k \in DOMAIN out : out[k].doc = d => out[k].by # w

NotBy(w, record) == record # None => record.by # w

(* What worker w has not done before about the documents of its run: the    *)
(* preflight would have found its record.                                   *)
Undone(r, w, ord, exc, out) ==
  /\ r.pc = "create" => /\ NotBy(w, ord[DocAt(r, r.pos)])
                        /\ NotBy(w, exc[DocAt(r, r.pos)])
  /\ r.pc \in {"create", "reread"} => NoMailBy(w, DocAt(r, r.pos), out)
  /\ \A i \in DOMAIN r.results :
       r.results[i].kind # "duplicate" /\ ~Past(r, i) => NoMailBy(w, DocAt(r, i), out)

MailIsFiled ==
  \A k \in DOMAIN outbox :
    orders[outbox[k].doc] # None \/ exceptions[outbox[k].doc] # None

MInv ==
  /\ IInv
  /\ OneMailEach
  /\ MailIsFiled
  /\ \A w \in Workers : Undone(run[w], w, orders, exceptions, outbox)

(* What a step of worker w does is signed by w.                             *)
Authored(w) ==
  \A d \in Docs :
    /\ orders[d] = None /\ orders'[d] # None => orders'[d].by = w
    /\ exceptions[d] = None /\ exceptions'[d] # None => exceptions'[d].by = w

MailsOnly(w) ==
  \A k \in DOMAIN outbox' :
    outbox'[k].by = w \/ (k \in DOMAIN outbox /\ outbox'[k] = outbox[k])

LEMMA MailHasDoc ==
  ASSUME TypeOK, NEW k \in DOMAIN outbox PROVE outbox[k].doc \in Docs
<1>1. outbox[k] \in Mail
  BY DEF TypeOK
<1> QED
  BY <1>1 DEF Mail

LEMMA MBefore ==
  ASSUME MInv, NEW w \in Workers
  PROVE  /\ run \in [Workers -> Run] /\ run[w] \in Run
         /\ RunInv(run[w], w, orders, exceptions, approved, outbox)
         /\ Undone(run[w], w, orders, exceptions, outbox)
BY Before DEF MInv

(* A run that does not move has still done nothing of what it had not done. *)
LEMMA OthersUndone ==
  ASSUME MInv, KeepsRecords, NEW w \in Workers, Authored(w), MailsOnly(w),
         NEW v \in Workers, v # w
  PROVE  Undone(run[v], v, orders', exceptions', outbox')
<1> DEFINE s == run[v]
<1>1. /\ s \in Run /\ Aligned(s) /\ Undone(s, v, orders, exceptions, outbox)
  BY MBefore DEF RunInv
<1>2. s.pc = "create" => DocAt(s, s.pos) \in Docs
  BY <1>1, RunFields, DocAtType DEF Aligned
<1>3. \A d \in Docs : /\ NotBy(v, orders[d]) => NotBy(v, orders'[d])
                      /\ NotBy(v, exceptions[d]) => NotBy(v, exceptions'[d])
  BY DEF NotBy, KeepsRecords, SameOrigin, Authored
<1>4. \A d : NoMailBy(v, d, outbox) => NoMailBy(v, d, outbox')
  BY DEF NoMailBy, MailsOnly
<1> HIDE DEF s
<1> QED
  BY <1>1, <1>2, <1>3, <1>4 DEF Undone, s

(* Worker w alone moves.                                                    *)
Moves(w) == \A v \in Workers : v # w => run'[v] = run[v]

(* The one way every step is shown to preserve the invariant.               *)
LEMMA MStep ==
  ASSUME MInv, IInv', KeepsRecords, OneMailEach', MailIsFiled',
         NEW w \in Workers, Authored(w), MailsOnly(w), Moves(w),
         Undone(run'[w], w, orders', exceptions', outbox')
  PROVE  MInv'
<1>1. \A v \in Workers : v # w => Undone(run[v], v, orders', exceptions', outbox')
  BY OthersUndone
<1>2. \A v \in Workers : Undone(run'[v], v, orders', exceptions', outbox')
  BY <1>1 DEF Moves
<1> QED
  BY <1>2 DEF MInv

(* A step without mail.                                                     *)
LEMMA MSilent ==
  ASSUME MInv, IInv', KeepsRecords, UNCHANGED outbox,
         NEW w \in Workers, Authored(w), Moves(w),
         Undone(run'[w], w, orders', exceptions', outbox)
  PROVE  MInv'
<1>1. OneMailEach' /\ MailsOnly(w)
  BY DEF MInv, OneMailEach, MailsOnly
<1>2. MailIsFiled'
  <2>1. \A k \in DOMAIN outbox : outbox[k].doc \in Docs
    BY MailHasDoc DEF MInv, IInv
  <2> QED
    BY <2>1 DEF MInv, MailIsFiled, KeepsRecords, SameOrigin
<1>3. Undone(run'[w], w, orders', exceptions', outbox')
  OBVIOUS
<1> QED
  BY <1>1, <1>2, <1>3, MStep

LEMMA FiledIsAuthored ==
  ASSUME SameFiled, NEW w PROVE Authored(w)
BY DEF SameFiled, Authored

(* A run that only moves on, past entries that stay what they were.         *)
LEMMA MovesUndone ==
  ASSUME NEW s, NEW r, NEW w, NEW ord, NEW exc, NEW newOrd, NEW newExc, NEW out,
         Undone(s, w, ord, exc, out),
         r.pc \notin {"create", "reread"}, r.msg = s.msg, r.entries = s.entries,
         DOMAIN r.results = DOMAIN s.results,
         \A i \in DOMAIN s.results : r.results[i].kind = s.results[i].kind,
         \A i \in DOMAIN s.results : Past(s, i) => Past(r, i)
  PROVE  Undone(r, w, newOrd, newExc, out)
BY DEF Undone, DocAt

LEMMA BlankUndone ==
  ASSUME NEW r, NEW w, NEW ord, NEW exc, NEW out,
         r.results = <<>>, r.pc \notin {"create", "reread"}
  PROVE  Undone(r, w, ord, exc, out)
BY DEF Undone

(* The beginnings and the ends of runs, where there are no results.         *)
LEMMA MBlank ==
  ASSUME MInv, IInv', KeepsRecords, NEW w \in Workers,
         \/ Scan(w) \/ (\E e \in Emails : Pick(w, e)) \/ FindPending(w) \/ ReplyGuard(w)
         \/ Parse(w) \/ Validate(w) \/ ApplyLabel(w) \/ RunFails(w) \/ Crash(w)
  PROVE  MInv'
<1>1. run \in [Workers -> Run] /\ run[w] \in Run
  BY MBefore
<1>2. UNCHANGED <<orders, exceptions, outbox>>
  BY DEF Scan, Pick, FindPending, ReplyGuard, Parse, Validate, ApplyLabel, RunFails, Crash,
     stores
<1>3. Moves(w) /\ run'[w].pc \in Early \cup {"validate"}
  <2>1. CASE Scan(w) \/ \E e \in Emails : Pick(w, e)
    BY <1>1, <2>1 DEF Scan, Pick, NewRun, Early, Moves, Run
  <2>2. CASE Parse(w) \/ Validate(w)
    BY <1>1, <2>2 DEF Parse, Validate, Moves, Run
  <2>3. CASE ApplyLabel(w) \/ RunFails(w) \/ Crash(w)
    BY <1>1, <2>3 DEF ApplyLabel, RunFails, Crash, NewRun, Early, Moves
  <2>4. CASE FindPending(w)
    BY <1>1, <2>4 DEF FindPending, Early, Moves, Run
  <2>5. CASE ReplyGuard(w)
    BY <1>1, <2>5 DEF ReplyGuard, NewRun, Early, Moves, Run
  <2> QED
    BY <2>1, <2>2, <2>3, <2>4, <2>5
<1>4. run'[w].results = <<>>
  BY <1>3 DEF IInv, WorkerInv, Aligned
<1>5. Undone(run'[w], w, orders', exceptions', outbox)
  BY <1>3, <1>4, BlankUndone DEF Early
<1>6. Authored(w)
  BY <1>2 DEF Authored
<1> QED
  BY <1>2, <1>3, <1>5, <1>6, MSilent

(* A step to another place of the run, the results as they are.             *)
LEMMA MMove ==
  ASSUME MInv, IInv', KeepsRecords, SameFiled, UNCHANGED outbox,
         NEW w \in Workers, Moves(w),
         run'[w].pc \notin {"create", "reread"},
         run'[w].msg = run[w].msg, run'[w].entries = run[w].entries,
         DOMAIN run'[w].results = DOMAIN run[w].results,
         \A i \in DOMAIN run[w].results : run'[w].results[i].kind = run[w].results[i].kind,
         \A i \in DOMAIN run[w].results : Past(run[w], i) => Past(run'[w], i)
  PROVE  MInv'
<1>1. Undone(run'[w], w, orders', exceptions', outbox)
  <2>1. Undone(run[w], w, orders, exceptions, outbox)
    BY MBefore
  <2> QED
    BY <2>1, MovesUndone
<1>2. Authored(w)
  BY FiledIsAuthored
<1> QED
  BY <1>1, <1>2, MSilent

LEMMA MMovesOn ==
  ASSUME MInv, IInv', KeepsRecords, SameFiled, UNCHANGED outbox, NEW w \in Workers,
         \/ ReplyAdvance(w) \/ Clarify(w) \/ Finalize(w) \/ SkipEntry(w) \/ SendDryRun(w)
         \/ StageDone(w) \/ SendBlocked(w) \/ SendRefused(w) \/ WriteReceipt(w)
  PROVE  MInv'
<1> DEFINE s == run[w]
<1>1. /\ run \in [Workers -> Run] /\ s \in Run /\ s.pos \in Nat \ {0}
      /\ s.pc \in Stages /\ \A i \in DOMAIN s.results : i \in Nat
  BY MBefore, RunFields
<1>2. ASSUME NEW pc, NEW pos, run' = [run EXCEPT ![w] = [s EXCEPT !.pc = pc, !.pos = pos]],
             pc \notin {"create", "reread"},
             \A i \in DOMAIN s.results :
               Past(s, i) => pc = "label" \/ (pc = "send" /\ i < pos)
      PROVE  MInv'
  <2>1. /\ Moves(w) /\ run'[w].pc = pc /\ run'[w].pos = pos /\ run'[w].msg = s.msg
        /\ run'[w].entries = s.entries /\ run'[w].results = s.results
    BY <1>1, <1>2 DEF Moves, Run
  <2>2. \A i \in DOMAIN s.results : Past(s, i) => Past(run'[w], i)
    BY <1>2, <2>1 DEF Past
  <2> QED
    BY <1>2, <2>1, <2>2, MMove
<1>3. CASE ReplyAdvance(w) \/ Clarify(w) \/ Finalize(w)
  <2>1. PICK pc \in {"finalize", "persist", "judge"}, pos \in {s.pos, 1} :
          run' = [run EXCEPT ![w] = [s EXCEPT !.pc = pc, !.pos = pos]]
    <3>1. [s EXCEPT !.pc = "finalize"] = [s EXCEPT !.pc = "finalize", !.pos = s.pos]
      BY <1>1 DEF Run
    <3> QED
      BY <1>1, <1>3, <3>1 DEF ReplyAdvance, Clarify, Finalize
  <2>2. s.pc \in {"advance", "clarify", "finalize"}
    BY <1>3 DEF ReplyAdvance, Clarify, Finalize
  <2>3. \A i : ~Past(s, i)
    BY <2>2 DEF Past
  <2> QED
    BY <1>2, <2>1, <2>3
<1>4. CASE SkipEntry(w) \/ SendDryRun(w) \/ SendBlocked(w) \/ SendRefused(w)
  <2>1. /\ s.pc \in {"confirm", "judge", "send"}
        /\ run' = [run EXCEPT ![w] = [s EXCEPT !.pos = s.pos + 1]]
    BY <1>1, <1>4
    DEF SkipEntry, SendDryRun, SendBlocked, SendRefused, RecordFailure, AtSend
  <2>2. [s EXCEPT !.pos = s.pos + 1] = [s EXCEPT !.pc = s.pc, !.pos = s.pos + 1]
    BY <1>1 DEF Run
  <2>3. \A i \in DOMAIN s.results : Past(s, i) => s.pc = "send" /\ i < s.pos + 1
    BY <1>1, <2>1 DEF Past
  <2> QED
    BY <1>2, <2>1, <2>2, <2>3
<1>5. CASE WriteReceipt(w)
  <2>1. /\ s.pc = "receipt"
        /\ run' = [run EXCEPT ![w] = [s EXCEPT !.pc = "send", !.pos = s.pos + 1]]
    BY <1>1, <1>5 DEF WriteReceipt
  <2> DEFINE pc == "send"
             pos == s.pos + 1
  <2>2. run' = [run EXCEPT ![w] = [s EXCEPT !.pc = pc, !.pos = pos]]
    BY <2>1
  <2>3. \A i \in DOMAIN s.results : Past(s, i) => pc = "send" /\ i < pos
    BY <1>1, <2>1 DEF Past
  <2>4. pc \notin {"create", "reread"}
    OBVIOUS
  <2> HIDE DEF pc, pos
  <2> QED
    BY <1>2, <2>2, <2>3, <2>4
<1>6. CASE StageDone(w)
  <2>1. /\ s.pc \in LoopStages
        /\ run' = [run EXCEPT ![w] = [s EXCEPT !.pc = NextStage(s.pc), !.pos = 1]]
    BY <1>1, <1>6 DEF StageDone
  <2>2. /\ NextStage(s.pc) \in {"clarify", "confirm", "finalize", "send", "label"}
        /\ s.pc = "send" => NextStage(s.pc) = "label"
    BY <2>1 DEF NextStage, LoopStages
  <2>3. \A i \in DOMAIN s.results : Past(s, i) => s.pc = "send"
    BY <2>1 DEF Past, LoopStages
  <2> QED
    BY <1>2, <2>1, <2>2, <2>3
<1> QED
  BY <1>3, <1>4, <1>5, <1>6

LEMMA MConfirm ==
  ASSUME MInv, IInv', KeepsRecords, SameFiled, NEW w \in Workers, Confirm(w) PROVE MInv'
<1> DEFINE s == run[w]
           result == [s.results[s.pos] EXCEPT !.body = w]
           r == [s EXCEPT !.results = [s.results EXCEPT ![s.pos] = result], !.pos = s.pos + 1]
<1>1. /\ run \in [Workers -> Run] /\ s \in Run /\ s.pc = "confirm" /\ Aligned(s)
      /\ s.pos <= Len(s.entries) /\ UNCHANGED outbox
  BY MBefore DEF Confirm, AtEntry, RunInv
<1>2. s.results \in Seq(Result) /\ s.pos \in DOMAIN s.results
  BY <1>1, RunFields DEF Aligned, Late
<1>3. result.kind = s.results[s.pos].kind
  <2>1. s.results[s.pos] \in Result
    BY <1>2
  <2> QED
    BY <2>1 DEF Result
<1>4. run' = [run EXCEPT ![w] = r]
  BY <1>1 DEF Confirm
<1>5. run'[w] = r /\ Moves(w)
  BY <1>1, <1>4 DEF Moves
<1> HIDE DEF result
<1>6. /\ r.pc = "confirm" /\ r.msg = s.msg /\ r.entries = s.entries
      /\ r.results = [s.results EXCEPT ![s.pos] = result]
  BY <1>1 DEF Run
<1> HIDE DEF r
<1>7. /\ DOMAIN r.results = DOMAIN s.results
      /\ \A i \in DOMAIN s.results : r.results[i].kind = s.results[i].kind
  BY <1>2, <1>3, <1>6
<1>8. \A i : ~Past(s, i)
  BY <1>1 DEF Past
<1> QED
  BY <1>1, <1>5, <1>6, <1>7, <1>8, MMove

LEMMA MJudge ==
  ASSUME MInv, IInv', KeepsRecords, SameFiled, NEW w \in Workers, Judge(w) PROVE MInv'
<1> DEFINE s == run[w]
<1>1. run \in [Workers -> Run] /\ s \in Run /\ s.pc = "judge" /\ UNCHANGED outbox
  BY MBefore DEF Judge
<1>2. PICK v : run' = [run EXCEPT ![w].verdicts[EntryOf(w).idx] = v, ![w].pos = @ + 1]
  BY DEF Judge
<1>3. /\ Moves(w) /\ run'[w].pc = s.pc /\ run'[w].msg = s.msg
      /\ run'[w].entries = s.entries /\ run'[w].results = s.results
  BY <1>1, <1>2 DEF Moves, Run
<1>4. \A i : ~Past(s, i)
  BY <1>1 DEF Past
<1> QED
  BY <1>1, <1>3, <1>4, MMove

LEMMA UnfiledHasNoMail ==
  ASSUME MInv, NEW d, orders[d] = None, exceptions[d] = None, NEW w
  PROVE  NoMailBy(w, d, outbox)
BY DEF MInv, MailIsFiled, NoMailBy

(* What is on no record was neither entered nor mailed about by anyone.     *)
LEMMA MPreflight ==
  ASSUME MInv, IInv', KeepsRecords, NEW w \in Workers, PersistPreflight(w) PROVE MInv'
<1> DEFINE s == run[w]
<1>1. /\ run \in [Workers -> Run] /\ s \in Run /\ s.pc = "persist" /\ Aligned(s)
      /\ Undone(s, w, orders, exceptions, outbox)
      /\ UNCHANGED <<orders, exceptions, outbox>>
  BY MBefore DEF PersistPreflight, RunInv, stores
<1>2. Authored(w)
  BY <1>1 DEF Authored
<1>3. CASE Recorded(DocOf(w))
  <2> DEFINE dup == [kind |-> "duplicate", body |-> None, receipt |-> "none"]
  <2>1. run' = [run EXCEPT ![w].results = Append(@, dup), ![w].pos = @ + 1]
    BY <1>3 DEF PersistPreflight
  <2>2. dup.kind = "duplicate"
    OBVIOUS
  <2> HIDE DEF dup
  <2>3. /\ Moves(w) /\ run'[w].pc = "persist" /\ run'[w].msg = s.msg
        /\ run'[w].entries = s.entries /\ run'[w].results = Append(s.results, dup)
    BY <1>1, <2>1 DEF Moves, Run
  <2>4. \A i \in DOMAIN Append(s.results, dup) :
          Append(s.results, dup)[i].kind # "duplicate" =>
            i \in DOMAIN s.results /\ Append(s.results, dup)[i] = s.results[i]
    BY <1>1, <2>2, RunFields
  <2>5. Undone(run'[w], w, orders', exceptions', outbox)
    BY <1>1, <2>3, <2>4 DEF Undone, Past, DocAt
  <2> QED
    BY <1>1, <1>2, <2>3, <2>5, MSilent
<1>4. CASE ~Recorded(DocOf(w))
  <2>1. run' = [run EXCEPT ![w].pc = "create"]
    BY <1>4 DEF PersistPreflight
  <2>2. /\ Moves(w) /\ run'[w].pc = "create" /\ run'[w].msg = s.msg /\ run'[w].pos = s.pos
        /\ run'[w].entries = s.entries /\ run'[w].results = s.results
    BY <1>1, <2>1 DEF Moves, Run
  <2>3. /\ orders[DocAt(s, s.pos)] = None /\ exceptions[DocAt(s, s.pos)] = None
        /\ NoMailBy(w, DocAt(s, s.pos), outbox)
    BY <1>4, UnfiledHasNoMail DEF Recorded, DocOf, EntryOf, DocAt
  <2>4. Undone(run'[w], w, orders', exceptions', outbox)
    BY <1>1, <2>2, <2>3 DEF Undone, Past, DocAt, NotBy
  <2> QED
    BY <1>1, <1>2, <2>2, <2>4, MSilent
<1> QED
  BY <1>3, <1>4

LEMMA MCreate ==
  ASSUME MInv, IInv', KeepsRecords, NEW w \in Workers,
         CreateOrder(w) \/ CreateException(w)
  PROVE  MInv'
<1> DEFINE s == run[w]
           d == DocOf(w)
<1>1. /\ run \in [Workers -> Run] /\ s \in Run /\ s.pc = "create" /\ Aligned(s)
      /\ Undone(s, w, orders, exceptions, outbox) /\ UNCHANGED outbox
      /\ run' = [run EXCEPT ![w].pc = "reread"]
  BY MBefore DEF CreateOrder, CreateException, RunInv
<1>2. d \in Docs
  <2>1. s.pos \in 1..Len(s.entries)
    BY <1>1, RunFields DEF Aligned
  <2> QED
    BY <1>1, <2>1, DocAtType DEF DocOf, EntryOf, DocAt
<1>3. Authored(w)
  <2>1. /\ NewOrder(w).by = w
        /\ NewException(w, Validated(s)).by = w
        /\ orders \in [Docs -> OrderRecord \cup {None}]
        /\ exceptions \in [Docs -> ExceptionRecord \cup {None}]
    BY DEF NewOrder, NewException, ExceptionOf, MInv, IInv, TypeOK
  <2> HIDE DEF d
  <2>2. CASE CreateOrder(w)
    <3> DEFINE new == NewOrder(w)
    <3>1. orders' = Create(orders, d, new) /\ UNCHANGED exceptions
      BY <2>2 DEF CreateOrder, d
    <3> HIDE DEF new
    <3> QED
      BY <1>2, <2>1, <3>1 DEF Create, Authored, new
  <2>3. CASE CreateException(w)
    <3> DEFINE new == NewException(w, Validated(s))
    <3>1. exceptions' = Create(exceptions, d, new) /\ UNCHANGED orders
      BY <2>3 DEF CreateException, d
    <3> HIDE DEF new
    <3> QED
      BY <1>2, <2>1, <3>1 DEF Create, Authored, new
  <2> QED
    BY <2>2, <2>3
<1>4. /\ Moves(w) /\ run'[w].pc = "reread" /\ run'[w].msg = s.msg /\ run'[w].pos = s.pos
      /\ run'[w].entries = s.entries /\ run'[w].results = s.results
  BY <1>1 DEF Moves, Run
<1>5. Undone(run'[w], w, orders', exceptions', outbox)
  BY <1>1, <1>4 DEF Undone, Past, DocAt
<1> QED
  BY <1>1, <1>3, <1>4, <1>5, MSilent

LEMMA MReread ==
  ASSUME MInv, IInv', KeepsRecords, NEW w \in Workers, Reread(w) PROVE MInv'
<1> DEFINE s == run[w]
<1>1. /\ run \in [Workers -> Run] /\ s \in Run /\ s.pc = "reread" /\ Aligned(s)
      /\ Undone(s, w, orders, exceptions, outbox)
      /\ UNCHANGED <<orders, exceptions, outbox>>
  BY MBefore DEF Reread, RunInv, stores
<1>2. PICK result :
        run' = [run EXCEPT ![w].results = Append(@, result), ![w].pc = "persist",
                           ![w].pos = @ + 1]
  BY DEF Reread
<1>3. /\ Moves(w) /\ run'[w].pc = "persist" /\ run'[w].msg = s.msg
      /\ run'[w].entries = s.entries /\ run'[w].results = Append(s.results, result)
  BY <1>1, <1>2 DEF Moves, Run
<1>4. s.results \in Seq(Result) /\ Len(s.results) = s.pos - 1 /\ s.pos \in Nat
  BY <1>1, RunFields DEF Aligned, Writing
<1>5. \A i \in DOMAIN Append(s.results, result) :
        i = s.pos \/ (i \in DOMAIN s.results /\ Append(s.results, result)[i] = s.results[i])
  BY <1>4
<1>6. Undone(run'[w], w, orders', exceptions', outbox)
  BY <1>1, <1>3, <1>5 DEF Undone, Past, DocAt
<1>7. Authored(w)
  BY <1>1 DEF Authored
<1> QED
  BY <1>1, <1>3, <1>6, <1>7, MSilent

(* The worker has not mailed about the document before.                     *)
LEMMA MSendMail ==
  ASSUME MInv, IInv', KeepsRecords, NEW w \in Workers, SendMail(w) PROVE MInv'
<1> DEFINE s == run[w]
           d == DocOf(w)
           mail == [doc |-> d, kind |-> ResultOf(w).kind,
                    body |-> ResultOf(w).body, by |-> w]
           n == Len(outbox) + 1
<1>1. /\ run \in [Workers -> Run] /\ s \in Run /\ Aligned(s) /\ NoTwin(s)
      /\ Undone(s, w, orders, exceptions, outbox) /\ s.pc = "send"
      /\ AtEntry(w) /\ ~NothingToDo(w)
      /\ outbox' = Append(outbox, mail) /\ UNCHANGED <<orders, exceptions>>
  BY MBefore DEF SendMail, AtSend, RunInv, stores
<1>2. /\ s.pos \in DOMAIN s.results /\ d = DocAt(s, s.pos) /\ d \in Docs
      /\ s.results[s.pos].kind # "duplicate"
      /\ orders[d] # None \/ exceptions[d] # None
  <2>1. ResultOf(w).kind # "duplicate" /\ ResultOf(w) \in Result
    BY <1>1, AtResult DEF NothingToDo, MInv
  <2>2. ResultOf(w).kind \in {"order", "exception"}
    BY <2>1 DEF Result, Kinds
  <2> QED
    BY <1>1, <2>1, <2>2, AtResult, NoneIsFresh DEF MInv
<1>3. PICK accepted \in BOOLEAN :
        run' = [run EXCEPT ![w].pc = "receipt", ![w].accepted = accepted]
  BY DEF SendMail
<1>4. /\ Moves(w) /\ run'[w].pc = "receipt" /\ run'[w].pos = s.pos /\ run'[w].msg = s.msg
      /\ run'[w].entries = s.entries /\ run'[w].results = s.results
  BY <1>1, <1>3 DEF Moves, Run
<1>5. /\ DOMAIN outbox' = DOMAIN outbox \cup {n} /\ n \notin DOMAIN outbox
      /\ outbox'[n].doc = d /\ outbox'[n].by = w
      /\ \A k \in DOMAIN outbox : outbox'[k] = outbox[k]
  BY <1>1 DEF MInv, IInv, TypeOK
<1>6. NoMailBy(w, d, outbox)
  BY <1>1, <1>2, RunFields DEF Undone, Past
<1> HIDE DEF d, mail, n
<1>7. OneMailEach'
  BY <1>5, <1>6 DEF OneMailEach, NoMailBy, MInv
<1>8. MailIsFiled'
  BY <1>1, <1>2, <1>5 DEF MailIsFiled, MInv
<1>9. MailsOnly(w) /\ Authored(w)
  BY <1>1, <1>5 DEF MailsOnly, Authored
<1>10. Undone(run'[w], w, orders', exceptions', outbox')
  <2> SUFFICES ASSUME NEW i \in DOMAIN s.results, s.results[i].kind # "duplicate",
                      ~Past(run'[w], i)
               PROVE  NoMailBy(w, DocAt(s, i), outbox')
    BY <1>4 DEF Undone, DocAt
  <2>1. i # s.pos /\ ~Past(s, i)
    BY <1>1, <1>2, <1>4, RunFields DEF Past
  <2>2. DocAt(s, i) # d
    BY <1>1, <1>2, <2>1, DistinctDocs
  <2>3. NoMailBy(w, DocAt(s, i), outbox)
    BY <1>1, <2>1 DEF Undone
  <2> QED
    BY <1>5, <2>2, <2>3 DEF NoMailBy
<1> QED
  BY <1>4, <1>7, <1>8, <1>9, <1>10, MStep

LEMMA InitMInv == Init => MInv
<1> SUFFICES ASSUME Init PROVE MInv
  OBVIOUS
<1>1. \A w \in Workers : run[w].results = <<>> /\ run[w].pc = "idle"
  BY DEF Init, NewRun
<1>2. \A w \in Workers : Undone(run[w], w, orders, exceptions, outbox)
  BY <1>1, BlankUndone
<1> QED
  BY <1>2, InitIInv DEF Init, MInv, OneMailEach, MailIsFiled

LEMMA NextMInv == MInv /\ [Next]_vars => MInv'
<1>1. ASSUME MInv, [Next]_vars PROVE IInv' /\ KeepsRecords
  BY <1>1, NextIInv, NextKeepsRecords DEF MInv
<1>2. ASSUME MInv, IInv', KeepsRecords, NEW w \in Workers,
             Step(w) \/ RunFails(w) \/ Crash(w)
      PROVE  MInv'
  <2>1. CASE \/ ReplyAdvance(w) \/ Confirm(w) \/ Judge(w)
             \/ SendBlocked(w) \/ SendRefused(w) \/ WriteReceipt(w)
    <3>1. SameFiled /\ UNCHANGED outbox
      BY <1>2, <2>1, AmendStaysFiled
      DEF MInv, ReplyAdvance, Confirm, Judge, SendBlocked, SendRefused, WriteReceipt
    <3> QED
      BY <1>2, <2>1, <3>1, MConfirm, MJudge, MMovesOn
  <2>2. CASE \/ Clarify(w) \/ Finalize(w) \/ SkipEntry(w) \/ SendDryRun(w) \/ StageDone(w)
    <3>1. SameFiled /\ UNCHANGED outbox
      BY <2>2 DEF Clarify, Finalize, SkipEntry, SendDryRun, StageDone, SameFiled, stores
    <3> QED
      BY <1>2, <2>2, <3>1, MMovesOn
  <2> QED
    BY <1>2, <2>1, <2>2, MBlank, MPreflight, MCreate, MReread, MSendMail DEF Step
<1>3. ASSUME MInv, UNCHANGED vars \/ NextDay PROVE MInv'
  <2>1. IInv'
    BY <1>3, NextIInv DEF MInv, Next
  <2> QED
    BY <1>3, <2>1
    DEF vars, NextDay, stores, MInv, OneMailEach, MailIsFiled, Undone, NotBy, NoMailBy
<1> QED
  BY <1>1, <1>2, <1>3 DEF Next

LEMMA AlwaysMInv == Spec => []MInv
BY InitMInv, NextMInv, PTL DEF Spec

(* However many workers race, crash and retry, none of them mails twice     *)
(* about a document: what it mailed about is on record, and stops it then.  *)
THEOREM OneMailOfEachWorker == Spec => []OneMailEach
BY AlwaysMInv, PTL DEF MInv

(* The copies of a mail a customer gets are at most as many as the workers, *)
(* however often they crash and retry.                                      *)
THEOREM CopiesAreBounded ==
  ASSUME IsFiniteSet(Workers)
  PROVE  Spec => [](\A d \in Docs : Cardinality(MailsOf(d, outbox)) <= Cardinality(Workers))
<1> DEFINE Few == \A d \in Docs : Cardinality(MailsOf(d, outbox)) <= Cardinality(Workers)
<1>1. ASSUME MInv PROVE Few
  <2> SUFFICES ASSUME NEW d \in Docs
               PROVE  Cardinality(MailsOf(d, outbox)) <= Cardinality(Workers)
    OBVIOUS
  <2> DEFINE Author == [i \in MailsOf(d, outbox) |-> outbox[i].by]
  <2>1. \A i \in DOMAIN outbox : outbox[i] \in Mail
    BY <1>1 DEF MInv, IInv, TypeOK
  <2>2. Author \in Injection(MailsOf(d, outbox), Workers)
    BY <1>1, <2>1 DEF MailsOf, Mail, MInv, OneMailEach, Injection, IsInjective
  <2> QED
    BY <2>2, FS_Injection
<1>2. MInv => Few
  BY <1>1
<1> QED
  BY <1>2, AlwaysMInv, PTL
-----------------------------------------------------------------------------
(* The shared desk.                                                        *)

InBook == {"order", "exception"}

LEMMA SharedInit == Init => Shared!Init
<1> SUFFICES ASSUME Init PROVE Shared!Init
  OBVIOUS
<1>1. \A d, w, b : MailsBy(d, w, b) = {}
  BY DEF Init, MailsBy
<1>2. \A d, w, b : Cardinality(MailsBy(d, w, b)) = 0
  BY <1>1, FS_EmptySet
<1>3. Letters = [d \in Docs |-> [w \in Workers |-> [b \in InBook |-> 0]]]
  BY <1>2 DEF Letters, InBook
<1>4. Entered = [d \in Docs |-> [b \in InBook |-> None]]
  BY DEF Init, Entered, InBook
<1> QED
  BY <1>3, <1>4 DEF Shared!Init, Shared!Books, InBook, Docs

LEMMA SharedStutters ==
  ASSUME KeepsRecords, SameFiled, UNCHANGED outbox
  PROVE  UNCHANGED Shared!deskVars
<1>1. UNCHANGED Letters
  BY DEF Letters, MailsBy
<1>2. \A d \in Docs :
        /\ orders'[d] = None <=> orders[d] = None
        /\ exceptions'[d] = None <=> exceptions[d] = None
        /\ orders[d] # None => orders'[d].by = orders[d].by
        /\ exceptions[d] # None => exceptions'[d].by = exceptions[d].by
  BY DEF SameFiled, KeepsRecords, SameOrigin
<1>3. UNCHANGED Entered
  BY <1>2 DEF Entered
<1> QED
  BY <1>1, <1>3 DEF Shared!deskVars

(* One new record, in one book, is an entry of its writer.                  *)
LEMMA SharedEntry ==
  ASSUME NEW w \in Workers, NEW d \in Docs, NEW which \in InBook, w # None,
         NotBy(w, orders[d]), NotBy(w, exceptions[d]), UNCHANGED outbox,
         \/ /\ which = "order" /\ UNCHANGED exceptions
            /\ orders[d] = None /\ orders'[d] # None /\ orders'[d].by = w
            /\ \A c \in Docs : c # d => orders'[c] = orders[c]
         \/ /\ which = "exception" /\ UNCHANGED orders
            /\ exceptions[d] = None /\ exceptions'[d] # None /\ exceptions'[d].by = w
            /\ \A c \in Docs : c # d => exceptions'[c] = exceptions[c]
  PROVE  Shared!Enter(w, d, which)
<1>1. UNCHANGED Letters
  BY DEF Letters, MailsBy
<1>2. Entered[d][which] = None /\ \A b \in InBook : Entered[d][b] # w
  BY DEF Entered, NotBy, InBook
<1>3. /\ Entered'[d][which] = w
      /\ \A b \in InBook : b # which => Entered'[d][b] = Entered[d][b]
      /\ \A c \in Docs : c # d => Entered'[c] = Entered[c]
  BY DEF Entered, InBook
<1>4. /\ Entered = [c \in Docs |-> [b \in InBook |-> Entered[c][b]]]
      /\ Entered' = [c \in Docs |-> [b \in InBook |-> Entered'[c][b]]]
  BY DEF Entered, InBook
<1>5. Entered' = [Entered EXCEPT ![d][which] = w]
  BY <1>3, <1>4
<1> QED
  BY <1>1, <1>2, <1>5 DEF Shared!Enter, Shared!Books, InBook

(* A create is an entry, or finds the record of another worker there.       *)
LEMMA SharedEnters ==
  ASSUME MInv, KeepsRecords, NEW w \in Workers, CreateOrder(w) \/ CreateException(w)
  PROVE  Shared!Next \/ UNCHANGED Shared!deskVars
<1> DEFINE s == run[w]
           d == DocOf(w)
           order == NewOrder(w)
           exception == NewException(w, Validated(s))
<1>1. /\ s \in Run /\ s.pc = "create" /\ Aligned(s) /\ s.msg \in Emails
      /\ Undone(s, w, orders, exceptions, outbox) /\ UNCHANGED outbox
      /\ orders \in [Docs -> OrderRecord \cup {None}]
      /\ exceptions \in [Docs -> ExceptionRecord \cup {None}] /\ clock \in Nat
  BY MBefore DEF CreateOrder, CreateException, RunInv, Aligned, MInv, IInv, TypeOK
<1>2. s.pos \in 1..Len(s.entries)
  BY <1>1, RunFields DEF Aligned
<1>3. d = DocAt(s, s.pos) /\ d \in Docs /\ EntryOf(w).po \in POs
  BY <1>1, <1>2, DocAtType DEF DocOf, EntryOf, DocAt
<1>4. NotBy(w, orders[d]) /\ NotBy(w, exceptions[d])
  BY <1>1, <1>3 DEF Undone
<1>5. order # None /\ order.by = w
  <2>1. order \in OrderRecord
    BY <1>3, DayAssumption
    DEF NewOrder, OrderRecord, Drafts, Verdicts, Receipts, MInv, IInv, TypeOK
  <2> QED
    BY <2>1, NoneIsFresh DEF NewOrder
<1>6. exception # None /\ exception.by = w
  <2>1. ThreadOf[s.msg] \in Emails
    BY <1>1, EmailAssumptions
  <2>2. exception \in ExceptionRecord
    BY <1>1, <1>3, <2>1
    DEF NewException, ExceptionOf, ExceptionRecord, Drafts, Verdicts, Receipts, ExceptionStatus
  <2> QED
    BY <2>2, NoneIsFresh DEF NewException, ExceptionOf
<1>7. \/ orders' = Create(orders, d, order) /\ UNCHANGED exceptions
      \/ exceptions' = Create(exceptions, d, exception) /\ UNCHANGED orders
  BY DEF CreateOrder, CreateException
<1> HIDE DEF d, order, exception
<1>8. ASSUME NEW which \in InBook, Shared!Enter(w, d, which) PROVE Shared!Next
  BY <1>3, <1>8 DEF Shared!Next, Shared!Books, InBook, Docs
<1>9. CASE orders' = Create(orders, d, order) /\ UNCHANGED exceptions /\ orders[d] = None
  <2>1. Shared!Enter(w, d, "order")
    <3>1. orders'[d] = order /\ \A c \in Docs : c # d => orders'[c] = orders[c]
      BY <1>1, <1>3, <1>9 DEF Create
    <3> QED
      BY <1>1, <1>3, <1>4, <1>5, <1>9, <3>1, SharedEntry, NoneIsFresh DEF InBook
  <2> QED
    BY <1>8, <2>1 DEF InBook
<1>10. CASE /\ exceptions' = Create(exceptions, d, exception) /\ UNCHANGED orders
            /\ exceptions[d] = None
  <2>1. Shared!Enter(w, d, "exception")
    <3>1. exceptions'[d] = exception /\ \A c \in Docs : c # d => exceptions'[c] = exceptions[c]
      BY <1>1, <1>3, <1>10 DEF Create
    <3> QED
      BY <1>1, <1>3, <1>4, <1>6, <1>10, <3>1, SharedEntry, NoneIsFresh DEF InBook
  <2> QED
    BY <1>8, <2>1 DEF InBook
<1>11. CASE UNCHANGED <<orders, exceptions>>
  BY <1>1, <1>11, SharedStutters DEF SameFiled
<1> QED
  BY <1>7, <1>9, <1>10, <1>11 DEF Create

(* One more mail, by its worker and about its book, is a letter.            *)
LEMMA SharedLetter ==
  ASSUME NEW w \in Workers, NEW d \in Docs, NEW which \in InBook, NEW n,
         UNCHANGED <<orders, exceptions>>, Entered[d][which] # None,
         NoMailBy(w, d, outbox), DOMAIN outbox' = DOMAIN outbox \cup {n},
         n \notin DOMAIN outbox,
         outbox'[n].doc = d, outbox'[n].by = w, outbox'[n].kind = which,
         \A k \in DOMAIN outbox : outbox'[k] = outbox[k]
  PROVE  Shared!Send(w, d, which)
<1>1. /\ \A b \in InBook : MailsBy(d, w, b) = {}
      /\ MailsBy(d, w, which)' = {n}
      /\ \A b \in InBook : b # which => MailsBy(d, w, b)' = {}
  BY DEF MailsBy, NoMailBy
<1>2. \A c \in Docs, v \in Workers, b \in InBook :
        c # d \/ v # w => MailsBy(c, v, b)' = MailsBy(c, v, b)
  BY DEF MailsBy
<1>3. \A c \in Docs, v \in Workers, b \in InBook :
        /\ Letters[c][v][b] = Cardinality(MailsBy(c, v, b))
        /\ Letters'[c][v][b] = Cardinality(MailsBy(c, v, b)')
  BY DEF Letters, InBook
<1>4. /\ \A b \in InBook : Letters[d][w][b] = 0
      /\ Letters'[d][w][which] = 1
      /\ \A b \in InBook : b # which => Letters'[d][w][b] = 0
  <2>1. Cardinality({}) = 0 /\ Cardinality({n}) = 1
    BY FS_EmptySet, FS_Singleton
  <2>2. /\ \A b \in InBook : Cardinality(MailsBy(d, w, b)) = 0
        /\ Cardinality(MailsBy(d, w, which)') = 1
        /\ \A b \in InBook : b # which => Cardinality(MailsBy(d, w, b)') = 0
    BY <1>1, <2>1
  <2> QED
    BY <1>3, <2>2
<1>5. \A c \in Docs, v \in Workers, b \in InBook :
        c # d \/ v # w => Letters'[c][v][b] = Letters[c][v][b]
  BY <1>2, <1>3
<1>6. /\ Letters = [c \in Docs |-> [v \in Workers |-> [b \in InBook |-> Letters[c][v][b]]]]
      /\ Letters' = [c \in Docs |-> [v \in Workers |-> [b \in InBook |-> Letters'[c][v][b]]]]
  BY DEF Letters, InBook
<1>7. Letters' = [Letters EXCEPT ![d][w][which] = 1]
  <2>1. Letters'[d][w] = [Letters[d][w] EXCEPT ![which] = 1]
    BY <1>4, <1>6
  <2>2. Letters'[d] = [Letters[d] EXCEPT ![w] = [Letters[d][w] EXCEPT ![which] = 1]]
    BY <1>5, <1>6, <2>1
  <2> QED
    BY <1>5, <1>6, <2>2
<1>8. UNCHANGED Entered
  BY DEF Entered
<1> QED
  BY <1>4, <1>7, <1>8 DEF Shared!Send, Shared!Books, InBook

LEMMA SharedSends ==
  ASSUME MInv, NEW w \in Workers, SendMail(w) PROVE Shared!Next
<1> DEFINE s == run[w]
           d == DocOf(w)
           which == ResultOf(w).kind
           mail == [doc |-> d, kind |-> which, body |-> ResultOf(w).body, by |-> w]
           n == Len(outbox) + 1
<1>1. /\ s \in Run /\ RunInv(s, w, orders, exceptions, approved, outbox)
      /\ Undone(s, w, orders, exceptions, outbox) /\ s.pc = "send"
      /\ AtEntry(w) /\ ~NothingToDo(w)
      /\ outbox' = Append(outbox, mail) /\ UNCHANGED <<orders, exceptions>>
  BY MBefore DEF SendMail, AtSend, stores
<1>2. ResultOf(w).kind # "duplicate" /\ ResultOf(w) \in Result
  BY <1>1, AtResult DEF NothingToDo, MInv
<1>3. which \in InBook
  BY <1>2 DEF Result, Kinds, InBook
<1>4. /\ s.pos \in DOMAIN s.results /\ d = DocAt(s, s.pos) /\ d \in Docs
      /\ which = s.results[s.pos].kind
      /\ which = "order" => orders[d] \in OrderRecord
      /\ which = "exception" => exceptions[d] \in ExceptionRecord
  BY <1>1, AtResult DEF MInv
<1>5. NoMailBy(w, d, outbox)
  BY <1>1, <1>2, <1>4, RunFields DEF Undone, Past
<1>6. /\ DOMAIN outbox' = DOMAIN outbox \cup {n} /\ n \notin DOMAIN outbox
      /\ outbox'[n].doc = d /\ outbox'[n].by = w /\ outbox'[n].kind = which
      /\ \A k \in DOMAIN outbox : outbox'[k] = outbox[k]
  BY <1>1 DEF MInv, IInv, TypeOK
<1>7. Entered[d][which] # None
  <2>1. /\ which = "order" => orders[d] # None /\ orders[d].by \in Workers
        /\ which = "exception" => exceptions[d] # None /\ exceptions[d].by \in Workers
    BY <1>4, NoneIsFresh DEF OrderRecord, ExceptionRecord
  <2> HIDE DEF d, which
  <2> QED
    BY <1>3, <1>4, <2>1, NoneIsFresh DEF Entered, InBook
<1> HIDE DEF d, which, mail, n
<1>8. Shared!Send(w, d, which)
  BY <1>1, <1>3, <1>4, <1>5, <1>6, <1>7, SharedLetter
<1> QED
  BY <1>3, <1>4, <1>8 DEF Shared!Next, Shared!Books, InBook, Docs

LEMMA SharedStep == MInv /\ [Next]_vars => [Shared!Next]_Shared!deskVars
<1>1. ASSUME MInv, [Next]_vars PROVE KeepsRecords
  BY <1>1, NextKeepsRecords DEF MInv
<1>2. ASSUME MInv, KeepsRecords, NEW w \in Workers, Step(w) \/ RunFails(w) \/ Crash(w)
      PROVE  Shared!Next \/ UNCHANGED Shared!deskVars
  <2>1. CASE CreateOrder(w) \/ CreateException(w)
    BY <1>2, <2>1, SharedEnters
  <2>2. CASE SendMail(w)
    BY <1>2, <2>2, SharedSends
  <2>3. CASE \/ ReplyAdvance(w) \/ Confirm(w) \/ Judge(w)
             \/ SendBlocked(w) \/ SendRefused(w) \/ WriteReceipt(w)
    <3>1. SameFiled /\ UNCHANGED outbox
      BY <1>2, <2>3, AmendStaysFiled
      DEF MInv, ReplyAdvance, Confirm, Judge, SendBlocked, SendRefused, WriteReceipt
    <3> QED
      BY <1>2, <3>1, SharedStutters
  <2>4. CASE UNCHANGED <<stores, outbox>>
    BY <1>2, <2>4, SharedStutters DEF SameFiled, stores
  <2> QED
    BY <1>2, <2>1, <2>2, <2>3, <2>4
    DEF Step, Scan, Pick, FindPending, ReplyGuard, Parse, Validate, Clarify,
        PersistPreflight, Reread, Finalize, SendDryRun, SkipEntry, StageDone,
        ApplyLabel, RunFails, Crash
<1>3. ASSUME KeepsRecords, UNCHANGED vars \/ NextDay PROVE UNCHANGED Shared!deskVars
  BY <1>3, SharedStutters DEF SameFiled, vars, NextDay, stores
<1> QED
  BY <1>1, <1>2, <1>3 DEF Next

(* Any number of workers share the desk: nothing is entered over another    *)
(* entry, no worker enters a document twice, in whatever book, or mails     *)
(* twice about it, and every mail is about a record of its collection.      *)
THEOREM WorkersShareTheDesk == Spec => ImplementsSharedDesk
<1>1. Init => Shared!Init
  BY SharedInit
<1>2. MInv /\ [Next]_vars => [Shared!Next]_Shared!deskVars
  BY SharedStep
<1> QED
  BY <1>1, <1>2, AlwaysMInv, PTL DEF Spec, ImplementsSharedDesk, Shared!Spec
=============================================================================
