-------------------------- MODULE OneWorkerProofs --------------------------
(***************************************************************************)
(* Theorems about IntakePipeline with one worker, for any emails, purchase *)
(* orders and faults: what the design relies on nobody else running.       *)
(*                                                                         *)
(* They add to IInv what only this worker can change while its run lasts:  *)
(* a document that was not recorded at the preflight is not recorded at    *)
(* the create, the copy of a record in the session is as the record is,    *)
(* and nothing was mailed about a document whose turn in Send is to come.  *)
(***************************************************************************)
EXTENDS IntakePipelineProofs, Positions

Alone == \A v, w \in Workers : v = w

NoMail(d, out) == \A k \in DOMAIN out : out[k].doc # d

RecordAt(kind, d, ord, exc) == IF kind = "order" THEN ord[d] ELSE exc[d]

(* The message of a run is not labelled and not on the list any more.       *)
Untouched(r, lab) ==
  /\ r.scanned \cap lab = {}
  /\ r.pc # "idle" => r.msg \notin lab /\ r.msg \notin r.scanned

(* What the preflight saw still holds at the create.                        *)
Unfiled(r, ord, exc) ==
  r.pc = "create" => ord[DocAt(r, r.pos)] = None /\ exc[DocAt(r, r.pos)] = None

(* Entries that Send is through with.                                       *)
Past(r, i) ==
  \/ r.pc = "label"
  \/ r.pc = "send" /\ i < r.pos
  \/ r.pc = "receipt" /\ i <= r.pos

(* Nothing was mailed about a document before its turn in Send.             *)
Unmailed(r, out) ==
  /\ r.pc = "reread" => NoMail(DocAt(r, r.pos), out)
  /\ \A i \in DOMAIN r.results :
       r.results[i].kind # "duplicate" /\ ~Past(r, i) => NoMail(DocAt(r, i), out)

(* The copy in the session is as the record is.                             *)
Copied(r, ord, exc) ==
  \A i \in DOMAIN r.results :
    r.results[i].kind # "duplicate" =>
      /\ RecordAt(r.results[i].kind, DocAt(r, i), ord, exc).body = r.results[i].body
      /\ r.verdicts[r.entries[i].idx] = "pass" =>
           RecordAt(r.results[i].kind, DocAt(r, i), ord, exc).verdict = "pass"

(* What an approved entry asks for is on file for another email at most from *)
(* before the window.                                                        *)
OwnPO(r, ord) ==
  /\ r.entries = <<>> \/ r.entries \in Extractions[r.msg]
  /\ \A i \in DOMAIN r.decision :
       r.decision[i] = "auto_approve" =>
         \A d \in Docs :
           ord[d] # None /\ ord[d].po = r.entries[i].po /\ d[1] # r.msg =>
             ord[d].day + Window < today

(* What the guard of update_with_reply saw still holds at the write.        *)
Waiting(r, exc) == r.pc = "advance" => exc[r.target].status = "pending_clarify"

SoloRun(r, ord, exc, out, lab) ==
  /\ Untouched(r, lab)
  /\ Unfiled(r, ord, exc)
  /\ Unmailed(r, out)
  /\ Copied(r, ord, exc)
  /\ OwnPO(r, ord)
  /\ Waiting(r, exc)

(* At most one mail of a document, whichever collection it is in.           *)
OneLetter == \A i, j \in DOMAIN outbox : outbox[i].doc = outbox[j].doc => i = j

Unanswered ==
  \A d \in Docs :
    exceptions[d] # None /\ exceptions[d].status = "pending_clarify" =>
      exceptions[d].reply = None

Books == OneBook /\ OneLetter /\ RecordMatchesMail /\ OneOrderPerPO /\ Unanswered

SInv ==
  /\ IInv
  /\ Books
  /\ \A w \in Workers : SoloRun(run[w], orders, exceptions, outbox, labelled)
-----------------------------------------------------------------------------
LEMMA SoloBefore ==
  ASSUME SInv, NEW w \in Workers
  PROVE  /\ run[w] \in Run
         /\ RunInv(run[w], w, orders, exceptions, approved, outbox)
         /\ SoloRun(run[w], orders, exceptions, outbox, labelled)
BY Before DEF SInv

(* The one way every step is shown to preserve the invariant.               *)
LEMMA SoloStep ==
  ASSUME Alone, SInv, IInv', Books', NEW w \in Workers, NEW r,
         run' = [run EXCEPT ![w] = r], today' = today,
         SoloRun(r, orders', exceptions', outbox', labelled')
  PROVE  SInv'
<1>1. \A v \in Workers : run'[v] = r
  BY DEF Alone, SInv, IInv, TypeOK
<1> QED
  BY <1>1 DEF SInv, SoloRun, OwnPO

LEMMA SoloQuiet ==
  ASSUME Alone, SInv, IInv', UNCHANGED <<labelled, stores, outbox, today>>,
         NEW w \in Workers, NEW r, run' = [run EXCEPT ![w] = r],
         SoloRun(r, orders, exceptions, outbox, labelled)
  PROVE  SInv'
<1>1. Books'
  BY DEF SInv, Books, OneBook, OneLetter, RecordMatchesMail, OneOrderPerPO, Unanswered, stores
<1>2. SoloRun(r, orders', exceptions', outbox', labelled')
  BY DEF stores
<1> QED
  BY <1>1, <1>2, SoloStep

(* Of two entries that are no duplicates each has a document of its own.    *)
LEMMA DistinctDocs ==
  ASSUME NEW r \in Run, Aligned(r), NoTwin(r),
         NEW i \in DOMAIN r.results, NEW j \in DOMAIN r.results, i # j,
         r.results[i].kind # "duplicate", r.results[j].kind # "duplicate"
  PROVE  /\ r.entries[i].idx # r.entries[j].idx
         /\ DocAt(r, i) # DocAt(r, j)
<1>1. i \in Nat /\ j \in Nat
  BY RunFields
<1>2. r.entries[i].idx # r.entries[j].idx
  BY <1>1 DEF NoTwin
<1> QED
  BY <1>2 DEF DocAt, ComposeDocId

(* A mail is about a document on record.                                    *)
LEMMA UnfiledIsUnmailed ==
  ASSUME Books, NEW d \in Docs, orders[d] = None, exceptions[d] = None
  PROVE  NoMail(d, outbox)
BY DEF Books, RecordMatchesMail, NoMail

LEMMA SoloNewRun ==
  ASSUME NEW e \in Emails \cup {None}, NEW scanned, NEW pc \in {"idle", "reply", "parse"},
         NEW ord, NEW exc, NEW out, NEW lab,
         scanned \cap lab = {}, pc # "idle" => e \notin lab /\ e \notin scanned
  PROVE  SoloRun(NewRun(pc, e, scanned), ord, exc, out, lab)
<1> DEFINE r == NewRun(pc, e, scanned)
<1>1. /\ r.pc = pc /\ r.msg = e /\ r.scanned = scanned /\ r.results = <<>>
      /\ r.decision = <<>> /\ r.entries = <<>>
  BY DEF NewRun
<1> HIDE DEF r
<1>2. SoloRun(r, ord, exc, out, lab)
  BY <1>1 DEF SoloRun, Untouched, Unfiled, Unmailed, Copied, OwnPO, Waiting
<1> QED
  BY <1>2 DEF r
-----------------------------------------------------------------------------
(* Steps that leave the stores, the mail and the labels alone.             *)

LEMMA SoloStart ==
  ASSUME Alone, SInv, IInv', NEW w \in Workers,
         Scan(w) \/ (\E e \in Emails : Pick(w, e)) \/ RunFails(w) \/ Crash(w)
  PROVE  SInv'
<1> DEFINE s == run[w]
<1>1. s \in Run /\ SoloRun(s, orders, exceptions, outbox, labelled)
  BY SoloBefore
<1>2. CASE Scan(w)
  <2> DEFINE r == [s EXCEPT !.scanned = Emails \ labelled]
  <2>1. s.pc = "idle" /\ run' = [run EXCEPT ![w] = r]
        /\ UNCHANGED <<labelled, stores, outbox, today>>
    BY <1>2 DEF Scan
  <2>2. /\ r.pc = s.pc /\ r.msg = s.msg /\ r.target = s.target /\ r.entries = s.entries
        /\ r.pos = s.pos /\ r.decision = s.decision /\ r.results = s.results
        /\ r.verdicts = s.verdicts /\ r.scanned = Emails \ labelled
    BY <1>1 DEF Run
  <2> HIDE DEF r
  <2>3. SoloRun(r, orders, exceptions, outbox, labelled)
    BY <1>1, <2>1, <2>2
    DEF SoloRun, Untouched, Unfiled, Unmailed, Copied, OwnPO, Waiting, Past, DocAt
  <2> QED
    BY <2>1, <2>3, SoloQuiet
<1>3. ASSUME NEW e \in Emails, Pick(w, e) PROVE SInv'
  <2> DEFINE pc == IF e \in Replies THEN "reply" ELSE "parse"
             r == NewRun(pc, e, s.scanned \ {e})
  <2>1. e \in s.scanned /\ run' = [run EXCEPT ![w] = r]
        /\ UNCHANGED <<labelled, stores, outbox, today>>
    BY <1>3 DEF Pick
  <2>2. (s.scanned \ {e}) \cap labelled = {} /\ e \notin labelled
    BY <1>1, <2>1 DEF SoloRun, Untouched
  <2>3. SoloRun(r, orders, exceptions, outbox, labelled)
    BY <2>2, SoloNewRun
  <2> QED
    BY <2>1, <2>3, SoloQuiet
<1>4. CASE RunFails(w) \/ Crash(w)
  <2>1. PICK scanned \in {s.scanned, {}} : run' = [run EXCEPT ![w] = NewRun("idle", None, scanned)]
    BY <1>4 DEF RunFails, Crash
  <2>2. scanned \cap labelled = {}
    BY <1>1 DEF SoloRun, Untouched
  <2>3. SoloRun(NewRun("idle", None, scanned), orders, exceptions, outbox, labelled)
    BY <2>2, SoloNewRun
  <2>4. UNCHANGED <<labelled, stores, outbox, today>>
    BY <1>4 DEF RunFails, Crash
  <2> QED
    BY <2>1, <2>3, <2>4, SoloQuiet
<1> QED
  BY <1>2, <1>3, <1>4

(* A run that only moves on, at most to a stage that assumes nothing.       *)
LEMMA SoloMoves ==
  ASSUME NEW s \in Run, NEW r \in Run, NEW ord, NEW exc, NEW out, NEW lab,
         SoloRun(s, ord, exc, out, lab), s.pc # "idle",
         r.pc \notin {"idle", "create", "advance", "reread"},
         r.msg = s.msg, r.scanned = s.scanned, r.entries = s.entries,
         r.results = s.results, r.decision = s.decision, r.verdicts = s.verdicts,
         \A i \in DOMAIN s.results : Past(s, i) => Past(r, i)
  PROVE  SoloRun(r, ord, exc, out, lab)
BY DEF SoloRun, Untouched, Unfiled, Unmailed, Copied, OwnPO, Waiting, DocAt

LEMMA SoloReply ==
  ASSUME Alone, SInv, IInv', NEW w \in Workers, FindPending(w) \/ ReplyGuard(w)
  PROVE  SInv'
<1> DEFINE s == run[w]
<1>1. /\ s \in Run /\ SoloRun(s, orders, exceptions, outbox, labelled)
      /\ s.pc \in {"reply", "guard"} /\ s.results = <<>> /\ s.decision = <<>>
      /\ UNCHANGED <<labelled, stores, outbox, today>>
  BY SoloBefore DEF FindPending, ReplyGuard, RunInv, Aligned, Early
<1>2. ASSUME NEW pc \in {"parse", "guard", "advance"}, NEW d \in Docs \cup {None},
             run' = [run EXCEPT ![w] = [s EXCEPT !.pc = pc, !.target = d]],
             pc = "advance" => exceptions[d].status = "pending_clarify"
      PROVE  SInv'
  <2> DEFINE r == [s EXCEPT !.pc = pc, !.target = d]
  <2>1. /\ r.pc = pc /\ r.msg = s.msg /\ r.scanned = s.scanned /\ r.results = <<>>
        /\ r.decision = <<>> /\ r.target = d /\ r.entries = s.entries
    BY <1>1 DEF Run
  <2> HIDE DEF r
  <2>2. SoloRun(r, orders, exceptions, outbox, labelled)
    BY <1>1, <1>2, <2>1 DEF SoloRun, Untouched, Unfiled, Unmailed, Copied, OwnPO, Waiting
  <2> QED
    BY <1>1, <1>2, <2>2, SoloQuiet DEF r
<1>3. [s EXCEPT !.pc = "parse"] = [s EXCEPT !.pc = "parse", !.target = s.target]
      /\ [s EXCEPT !.pc = "advance"] = [s EXCEPT !.pc = "advance", !.target = s.target]
      /\ s.target \in Docs \cup {None}
  BY <1>1 DEF Run
<1>4. CASE FindPending(w)
  <2>1. CASE run' = [run EXCEPT ![w].pc = "parse"]
    BY <1>2, <1>3, <2>1 DEF SInv, IInv, TypeOK
  <2>2. ASSUME NEW d \in FindPendingClarify(exceptions, ThreadOf[s.msg]),
               run' = [run EXCEPT ![w].pc = "guard", ![w].target = d]
        PROVE  SInv'
    <3>1. d \in Docs
      BY DEF FindPendingClarify, Pending, SInv, IInv, TypeOK
    <3>2. run' = [run EXCEPT ![w] = [s EXCEPT !.pc = "guard", !.target = d]]
      BY <2>2 DEF SInv, IInv, TypeOK
    <3> QED
      BY <1>2, <3>1, <3>2
  <2> QED
    BY <1>4, <2>1, <2>2 DEF FindPending
<1>5. CASE ReplyGuard(w)
  <2>1. CASE /\ exceptions[s.target].status = "pending_clarify"
             /\ run' = [run EXCEPT ![w].pc = "advance"]
    BY <1>2, <1>3, <2>1 DEF SInv, IInv, TypeOK
  <2>2. CASE run' = [run EXCEPT ![w] = NewRun("idle", None, s.scanned)]
    <3>1. s.scanned \cap labelled = {}
      BY <1>1 DEF SoloRun, Untouched
    <3>2. SoloRun(NewRun("idle", None, s.scanned), orders, exceptions, outbox, labelled)
      BY <3>1, SoloNewRun
    <3> QED
      BY <1>1, <2>2, <3>2, SoloQuiet
  <2> QED
    BY <1>5, <2>1, <2>2 DEF ReplyGuard
<1> QED
  BY <1>4, <1>5

LEMMA SoloParse ==
  ASSUME Alone, SInv, IInv', NEW w \in Workers, Parse(w) PROVE SInv'
<1> DEFINE s == run[w]
<1>1. /\ s \in Run /\ SoloRun(s, orders, exceptions, outbox, labelled)
      /\ s.pc = "parse" /\ s.results = <<>> /\ s.decision = <<>>
      /\ UNCHANGED <<labelled, stores, outbox, today>>
  BY SoloBefore DEF Parse, RunInv, Aligned, Early
<1>2. PICK es \in Extractions[s.msg] :
        run' = [run EXCEPT ![w].pc = "validate", ![w].entries = es]
  BY DEF Parse
<1> DEFINE r == [s EXCEPT !.pc = "validate", !.entries = es]
<1>3. run' = [run EXCEPT ![w] = r]
  BY <1>2 DEF SInv, IInv, TypeOK
<1>4. /\ r.pc = "validate" /\ r.msg = s.msg /\ r.scanned = s.scanned /\ r.results = <<>>
      /\ r.decision = <<>> /\ r.entries = es
  BY <1>1 DEF Run
<1> HIDE DEF r
<1>5. SoloRun(r, orders, exceptions, outbox, labelled)
  BY <1>1, <1>2, <1>4 DEF SoloRun, Untouched, Unfiled, Unmailed, Copied, OwnPO, Waiting
<1> QED
  BY <1>1, <1>3, <1>5, SoloQuiet

(* find_duplicate passes over orders of the own message, and over those from *)
(* before the window.                                                        *)
LEMMA SoloValidate ==
  ASSUME Alone, SInv, IInv', NEW w \in Workers, Validate(w) PROVE SInv'
<1> DEFINE s == run[w]
<1>1. /\ s \in Run /\ RunInv(s, w, orders, exceptions, approved, outbox)
      /\ SoloRun(s, orders, exceptions, outbox, labelled)
      /\ s.pc = "validate" /\ UNCHANGED <<labelled, stores, outbox, today>>
  BY SoloBefore DEF Validate
<1>2. PICK decision \in Decisions :
        /\ DuplicateOrder(s.msg, EntryOf(w).po) => decision = "escalate"
        /\ run' = [run EXCEPT ![w].decision = Append(@, decision), ![w].pos = @ + 1]
  BY DEF Validate
<1> DEFINE r == [s EXCEPT !.decision = Append(s.decision, decision), !.pos = s.pos + 1]
<1>3. run' = [run EXCEPT ![w] = r]
  BY <1>2 DEF SInv, IInv, TypeOK
<1>4. /\ s.decision \in Seq(Decisions) /\ Len(s.decision) = s.pos - 1 /\ s.pos \in Nat \ {0}
      /\ s.results = <<>>
  BY <1>1, RunFields DEF RunInv, Aligned
<1>5. /\ r.pc = "validate" /\ r.msg = s.msg /\ r.scanned = s.scanned /\ r.results = <<>>
      /\ r.decision = Append(s.decision, decision) /\ r.entries = s.entries
  BY <1>1, <1>4 DEF Run
<1> HIDE DEF r
<1>6. OwnPO(r, orders)
  <2>1. \A i \in DOMAIN r.decision :
          \/ i \in DOMAIN s.decision /\ r.decision[i] = s.decision[i]
          \/ i = s.pos /\ r.decision[i] = decision
    BY <1>4, <1>5
  <2>2. ASSUME decision = "auto_approve", NEW d \in Docs, orders[d] # None,
               orders[d].po = s.entries[s.pos].po, d[1] # s.msg
        PROVE  orders[d].day + Window < today
    <3>1. d # ComposeDocId(s.msg, 0)
      BY <2>2 DEF ComposeDocId
    <3>2. ~ (orders[d].day >= today - Window)
      BY <1>2, <2>2, <3>1 DEF DuplicateOrder, EntryOf
    <3>3. orders[d].day \in Nat /\ today \in Nat /\ Window \in Nat
      BY <2>2, DayAssumption DEF SInv, IInv, TypeOK, OrderRecord
    <3> QED
      BY <3>2, <3>3
  <2> QED
    BY <1>1, <1>5, <2>1, <2>2 DEF SoloRun, OwnPO
<1>7. SoloRun(r, orders, exceptions, outbox, labelled)
  BY <1>1, <1>5, <1>6 DEF SoloRun, Untouched, Unfiled, Unmailed, Copied, Waiting
<1> QED
  BY <1>1, <1>3, <1>7, SoloQuiet

LEMMA SoloMovesOn ==
  ASSUME Alone, SInv, IInv', NEW w \in Workers,
         Clarify(w) \/ Finalize(w) \/ SkipEntry(w) \/ SendDryRun(w) \/ StageDone(w)
  PROVE  SInv'
<1> DEFINE s == run[w]
<1>1. /\ s \in Run /\ RunInv(s, w, orders, exceptions, approved, outbox)
      /\ SoloRun(s, orders, exceptions, outbox, labelled) /\ s.pos \in Nat \ {0}
  BY SoloBefore, RunFields
<1>2. UNCHANGED <<labelled, stores, outbox, today>>
  BY DEF Clarify, Finalize, SkipEntry, SendDryRun, StageDone
<1>3. ASSUME NEW pc \in Stages, NEW pos \in Nat \ {0}, s.pc # "idle",
             run' = [run EXCEPT ![w] = [s EXCEPT !.pc = pc, !.pos = pos]],
             pc \notin {"idle", "create", "advance", "reread"},
             \A i \in DOMAIN s.results :
               Past(s, i) => pc = "label" \/ (pc = "send" /\ s.pc = "send" /\ i < pos)
      PROVE  SInv'
  <2> DEFINE r == [s EXCEPT !.pc = pc, !.pos = pos]
  <2>1. /\ r \in Run /\ r.pc = pc /\ r.pos = pos /\ r.msg = s.msg /\ r.scanned = s.scanned
        /\ r.entries = s.entries /\ r.results = s.results /\ r.decision = s.decision
        /\ r.verdicts = s.verdicts
    BY <1>1 DEF Run
  <2>2. run' = [run EXCEPT ![w] = r]
    BY <1>3
  <2> HIDE DEF r
  <2>3. \A i \in DOMAIN s.results : Past(s, i) => Past(r, i)
    BY <1>3, <2>1 DEF Past
  <2>4. SoloRun(r, orders, exceptions, outbox, labelled)
    BY <1>1, <1>3, <2>1, <2>3, SoloMoves
  <2> QED
    BY <1>2, <2>2, <2>4, SoloQuiet
<1>4. CASE Clarify(w)
  <2>1. s.pc = "clarify" /\ run' = [run EXCEPT ![w] = [s EXCEPT !.pc = "persist", !.pos = 1]]
    BY <1>4 DEF Clarify, SInv, IInv, TypeOK
  <2>2. "persist" \in Stages /\ 1 \in Nat \ {0} /\ \A i : ~Past(s, i)
    BY <2>1 DEF Stages, LoopStages, Past
  <2> QED
    BY <1>3, <2>1, <2>2
<1>5. CASE Finalize(w)
  <2>1. s.pc = "finalize" /\ run' = [run EXCEPT ![w] = [s EXCEPT !.pc = "judge", !.pos = 1]]
    BY <1>5 DEF Finalize, SInv, IInv, TypeOK
  <2>2. "judge" \in Stages /\ 1 \in Nat \ {0} /\ \A i : ~Past(s, i)
    BY <2>1 DEF Stages, LoopStages, Past
  <2> QED
    BY <1>3, <2>1, <2>2
<1>6. CASE SkipEntry(w) \/ SendDryRun(w)
  <2>1. /\ s.pc \in {"confirm", "judge", "send"}
        /\ run' = [run EXCEPT ![w] = [s EXCEPT !.pos = s.pos + 1]]
    BY <1>6 DEF SkipEntry, SendDryRun, AtSend, SInv, IInv, TypeOK
  <2>2. [s EXCEPT !.pos = s.pos + 1] = [s EXCEPT !.pc = s.pc, !.pos = s.pos + 1]
    BY <1>1 DEF Run
  <2>3. \A i \in DOMAIN s.results : Past(s, i) => s.pc = "send" /\ i < s.pos + 1
    BY <1>1, <2>1, RunFields DEF Past
  <2>4. run' = [run EXCEPT ![w] = [s EXCEPT !.pc = s.pc, !.pos = s.pos + 1]]
    BY <2>1, <2>2
  <2>5. s.pc \in Stages /\ s.pos + 1 \in Nat \ {0}
    BY <1>1, RunFields
  <2> QED
    BY <1>3, <2>1, <2>3, <2>4, <2>5
<1>7. CASE StageDone(w)
  <2>1. /\ s.pc \in LoopStages
        /\ run' = [run EXCEPT ![w] = [s EXCEPT !.pc = NextStage(s.pc), !.pos = 1]]
    BY <1>7 DEF StageDone, SInv, IInv, TypeOK
  <2>2. /\ NextStage(s.pc) \in {"clarify", "confirm", "finalize", "send", "label"}
        /\ s.pc = "send" => NextStage(s.pc) = "label"
    BY <2>1 DEF NextStage, LoopStages
  <2>3. \A i \in DOMAIN s.results : Past(s, i) => s.pc = "send"
    BY <2>1 DEF Past, LoopStages
  <2>4. NextStage(s.pc) \in Stages /\ s.pc # "idle" /\ 1 \in Nat \ {0}
    BY <2>1, <2>2 DEF Stages, LoopStages
  <2> QED
    BY <1>3, <2>1, <2>2, <2>3, <2>4
<1> QED
  BY <1>4, <1>5, <1>6, <1>7

LEMMA SoloPreflight ==
  ASSUME Alone, SInv, IInv', NEW w \in Workers, PersistPreflight(w) PROVE SInv'
<1> DEFINE s == run[w]
<1>1. /\ s \in Run /\ RunInv(s, w, orders, exceptions, approved, outbox)
      /\ SoloRun(s, orders, exceptions, outbox, labelled)
      /\ s.pc = "persist" /\ UNCHANGED <<labelled, stores, outbox, today>>
  BY SoloBefore DEF PersistPreflight
<1>2. s.results \in Seq(Result) /\ Len(s.results) = s.pos - 1 /\ s.pos \in Nat \ {0}
  BY <1>1, RunFields DEF RunInv, Aligned, Writing
<1>3. CASE Recorded(DocOf(w))
  <2> DEFINE dup == [kind |-> "duplicate", body |-> None, receipt |-> "none"]
             r == [s EXCEPT !.results = Append(s.results, dup), !.pos = s.pos + 1]
  <2>1. run' = [run EXCEPT ![w] = r]
    BY <1>3 DEF PersistPreflight, SInv, IInv, TypeOK
  <2>2. /\ r.pc = "persist" /\ r.msg = s.msg /\ r.scanned = s.scanned
        /\ r.entries = s.entries /\ r.decision = s.decision /\ r.verdicts = s.verdicts
        /\ r.results = Append(s.results, dup)
    BY <1>1 DEF Run
  <2> HIDE DEF r
  <2>3. \A i \in DOMAIN r.results :
          r.results[i].kind # "duplicate" =>
            i \in DOMAIN s.results /\ r.results[i] = s.results[i]
    BY <1>2, <2>2
  <2>4. SoloRun(r, orders, exceptions, outbox, labelled)
    BY <1>1, <2>2, <2>3
    DEF SoloRun, Untouched, Unfiled, Unmailed, Copied, OwnPO, Waiting, Past, DocAt
  <2> QED
    BY <1>1, <2>1, <2>4, SoloQuiet
<1>4. CASE ~Recorded(DocOf(w))
  <2> DEFINE r == [s EXCEPT !.pc = "create"]
  <2>1. run' = [run EXCEPT ![w] = r]
    BY <1>4 DEF PersistPreflight
  <2>2. /\ r.pc = "create" /\ r.msg = s.msg /\ r.scanned = s.scanned /\ r.pos = s.pos
        /\ r.entries = s.entries /\ r.decision = s.decision /\ r.verdicts = s.verdicts
        /\ r.results = s.results
    BY <1>1 DEF Run
  <2> HIDE DEF r
  <2>3. Unfiled(r, orders, exceptions)
    BY <1>4, <2>2 DEF Unfiled, Recorded, DocOf, EntryOf, DocAt
  <2>4. SoloRun(r, orders, exceptions, outbox, labelled)
    BY <1>1, <2>2, <2>3
    DEF SoloRun, Untouched, Unmailed, Copied, OwnPO, Waiting, Past, DocAt
  <2> QED
    BY <1>1, <2>1, <2>4, SoloQuiet
<1> QED
  BY <1>3, <1>4

(* The result is a copy of the record as it is.                             *)
LEMMA SoloReread ==
  ASSUME Alone, SInv, IInv', NEW w \in Workers, Reread(w) PROVE SInv'
<1> DEFINE s == run[w]
           auto == Validated(s) = "auto_approve"
           record == IF auto THEN orders[DocOf(w)] ELSE exceptions[DocOf(w)]
           result == [kind |-> IF auto THEN "order" ELSE "exception",
                      body |-> record.body, receipt |-> record.receipt]
           r == [s EXCEPT !.results = Append(s.results, result), !.pc = "persist",
                          !.pos = s.pos + 1]
<1>1. /\ s \in Run /\ RunInv(s, w, orders, exceptions, approved, outbox)
      /\ SoloRun(s, orders, exceptions, outbox, labelled)
      /\ s.pc = "reread" /\ UNCHANGED <<labelled, stores, outbox, today>>
  BY SoloBefore DEF Reread
<1>2. s.results \in Seq(Result) /\ Len(s.results) = s.pos - 1 /\ s.pos \in Nat \ {0}
  BY <1>1, RunFields DEF RunInv, Aligned, Writing
<1>3. run' = [run EXCEPT ![w] = r]
  BY DEF Reread, SInv, IInv, TypeOK
<1>4. DocOf(w) = DocAt(s, s.pos)
  BY DEF DocOf, EntryOf, DocAt
<1>5. /\ RecordAt(result.kind, DocAt(s, s.pos), orders, exceptions) = record
      /\ result.body = record.body
  BY <1>4 DEF RecordAt
<1> HIDE DEF result, record
<1>6. /\ r.pc = "persist" /\ r.msg = s.msg /\ r.scanned = s.scanned /\ r.pos = s.pos + 1
      /\ r.entries = s.entries /\ r.decision = s.decision /\ r.verdicts = s.verdicts
      /\ r.results = Append(s.results, result)
  BY <1>1 DEF Run
<1>7. r.verdicts = [i \in Indices |-> "missing"]
  BY <1>1, <1>6 DEF RunInv, Aligned
<1>8. /\ IInv' /\ run'[w] = r
  BY <1>3 DEF SInv, IInv, TypeOK
<1>9. \A i \in DOMAIN r.results : r.entries[i].idx \in Indices
  BY <1>8, ResultHasEntry DEF IInv, TypeOK, WorkerInv
<1> HIDE DEF r
<1>10. \A i \in DOMAIN r.results :
         \/ i \in DOMAIN s.results /\ r.results[i] = s.results[i]
         \/ i = s.pos /\ r.results[i] = result
  BY <1>2, <1>6
<1>11. Copied(r, orders, exceptions)
  <2>1. \A i \in DOMAIN r.results : r.verdicts[r.entries[i].idx] # "pass"
    BY <1>7, <1>9
  <2>2. \A i \in DOMAIN r.results : DocAt(r, i) = DocAt(s, i)
    BY <1>6 DEF DocAt
  <2> QED
    BY <1>1, <1>5, <1>10, <2>1, <2>2 DEF SoloRun, Copied
<1>12. Unmailed(r, outbox)
  BY <1>1, <1>6, <1>10 DEF SoloRun, Unmailed, Past, DocAt
<1>13. SoloRun(r, orders, exceptions, outbox, labelled)
  BY <1>1, <1>6, <1>11, <1>12 DEF SoloRun, Untouched, Unfiled, OwnPO, Waiting
<1> QED
  BY <1>1, <1>3, <1>13, SoloQuiet
-----------------------------------------------------------------------------
(* Steps that write to the stores, mail or label.                          *)

LEMMA SoloCreateOrder ==
  ASSUME Alone, SInv, IInv', NEW w \in Workers, CreateOrder(w) PROVE SInv'
<1> DEFINE s == run[w]
           d == DocOf(w)
           new == NewOrder(w)
           r == [s EXCEPT !.pc = "reread"]
<1>1. /\ s \in Run /\ RunInv(s, w, orders, exceptions, approved, outbox)
      /\ SoloRun(s, orders, exceptions, outbox, labelled) /\ Books
      /\ s.pc = "create" /\ Validated(s) = "auto_approve"
      /\ UNCHANGED <<labelled, exceptions, outbox, today>>
  BY SoloBefore DEF CreateOrder, SInv
<1>2. /\ s.pos \in DOMAIN s.decision /\ s.pos \in 1..Len(s.entries)
  BY <1>1, RunFields DEF RunInv, Aligned, Writing
<1>3. d = DocAt(s, s.pos) /\ d \in Docs /\ d[1] = s.msg
  BY <1>1, <1>2, DocAtType DEF DocOf, EntryOf, DocAt, ComposeDocId, RunInv
<1>4. orders[d] = None /\ exceptions[d] = None
  BY <1>1, <1>3 DEF SoloRun, Unfiled
<1>5. /\ orders' = [orders EXCEPT ![d] = new] /\ run' = [run EXCEPT ![w] = r]
      /\ orders \in [Docs -> OrderRecord \cup {None}]
  BY <1>3, <1>4 DEF CreateOrder, Create, SInv, IInv, TypeOK
<1>6. new.po = s.entries[s.pos].po /\ new.day = today
  BY DEF NewOrder, EntryOf
<1>7. /\ r.pc = "reread" /\ r.msg = s.msg /\ r.scanned = s.scanned /\ r.pos = s.pos
      /\ r.entries = s.entries /\ r.decision = s.decision /\ r.verdicts = s.verdicts
      /\ r.results = s.results
  BY <1>1 DEF Run
<1> HIDE DEF r, new, d
<1>8. /\ orders'[d] = new
      /\ \A c \in Docs : c # d => orders'[c] = orders[c]
  BY <1>3, <1>5
<1>9. NoMail(d, outbox)
  BY <1>1, <1>3, <1>4, UnfiledIsUnmailed
<1>10. \A c \in Docs :
         orders[c] # None /\ orders[c].po = new.po /\ c[1] # s.msg /\ KeysTell(s.msg) =>
           orders[c].day + Window < new.day
  <2> DEFINE last == Max(SameKey(s))
  <2>1. /\ last \in DOMAIN s.decision /\ s.decision[last] = "auto_approve"
        /\ last \in DOMAIN s.entries /\ s.entries[last].file = s.entries[s.pos].file
        /\ s.entries[last].idx = s.entries[s.pos].idx
    <3>1. /\ s.entries \in Seq(Entry) /\ s.decision \in Seq(Decisions)
          /\ Len(s.decision) = Len(s.entries) /\ Len(s.entries) \in Nat
      BY <1>1, RunFields DEF RunInv, Aligned, Writing
    <3>2. SameKey(s) \in SUBSET (1..Len(s.entries)) /\ s.pos \in SameKey(s)
      BY <1>2, <3>1 DEF SameKey
    <3>3. last \in SameKey(s)
      BY <3>1, <3>2, MaxIsMember
    <3>4. s.decision[last] = "auto_approve"
      BY <1>1 DEF Validated
    <3> HIDE DEF last
    <3> QED
      BY <3>1, <3>3, <3>4 DEF SameKey
  <2>2. s.entries \in Extractions[s.msg]
    BY <1>1, <1>2 DEF SoloRun, OwnPO
  <2> HIDE DEF last
  <2>3. KeysTell(s.msg) => s.entries[last].po = s.entries[s.pos].po
    <3>1. s.pos \in DOMAIN s.entries
      BY <1>1, <1>2, RunFields
    <3> QED
      BY <2>1, <2>2, <3>1 DEF KeysTell
  <2> QED
    BY <1>1, <1>6, <2>1, <2>3 DEF SoloRun, OwnPO
<1>11. Books'
  <2>1. OneBook'
    BY <1>1, <1>4, <1>8 DEF Books, OneBook
  <2>2. RecordMatchesMail' /\ OneLetter'
    <3>1. \A k \in DOMAIN outbox : outbox[k] \in Mail /\ outbox[k].doc # d
      BY <1>9 DEF NoMail, SInv, IInv, TypeOK
    <3>2. \A k \in DOMAIN outbox : outbox[k].doc \in Docs
      BY <3>1 DEF Mail
    <3> QED
      BY <1>1, <1>8, <3>1, <3>2 DEF Books, RecordMatchesMail, OneLetter
  <2>3. OneOrderPerPO'
    BY <1>1, <1>3, <1>8, <1>10 DEF Books, OneOrderPerPO
  <2> QED
    BY <1>1, <2>1, <2>2, <2>3 DEF Books, Unanswered
<1>12. OwnPO(r, orders')
  BY <1>1, <1>3, <1>7, <1>8 DEF SoloRun, OwnPO
<1>13. Copied(r, orders', exceptions')
  <2>1. \A i \in DOMAIN s.results :
          /\ DocAt(s, i) = DocAt(r, i) /\ DocAt(s, i) \in Docs
          /\ s.results[i].kind = "order" => DocAt(s, i) # d
    BY <1>1, <1>4, <1>7, ResultHasEntry DEF RunInv, Backed, DocAt
  <2> QED
    BY <1>1, <1>7, <1>8, <2>1 DEF SoloRun, Copied, RecordAt
<1>14. SoloRun(r, orders', exceptions', outbox', labelled')
  BY <1>1, <1>3, <1>7, <1>9, <1>12, <1>13
  DEF SoloRun, Untouched, Unfiled, Unmailed, Waiting, Past, DocAt
<1> QED
  BY <1>1, <1>5, <1>11, <1>14, SoloStep

LEMMA SoloCreateException ==
  ASSUME Alone, SInv, IInv', NEW w \in Workers, CreateException(w) PROVE SInv'
<1> DEFINE s == run[w]
           d == DocOf(w)
           new == NewException(w, Validated(s))
           r == [s EXCEPT !.pc = "reread"]
<1>1. /\ s \in Run /\ RunInv(s, w, orders, exceptions, approved, outbox)
      /\ SoloRun(s, orders, exceptions, outbox, labelled) /\ Books
      /\ s.pc = "create" /\ UNCHANGED <<labelled, orders, outbox, today>>
  BY SoloBefore DEF CreateException, SInv
<1>2. s.pos \in 1..Len(s.entries)
  BY <1>1, RunFields DEF RunInv, Aligned
<1>3. d = DocAt(s, s.pos) /\ d \in Docs
  BY <1>1, <1>2, DocAtType DEF DocOf, EntryOf, DocAt, RunInv
<1>4. orders[d] = None /\ exceptions[d] = None
  BY <1>1, <1>3 DEF SoloRun, Unfiled
<1>5. /\ exceptions' = [exceptions EXCEPT ![d] = new] /\ run' = [run EXCEPT ![w] = r]
      /\ exceptions \in [Docs -> ExceptionRecord \cup {None}]
  BY <1>3, <1>4 DEF CreateException, Create, SInv, IInv, TypeOK
<1>6. new.reply = None
  BY DEF NewException, ExceptionOf
<1>7. /\ r.pc = "reread" /\ r.msg = s.msg /\ r.scanned = s.scanned /\ r.pos = s.pos
      /\ r.entries = s.entries /\ r.decision = s.decision /\ r.verdicts = s.verdicts
      /\ r.results = s.results
  BY <1>1 DEF Run
<1> HIDE DEF r, new, d
<1>8. /\ exceptions'[d] = new
      /\ \A c \in Docs : c # d => exceptions'[c] = exceptions[c]
  BY <1>3, <1>5
<1>9. NoMail(d, outbox)
  BY <1>1, <1>3, <1>4, UnfiledIsUnmailed
<1>10. Books'
  <2>1. OneBook'
    BY <1>1, <1>4, <1>8 DEF Books, OneBook
  <2>2. RecordMatchesMail' /\ OneLetter'
    <3>1. \A k \in DOMAIN outbox : outbox[k] \in Mail /\ outbox[k].doc # d
      BY <1>9 DEF NoMail, SInv, IInv, TypeOK
    <3>2. \A k \in DOMAIN outbox : outbox[k].doc \in Docs
      BY <3>1 DEF Mail
    <3> QED
      BY <1>1, <1>8, <3>1, <3>2 DEF Books, RecordMatchesMail, OneLetter
  <2>3. Unanswered'
    BY <1>1, <1>6, <1>8 DEF Books, Unanswered
  <2> QED
    BY <1>1, <2>1, <2>2, <2>3 DEF Books, OneOrderPerPO
<1>11. Copied(r, orders', exceptions')
  <2>1. \A i \in DOMAIN s.results :
          /\ DocAt(s, i) = DocAt(r, i) /\ DocAt(s, i) \in Docs
          /\ s.results[i].kind = "exception" => DocAt(s, i) # d
          /\ s.results[i].kind \in Kinds
    <3>1. \A i \in DOMAIN s.results : s.results[i].kind \in Kinds
      BY <1>1, ResultHasEntry DEF RunInv, Result
    <3> QED
      BY <1>1, <1>4, <1>7, <3>1, ResultHasEntry DEF RunInv, Backed, DocAt
  <2> QED
    BY <1>1, <1>7, <1>8, <2>1 DEF SoloRun, Copied, RecordAt, Kinds
<1>12. SoloRun(r, orders', exceptions', outbox', labelled')
  BY <1>1, <1>3, <1>7, <1>9, <1>11
  DEF SoloRun, Untouched, Unfiled, Unmailed, OwnPO, Waiting, Past, DocAt
<1> QED
  BY <1>1, <1>5, <1>10, <1>12, SoloStep

(* A field of a record that is there is written over.                       *)
LEMMA AmendKeepsBooks ==
  ASSUME SInv, UNCHANGED outbox, NEW d \in Docs, NEW new, new # None,
         \/ /\ orders[d] # None /\ orders' = [orders EXCEPT ![d] = new]
            /\ UNCHANGED exceptions
            /\ new.po = orders[d].po /\ new.day = orders[d].day
            /\ NoMail(d, outbox)
                 \/ (new.body = orders[d].body /\ new.verdict = orders[d].verdict)
         \/ /\ exceptions[d] # None /\ exceptions' = [exceptions EXCEPT ![d] = new]
            /\ UNCHANGED orders
            /\ new.status = "pending_clarify" => new.reply = None
            /\ NoMail(d, outbox)
                 \/ (new.body = exceptions[d].body /\ new.verdict = exceptions[d].verdict)
  PROVE  /\ Books'
         /\ \A r : OwnPO(r, orders) => OwnPO(r, orders')
<1>1. /\ Books /\ orders \in [Docs -> OrderRecord \cup {None}]
      /\ exceptions \in [Docs -> ExceptionRecord \cup {None}]
  BY DEF SInv, IInv, TypeOK
<1>2. \A k \in DOMAIN outbox : outbox[k].doc \in Docs
  <2>1. \A k \in DOMAIN outbox : outbox[k] \in Mail
    BY DEF SInv, IInv, TypeOK
  <2> QED
    BY <2>1 DEF Mail
<1>3. OneBook' /\ OneLetter' /\ Unanswered'
  BY <1>1 DEF Books, OneBook, OneLetter, Unanswered
<1>4. \A c \in Docs : /\ orders[c] = None <=> orders'[c] = None
                      /\ orders[c] # None =>
                           orders'[c].po = orders[c].po /\ orders'[c].day = orders[c].day
  BY <1>1
<1>5. OneOrderPerPO'
  BY <1>1, <1>4 DEF Books, OneOrderPerPO
<1>6. RecordMatchesMail'
  BY <1>1, <1>2 DEF Books, RecordMatchesMail, NoMail
<1>7. \A r : OwnPO(r, orders) => OwnPO(r, orders')
  BY <1>4 DEF OwnPO
<1> QED
  BY <1>3, <1>5, <1>6, <1>7 DEF Books

LEMMA SoloReplyAdvance ==
  ASSUME Alone, SInv, IInv', NEW w \in Workers, ReplyAdvance(w) PROVE SInv'
<1> DEFINE s == run[w]
           d == s.target
           new == [exceptions[d] EXCEPT !.status = "awaiting_review", !.reply = s.msg]
           r == [s EXCEPT !.pc = "finalize"]
<1>1. /\ s \in Run /\ SoloRun(s, orders, exceptions, outbox, labelled)
      /\ s.pc = "advance" /\ s.results = <<>> /\ s.decision = <<>> /\ s.msg \in Emails
      /\ UNCHANGED <<labelled, orders, outbox, today>>
  BY SoloBefore DEF ReplyAdvance, RunInv, Aligned, Early
<1>2. d \in Docs /\ exceptions[d] \in ExceptionRecord /\ exceptions[d] # None
  BY SoloBefore, RunFields DEF ReplyAdvance, RunInv, Backed, SInv, IInv, TypeOK
<1>3. exceptions' = [exceptions EXCEPT ![d] = new] /\ run' = [run EXCEPT ![w] = r]
  BY <1>2 DEF ReplyAdvance, PutReply, SInv, IInv, TypeOK
<1>4. /\ new.status = "awaiting_review" /\ new.body = exceptions[d].body
      /\ new.verdict = exceptions[d].verdict /\ new # None
  <2>1. new \in ExceptionRecord
    BY <1>1, <1>2 DEF ExceptionRecord, ExceptionStatus
  <2> QED
    BY <1>2, <2>1, NoneIsFresh DEF ExceptionRecord
<1>5. /\ r.pc = "finalize" /\ r.msg = s.msg /\ r.scanned = s.scanned /\ r.results = <<>>
      /\ r.decision = <<>> /\ r.entries = s.entries
  BY <1>1 DEF Run
<1> HIDE DEF r, new, d
<1>6. Books'
  BY <1>1, <1>2, <1>3, <1>4, AmendKeepsBooks
<1>7. SoloRun(r, orders', exceptions', outbox', labelled')
  BY <1>1, <1>5 DEF SoloRun, Untouched, Unfiled, Unmailed, Copied, OwnPO, Waiting
<1> QED
  BY <1>1, <1>3, <1>6, <1>7, SoloStep

(* Confirm writes the body on the order and on its copy, before any mail.   *)
LEMMA SoloConfirm ==
  ASSUME Alone, SInv, IInv', NEW w \in Workers, Confirm(w) PROVE SInv'
<1> DEFINE s == run[w]
           d == DocOf(w)
           new == [orders[d] EXCEPT !.body = w]
           result == [s.results[s.pos] EXCEPT !.body = w]
           r == [s EXCEPT !.results = [s.results EXCEPT ![s.pos] = result], !.pos = s.pos + 1]
<1>1. /\ s \in Run /\ RunInv(s, w, orders, exceptions, approved, outbox)
      /\ SoloRun(s, orders, exceptions, outbox, labelled)
      /\ s.pc = "confirm" /\ s.pos <= Len(s.entries) /\ s.results[s.pos].kind = "order"
      /\ UNCHANGED <<labelled, exceptions, outbox, today>>
  BY SoloBefore DEF Confirm, AtEntry, NothingToDo, ResultOf
<1>2. s.results \in Seq(Result) /\ s.pos \in DOMAIN s.results /\ s.pos \in 1..Len(s.entries)
  BY <1>1, RunFields DEF RunInv, Aligned, Late
<1>3. /\ d = DocAt(s, s.pos) /\ d \in Docs /\ orders[d] # None /\ orders[d] \in OrderRecord
  BY <1>1, <1>2, DocAtType DEF DocOf, EntryOf, DocAt, RunInv, Backed, SInv, IInv, TypeOK
<1>4. orders' = [orders EXCEPT ![d] = new] /\ run' = [run EXCEPT ![w] = r]
  BY DEF Confirm, PutBody, SInv, IInv, TypeOK
<1>5. /\ new # None /\ new.po = orders[d].po /\ new.day = orders[d].day
      /\ new.body = w /\ new.verdict = orders[d].verdict
  BY <1>3, NoneIsFresh DEF OrderRecord, Drafts
<1>6. result.kind = "order" /\ result.body = w
  <2>1. s.results[s.pos] \in Result
    BY <1>2
  <2> QED
    BY <1>1, <2>1 DEF Result
<1>7. /\ r.pc = "confirm" /\ r.msg = s.msg /\ r.scanned = s.scanned
      /\ r.entries = s.entries /\ r.decision = s.decision /\ r.verdicts = s.verdicts
      /\ r.results = [s.results EXCEPT ![s.pos] = result]
  BY <1>1 DEF Run
<1> HIDE DEF r, new, d, result
<1>8. /\ r.results[s.pos] = result /\ DOMAIN r.results = DOMAIN s.results
      /\ \A i \in DOMAIN s.results : i # s.pos => r.results[i] = s.results[i]
  BY <1>2, <1>7
<1>9. NoMail(d, outbox)
  BY <1>1, <1>2, <1>3 DEF SoloRun, Unmailed, Past
<1>10. /\ Books' /\ OwnPO(s, orders')
  BY <1>1, <1>3, <1>4, <1>5, <1>9, AmendKeepsBooks DEF SoloRun
<1>11. \A i \in DOMAIN s.results : DocAt(r, i) = DocAt(s, i) /\ DocAt(s, i) \in Docs
  BY <1>1, <1>7, ResultHasEntry DEF RunInv, DocAt
<1>12. orders'[d] = new /\ \A c \in Docs : c # d => orders'[c] = orders[c]
  BY <1>3, <1>4 DEF SInv, IInv, TypeOK
<1>13. Copied(r, orders', exceptions')
  <2> SUFFICES ASSUME NEW i \in DOMAIN s.results, r.results[i].kind # "duplicate"
               PROVE  LET record == RecordAt(r.results[i].kind, DocAt(r, i), orders', exceptions')
                      IN  /\ record.body = r.results[i].body
                          /\ r.verdicts[r.entries[i].idx] = "pass" => record.verdict = "pass"
    BY <1>8 DEF Copied
  <2>1. CASE i = s.pos
    BY <1>1, <1>2, <1>3, <1>5, <1>6, <1>7, <1>8, <1>11, <1>12, <2>1
    DEF SoloRun, Copied, RecordAt
  <2>2. CASE i # s.pos
    <3>1. DocAt(s, i) # d
      BY <1>1, <1>2, <1>3, <1>8, <2>2, DistinctDocs DEF RunInv
    <3> QED
      BY <1>1, <1>7, <1>8, <1>11, <1>12, <2>2, <3>1 DEF SoloRun, Copied, RecordAt
  <2> QED
    BY <2>1, <2>2
<1>14. Unmailed(r, outbox)
  BY <1>1, <1>6, <1>7, <1>8, <1>11 DEF SoloRun, Unmailed, Past
<1>15. SoloRun(r, orders', exceptions', outbox', labelled')
  BY <1>1, <1>7, <1>10, <1>13, <1>14
  DEF SoloRun, Untouched, Unfiled, OwnPO, Waiting
<1> QED
  BY <1>1, <1>4, <1>10, <1>15, SoloStep

(* What a worker writes on the record of the result it is at.               *)
LEMMA AmendRecord ==
  ASSUME SInv, NEW w \in Workers, run[w].pc \in {"judge", "send", "receipt"}, AtEntry(w),
         UNCHANGED outbox,
         \/ \E v \in {"pass", "rejected"} : SaveVerdict(w, v) /\ NoMail(DocOf(w), outbox)
         \/ \E v \in {"sent", "failed"} : SaveReceipt(w, v)
  PROVE  Books' /\ \A r : OwnPO(r, orders) => OwnPO(r, orders')
<1> DEFINE d == DocOf(w)
<1>1. /\ d \in Docs
      /\ ResultOf(w).kind = "order" => orders[d] \in OrderRecord
      /\ ResultOf(w).kind = "exception" => exceptions[d] \in ExceptionRecord
  BY AtResult DEF SInv
<1>2. CASE ResultOf(w).kind = "order"
  <2>1. orders[d] # None
    BY <1>1, <1>2, NoneIsFresh
  <2>2. ASSUME NEW v \in {"pass", "rejected"}, SaveVerdict(w, v), NoMail(d, outbox)
        PROVE  Books' /\ \A r : OwnPO(r, orders) => OwnPO(r, orders')
    <3> DEFINE new == [orders[d] EXCEPT !.verdict = v]
    <3>1. orders' = [orders EXCEPT ![d] = new] /\ UNCHANGED exceptions
      BY <1>2, <2>2 DEF SaveVerdict, UpdateRecord, PutVerdict
    <3>2. new # None /\ new.po = orders[d].po /\ new.day = orders[d].day
      BY <1>1, <1>2, NoneIsFresh DEF OrderRecord, Verdicts
    <3> HIDE DEF new
    <3> QED
      BY <1>1, <2>1, <2>2, <3>1, <3>2, AmendKeepsBooks
  <2>3. ASSUME NEW v \in {"sent", "failed"}, SaveReceipt(w, v)
        PROVE  Books' /\ \A r : OwnPO(r, orders) => OwnPO(r, orders')
    <3> DEFINE new == [orders[d] EXCEPT !.receipt = v]
    <3>1. orders' = [orders EXCEPT ![d] = new] /\ UNCHANGED exceptions
      BY <1>2, <2>3 DEF SaveReceipt, UpdateRecord, PutReceipt
    <3>2. /\ new # None /\ new.po = orders[d].po /\ new.day = orders[d].day
          /\ new.body = orders[d].body /\ new.verdict = orders[d].verdict
      BY <1>1, <1>2, NoneIsFresh DEF OrderRecord, Receipts
    <3> HIDE DEF new
    <3> QED
      BY <1>1, <2>1, <3>1, <3>2, AmendKeepsBooks
  <2> QED
    BY <2>2, <2>3
<1>3. CASE ResultOf(w).kind = "exception"
  <2>1. exceptions[d] # None /\ (exceptions[d].status = "pending_clarify" => exceptions[d].reply = None)
    BY <1>1, <1>3, NoneIsFresh DEF SInv, Books, Unanswered
  <2>2. ASSUME NEW v \in {"pass", "rejected"}, SaveVerdict(w, v), NoMail(d, outbox)
        PROVE  Books' /\ \A r : OwnPO(r, orders) => OwnPO(r, orders')
    <3> DEFINE new == [exceptions[d] EXCEPT !.verdict = v]
    <3>1. exceptions' = [exceptions EXCEPT ![d] = new] /\ UNCHANGED orders
      BY <1>3, <2>2 DEF SaveVerdict, UpdateRecord, PutVerdict
    <3>2. /\ new # None /\ new.status = exceptions[d].status
          /\ new.reply = exceptions[d].reply
      BY <1>1, <1>3, NoneIsFresh DEF ExceptionRecord, Verdicts
    <3> HIDE DEF new
    <3> QED
      BY <1>1, <2>1, <2>2, <3>1, <3>2, AmendKeepsBooks
  <2>3. ASSUME NEW v \in {"sent", "failed"}, SaveReceipt(w, v)
        PROVE  Books' /\ \A r : OwnPO(r, orders) => OwnPO(r, orders')
    <3> DEFINE new == [exceptions[d] EXCEPT !.receipt = v]
    <3>1. exceptions' = [exceptions EXCEPT ![d] = new] /\ UNCHANGED orders
      BY <1>3, <2>3 DEF SaveReceipt, UpdateRecord, PutReceipt
    <3>2. /\ new # None /\ new.status = exceptions[d].status
          /\ new.reply = exceptions[d].reply /\ new.body = exceptions[d].body
          /\ new.verdict = exceptions[d].verdict
      BY <1>1, <1>3, NoneIsFresh DEF ExceptionRecord, Receipts
    <3> HIDE DEF new
    <3> QED
      BY <1>1, <2>1, <3>1, <3>2, AmendKeepsBooks
  <2> QED
    BY <2>2, <2>3
<1> QED
  BY <1>2, <1>3 DEF SaveVerdict, SaveReceipt, UpdateRecord

LEMMA VerdictSaved ==
  ASSUME SInv, NEW w \in Workers, run[w].pc = "judge", AtEntry(w),
         NEW v \in {"pass", "rejected"}, SaveVerdict(w, v),
         NEW c \in Docs, NEW kind \in {"order", "exception"}
  PROVE  LET old == RecordAt(kind, c, orders, exceptions)
             new == RecordAt(kind, c, orders', exceptions')
         IN  /\ new.body = old.body
             /\ c # DocOf(w) => new = old
             /\ c = DocOf(w) /\ kind = ResultOf(w).kind => new.verdict = v
<1> DEFINE d == DocOf(w)
<1>1. /\ d \in Docs
      /\ ResultOf(w).kind = "order" => orders[d] \in OrderRecord
      /\ ResultOf(w).kind = "exception" => exceptions[d] \in ExceptionRecord
      /\ orders \in [Docs -> OrderRecord \cup {None}]
      /\ exceptions \in [Docs -> ExceptionRecord \cup {None}]
  BY AtResult DEF SInv, IInv, TypeOK
<1>2. CASE ResultOf(w).kind = "order" /\ orders' = PutVerdict(orders, d, v)
           /\ UNCHANGED exceptions
  BY <1>1, <1>2 DEF PutVerdict, RecordAt, OrderRecord
<1>3. CASE ResultOf(w).kind = "exception" /\ exceptions' = PutVerdict(exceptions, d, v)
           /\ UNCHANGED orders
  BY <1>1, <1>3 DEF PutVerdict, RecordAt, ExceptionRecord
<1> QED
  BY <1>2, <1>3 DEF SaveVerdict, UpdateRecord

LEMMA ReceiptSaved ==
  ASSUME SInv, NEW w \in Workers, run[w].pc \in {"send", "receipt"}, AtEntry(w),
         NEW v \in {"sent", "failed"}, SaveReceipt(w, v),
         NEW c \in Docs, NEW kind \in {"order", "exception"}
  PROVE  LET old == RecordAt(kind, c, orders, exceptions)
             new == RecordAt(kind, c, orders', exceptions')
         IN  new.body = old.body /\ new.verdict = old.verdict
<1> DEFINE d == DocOf(w)
<1>1. /\ d \in Docs
      /\ ResultOf(w).kind = "order" => orders[d] \in OrderRecord
      /\ ResultOf(w).kind = "exception" => exceptions[d] \in ExceptionRecord
      /\ orders \in [Docs -> OrderRecord \cup {None}]
      /\ exceptions \in [Docs -> ExceptionRecord \cup {None}]
  BY AtResult DEF SInv, IInv, TypeOK
<1>2. CASE ResultOf(w).kind = "order" /\ orders' = PutReceipt(orders, d, v)
           /\ UNCHANGED exceptions
  BY <1>1, <1>2 DEF PutReceipt, RecordAt, OrderRecord
<1>3. CASE ResultOf(w).kind = "exception" /\ exceptions' = PutReceipt(exceptions, d, v)
           /\ UNCHANGED orders
  BY <1>1, <1>3 DEF PutReceipt, RecordAt, ExceptionRecord
<1> QED
  BY <1>2, <1>3 DEF SaveReceipt, UpdateRecord

(* The verdict goes to the session and to the record, before any mail.      *)
LEMMA SoloJudge ==
  ASSUME Alone, SInv, IInv', NEW w \in Workers, Judge(w) PROVE SInv'
<1> DEFINE s == run[w]
           d == DocOf(w)
           idx == EntryOf(w).idx
<1>1. /\ s \in Run /\ RunInv(s, w, orders, exceptions, approved, outbox)
      /\ SoloRun(s, orders, exceptions, outbox, labelled)
      /\ s.pc = "judge" /\ AtEntry(w) /\ ~NothingToDo(w) /\ UNCHANGED <<labelled, outbox, today>>
  BY SoloBefore DEF Judge
<1>2. PICK v \in {"pass", "rejected"} :
        /\ SaveVerdict(w, v)
        /\ run' = [run EXCEPT ![w].verdicts[EntryOf(w).idx] = v, ![w].pos = @ + 1]
  BY DEF Judge
<1> DEFINE r == [s EXCEPT !.verdicts = [s.verdicts EXCEPT ![idx] = v], !.pos = s.pos + 1]
<1>3. /\ s.pos \in DOMAIN s.results /\ idx \in Indices /\ idx = s.entries[s.pos].idx
      /\ d = DocAt(s, s.pos) /\ d \in Docs /\ ResultOf(w) = s.results[s.pos]
  BY <1>1, AtResult DEF SInv
<1>4. ResultOf(w).kind # "duplicate"
  BY <1>1 DEF NothingToDo
<1>5. run' = [run EXCEPT ![w] = r]
  BY <1>2 DEF SInv, IInv, TypeOK
<1>6. /\ r.pc = "judge" /\ r.msg = s.msg /\ r.scanned = s.scanned
      /\ r.entries = s.entries /\ r.decision = s.decision /\ r.results = s.results
      /\ r.verdicts[idx] = v
      /\ \A i \in Indices : i # idx => r.verdicts[i] = s.verdicts[i]
  BY <1>1, <1>3, RunFields DEF Run
<1> HIDE DEF r
<1>7. NoMail(d, outbox)
  BY <1>1, <1>3, <1>4 DEF SoloRun, Unmailed, Past
<1>8. Books' /\ OwnPO(s, orders')
  BY <1>1, <1>2, <1>7, AmendRecord DEF SoloRun
<1>9. \A i \in DOMAIN s.results :
        /\ DocAt(r, i) = DocAt(s, i) /\ DocAt(s, i) \in Docs
        /\ s.entries[i].idx \in Indices /\ s.results[i].kind \in Kinds
  BY <1>1, <1>6, ResultHasEntry DEF RunInv, DocAt, Result
<1>10. Copied(r, orders', exceptions')
  <2> SUFFICES ASSUME NEW i \in DOMAIN s.results, s.results[i].kind # "duplicate"
               PROVE  LET record == RecordAt(s.results[i].kind, DocAt(s, i), orders', exceptions')
                      IN  /\ record.body = s.results[i].body
                          /\ r.verdicts[s.entries[i].idx] = "pass" => record.verdict = "pass"
    BY <1>6, <1>9 DEF Copied
  <2>1. s.results[i].kind \in {"order", "exception"}
    BY <1>9 DEF Kinds
  <2>2. CASE i = s.pos
    BY <1>1, <1>2, <1>3, <1>6, <2>1, <2>2, VerdictSaved DEF SoloRun, Copied
  <2>3. CASE i # s.pos
    <3>1. DocAt(s, i) # d /\ s.entries[i].idx # idx
      BY <1>1, <1>3, <1>4, <2>3, DistinctDocs DEF RunInv
    <3>2. RecordAt(s.results[i].kind, DocAt(s, i), orders', exceptions')
            = RecordAt(s.results[i].kind, DocAt(s, i), orders, exceptions)
      BY <1>1, <1>2, <1>9, <2>1, <3>1, VerdictSaved
    <3> QED
      BY <1>1, <1>6, <1>9, <3>1, <3>2 DEF SoloRun, Copied
  <2> QED
    BY <2>2, <2>3
<1>11. Unmailed(r, outbox)
  BY <1>1, <1>6, <1>9 DEF SoloRun, Unmailed, Past
<1>12. SoloRun(r, orders', exceptions', outbox', labelled')
  BY <1>1, <1>6, <1>8, <1>10, <1>11 DEF SoloRun, Untouched, Unfiled, OwnPO, Waiting
<1> QED
  BY <1>1, <1>5, <1>8, <1>12, SoloStep

(* The end of an entry in Send, with or without a receipt.                  *)
LEMMA SoloReceipt ==
  ASSUME Alone, SInv, IInv', NEW w \in Workers,
         SendBlocked(w) \/ SendRefused(w) \/ WriteReceipt(w)
  PROVE  SInv'
<1> DEFINE s == run[w]
           r == [s EXCEPT !.pc = "send", !.pos = s.pos + 1]
<1>1. /\ s \in Run /\ RunInv(s, w, orders, exceptions, approved, outbox)
      /\ SoloRun(s, orders, exceptions, outbox, labelled)
      /\ s.pc \in {"send", "receipt"} /\ AtEntry(w) /\ UNCHANGED <<labelled, outbox, today>>
      /\ s.pos \in Nat \ {0}
  BY SoloBefore, RunFields
  DEF SendBlocked, SendRefused, AtSend, WriteReceipt, RunInv, Aligned, AtEntry
<1>2. \/ \E v \in {"sent", "failed"} : SaveReceipt(w, v)
      \/ UNCHANGED <<orders, exceptions>>
  BY DEF SendBlocked, SendRefused, RecordFailure, WriteReceipt
<1>3. run' = [run EXCEPT ![w] = r]
  <2>1. CASE WriteReceipt(w)
    BY <2>1 DEF WriteReceipt, SInv, IInv, TypeOK
  <2>2. CASE SendBlocked(w) \/ SendRefused(w)
    <3>1. s.pc = "send" /\ run' = [run EXCEPT ![w] = [s EXCEPT !.pos = s.pos + 1]]
      BY <2>2 DEF SendBlocked, SendRefused, AtSend, RecordFailure, SInv, IInv, TypeOK
    <3>2. [s EXCEPT !.pos = s.pos + 1] = r
      BY <1>1, <3>1 DEF Run
    <3> QED
      BY <3>1, <3>2
  <2> QED
    BY <2>1, <2>2
<1>4. /\ r.pc = "send" /\ r.msg = s.msg /\ r.scanned = s.scanned /\ r.pos = s.pos + 1
      /\ r.entries = s.entries /\ r.decision = s.decision /\ r.results = s.results
      /\ r.verdicts = s.verdicts
  BY <1>1 DEF Run
<1> HIDE DEF r
<1>5. Books' /\ OwnPO(s, orders')
  <2>1. CASE \E v \in {"sent", "failed"} : SaveReceipt(w, v)
    BY <1>1, <2>1, AmendRecord DEF SoloRun
  <2>2. CASE UNCHANGED <<orders, exceptions>>
    BY <1>1, <2>2 DEF SInv, Books, OneBook, OneLetter, RecordMatchesMail, OneOrderPerPO,
       Unanswered, SoloRun
  <2> QED
    BY <1>2, <2>1, <2>2
<1>6. \A i \in DOMAIN s.results :
        /\ DocAt(r, i) = DocAt(s, i) /\ DocAt(s, i) \in Docs
        /\ s.results[i].kind \in Kinds
  BY <1>1, <1>4, ResultHasEntry DEF RunInv, DocAt, Result
<1>7. \A c \in Docs, kind \in {"order", "exception"} :
        /\ RecordAt(kind, c, orders', exceptions').body
             = RecordAt(kind, c, orders, exceptions).body
        /\ RecordAt(kind, c, orders', exceptions').verdict
             = RecordAt(kind, c, orders, exceptions).verdict
  BY <1>1, <1>2, ReceiptSaved DEF RecordAt
<1>8. Copied(r, orders', exceptions')
  BY <1>1, <1>4, <1>6, <1>7 DEF SoloRun, Copied, Kinds
<1>9. Unmailed(r, outbox)
  <2>1. \A i \in DOMAIN s.results : Past(s, i) => Past(r, i)
    BY <1>1, <1>4, RunFields DEF Past
  <2> QED
    BY <1>1, <1>4, <1>6, <2>1 DEF SoloRun, Unmailed
<1>10. SoloRun(r, orders', exceptions', outbox', labelled')
  BY <1>1, <1>4, <1>5, <1>8, <1>9 DEF SoloRun, Untouched, Unfiled, OwnPO, Waiting
<1> QED
  BY <1>1, <1>3, <1>5, <1>10, SoloStep

(* The mail is the first about its document, and as the record says.        *)
LEMMA SoloSendMail ==
  ASSUME Alone, SInv, IInv', NEW w \in Workers, SendMail(w) PROVE SInv'
<1> DEFINE s == run[w]
           d == DocOf(w)
           mail == [doc |-> d, kind |-> ResultOf(w).kind,
                    body |-> ResultOf(w).body, by |-> w]
<1>1. /\ s \in Run /\ RunInv(s, w, orders, exceptions, approved, outbox)
      /\ SoloRun(s, orders, exceptions, outbox, labelled) /\ Books
      /\ s.pc = "send" /\ AtEntry(w) /\ ~NothingToDo(w) /\ JudgePassed(w)
      /\ outbox' = Append(outbox, mail) /\ UNCHANGED <<labelled, orders, exceptions, today>>
  BY SoloBefore DEF SendMail, AtSend, stores, SInv
<1>2. PICK accepted \in BOOLEAN :
        run' = [run EXCEPT ![w].pc = "receipt", ![w].accepted = accepted]
  BY DEF SendMail
<1> DEFINE r == [s EXCEPT !.pc = "receipt", !.accepted = accepted]
<1>3. /\ s.pos \in DOMAIN s.results /\ EntryOf(w).idx = s.entries[s.pos].idx
      /\ d = DocAt(s, s.pos) /\ d \in Docs /\ ResultOf(w) = s.results[s.pos]
      /\ ResultOf(w).kind \in {"order", "exception"} /\ ResultOf(w) \in Result
      /\ RecordAt(ResultOf(w).kind, d, orders, exceptions) # None
  <2>1. ResultOf(w).kind # "duplicate" /\ ResultOf(w) \in Result
    BY <1>1, AtResult DEF NothingToDo, SInv
  <2>2. ResultOf(w).kind \in {"order", "exception"}
    BY <2>1 DEF Result, Kinds
  <2> QED
    BY <1>1, <2>1, <2>2, AtResult, NoneIsFresh DEF SInv, RecordAt
<1>4. RecordAt(mail.kind, d, orders, exceptions).body = mail.body
      /\ RecordAt(mail.kind, d, orders, exceptions).verdict = "pass"
  BY <1>1, <1>3 DEF SoloRun, Copied, JudgePassed
<1>5. run' = [run EXCEPT ![w] = r]
  BY <1>2 DEF SInv, IInv, TypeOK
<1>6. /\ r.pc = "receipt" /\ r.msg = s.msg /\ r.scanned = s.scanned /\ r.pos = s.pos
      /\ r.entries = s.entries /\ r.decision = s.decision /\ r.results = s.results
      /\ r.verdicts = s.verdicts
  BY <1>1 DEF Run
<1> HIDE DEF r
<1>7. NoMail(d, outbox)
  BY <1>1, <1>3, RunFields DEF SoloRun, Unmailed, Past
<1>8. mail.doc = d
  OBVIOUS
<1>9. /\ outbox' \in Seq(Mail)
      /\ DOMAIN outbox' = 1..(Len(outbox) + 1) /\ outbox'[Len(outbox) + 1] = mail
      /\ \A k \in DOMAIN outbox : k \in DOMAIN outbox' /\ outbox'[k] = outbox[k]
      /\ \A k \in DOMAIN outbox' : k \in DOMAIN outbox \/ k = Len(outbox) + 1
  <2>1. mail \in Mail
    BY <1>3, <1>4, <1>1 DEF Mail, Result, Drafts, NothingToDo
  <2> QED
    BY <1>1, <2>1 DEF SInv, IInv, TypeOK
<1>10. Books'
  <2>1. OneLetter'
    BY <1>1, <1>7, <1>8, <1>9 DEF Books, OneLetter, NoMail
  <2>2. RecordMatchesMail'
    BY <1>1, <1>3, <1>4, <1>8, <1>9 DEF Books, RecordMatchesMail, RecordAt
  <2> QED
    BY <1>1, <2>1, <2>2 DEF Books, OneBook, OneOrderPerPO, Unanswered
<1> HIDE DEF mail
<1>11. Unmailed(r, outbox')
  <2> SUFFICES ASSUME NEW i \in DOMAIN s.results, s.results[i].kind # "duplicate", ~Past(r, i)
               PROVE  NoMail(DocAt(s, i), outbox')
    BY <1>6 DEF Unmailed, DocAt
  <2>1. i # s.pos /\ ~Past(s, i)
    BY <1>1, <1>3, <1>6, RunFields DEF Past
  <2>2. DocAt(s, i) # d
    BY <1>1, <1>3, <2>1, DistinctDocs DEF RunInv
  <2>3. NoMail(DocAt(s, i), outbox)
    BY <1>1, <2>1 DEF SoloRun, Unmailed
  <2> QED
    BY <1>8, <1>9, <2>2, <2>3 DEF NoMail
<1>12. SoloRun(r, orders', exceptions', outbox', labelled')
  BY <1>1, <1>6, <1>11
  DEF SoloRun, Untouched, Unfiled, Copied, OwnPO, Waiting, DocAt
<1> QED
  BY <1>1, <1>5, <1>10, <1>12, SoloStep

LEMMA SoloApplyLabel ==
  ASSUME Alone, SInv, IInv', NEW w \in Workers, ApplyLabel(w) PROVE SInv'
<1> DEFINE s == run[w]
           r == NewRun("idle", None, s.scanned)
<1>1. /\ SoloRun(s, orders, exceptions, outbox, labelled) /\ s.pc = "label"
      /\ labelled' = labelled \cup {s.msg} /\ run' = [run EXCEPT ![w] = r]
      /\ UNCHANGED <<orders, exceptions, outbox, today>>
  BY SoloBefore DEF ApplyLabel, stores
<1>2. s.scanned \cap labelled' = {}
  BY <1>1 DEF SoloRun, Untouched
<1>3. SoloRun(r, orders', exceptions', outbox', labelled')
  BY <1>2, SoloNewRun
<1>4. Books'
  BY <1>1 DEF SInv, Books, OneBook, OneLetter, RecordMatchesMail, OneOrderPerPO, Unanswered
<1> QED
  BY <1>1, <1>3, <1>4, SoloStep
-----------------------------------------------------------------------------
LEMMA InitSInv == Init => SInv
<1> SUFFICES ASSUME Init PROVE SInv
  OBVIOUS
<1>1. \A w \in Workers : SoloRun(run[w], orders, exceptions, outbox, labelled)
  BY SoloNewRun DEF Init
<1>2. Books
  BY DEF Init, Books, OneBook, OneLetter, RecordMatchesMail, OneOrderPerPO, Unanswered
<1> QED
  BY <1>1, <1>2, InitIInv DEF SInv

(* What was before the window yesterday is before it today.                 *)
LEMMA SoloNextDay ==
  ASSUME SInv, NextDay PROVE SInv'
<1>1. IInv' /\ UNCHANGED <<labelled, stores, outbox, run>> /\ today' = today + 1
  BY NextDayStep DEF SInv, NextDay
<1>2. today \in Nat /\ Window \in Nat
  BY DayAssumption DEF SInv, IInv, TypeOK
<1>3. \A d \in Docs : orders[d] # None => orders[d].day \in Nat
  BY DEF SInv, IInv, TypeOK, OrderRecord
<1>4. Books'
  BY <1>1 DEF SInv, Books, OneBook, OneLetter, RecordMatchesMail, OneOrderPerPO, Unanswered,
     stores
<1>5. ASSUME NEW w \in Workers PROVE OwnPO(run[w], orders)'
  <2>1. OwnPO(run[w], orders)
    BY DEF SInv, SoloRun
  <2> QED
    BY <1>1, <1>2, <1>3, <2>1 DEF OwnPO, stores
<1>6. ASSUME NEW w \in Workers PROVE SoloRun(run[w], orders, exceptions, outbox, labelled)'
  <2>1. SoloRun(run[w], orders, exceptions, outbox, labelled)
    BY DEF SInv
  <2> QED
    BY <1>1, <1>5, <2>1
    DEF SoloRun, Untouched, Unfiled, Unmailed, Copied, Waiting, stores
<1> QED
  BY <1>1, <1>4, <1>6 DEF SInv

LEMMA NextSInv ==
  ASSUME Alone PROVE SInv /\ [Next]_vars => SInv'
<1>1. ASSUME SInv, NEW w \in Workers, Step(w) \/ RunFails(w) \/ Crash(w) PROVE SInv'
  <2>1. IInv'
    BY <1>1, StepIInv DEF SInv
  <2> QED
    BY <1>1, <2>1, SoloStart, SoloReply, SoloParse, SoloValidate, SoloMovesOn,
       SoloPreflight, SoloReread, SoloCreateOrder, SoloCreateException, SoloReplyAdvance,
       SoloConfirm, SoloJudge, SoloReceipt, SoloSendMail, SoloApplyLabel
    DEF Step
<1>2. ASSUME SInv, NextDay PROVE SInv'
  BY <1>2, SoloNextDay
<1>3. ASSUME SInv, UNCHANGED vars PROVE SInv'
  <2>1. IInv'
    BY <1>3, NextIInv DEF SInv
  <2> QED
    BY <1>3, <2>1
    DEF vars, SInv, Books, OneBook, OneLetter, RecordMatchesMail, OneOrderPerPO, Unanswered,
        SoloRun, OwnPO
<1> QED
  BY <1>1, <1>2, <1>3 DEF Next

LEMMA AlwaysSInv ==
  ASSUME Alone PROVE Spec => []SInv
<1>1. SInv /\ [Next]_vars => SInv'
  BY NextSInv
<1> QED
  BY <1>1, InitSInv, PTL DEF Spec

(* With one worker the preflight dedupe suffices: through crashes, retries  *)
(* and changed decisions a document is an order or an exception, never both. *)
THEOREM NeverInBothBooks ==
  ASSUME Alone PROVE Spec => []OneBook
<1>1. SInv => OneBook
  BY DEF SInv, Books
<1> QED
  BY <1>1, AlwaysSInv, PTL

(* The customer gets one mail per document at most, however often a run is   *)
(* repeated and whatever answers and receipts are lost.                      *)
THEOREM NeverMailedTwice ==
  ASSUME Alone PROVE Spec => []AtMostOneMail
<1>1. SInv => AtMostOneMail
  BY DEF SInv, Books, OneLetter, AtMostOneMail
<1> QED
  BY <1>1, AlwaysSInv, PTL

(* The record keeps the body that was mailed and the pass that let it out.  *)
THEOREM RecordAlwaysMatchesMail ==
  ASSUME Alone PROVE Spec => []RecordMatchesMail
<1>1. SInv => RecordMatchesMail
  BY DEF SInv, Books
<1> QED
  BY <1>1, AlwaysSInv, PTL

(* find_duplicate lets no purchase order through in two emails within its    *)
(* window, although it looks many awaits, and perhaps a midnight, before the *)
(* order is created; emails whose attachments share a name and an index but *)
(* not the purchase order are excepted.                                     *)
THEOREM NeverOrderedTwice ==
  ASSUME Alone PROVE Spec => []OneOrderPerPO
<1>1. SInv => OneOrderPerPO
  BY DEF SInv, Books
<1> QED
  BY <1>1, AlwaysSInv, PTL

KeepsReply ==
  \A d \in Docs :
    exceptions[d] # None /\ exceptions[d].reply # None =>
      exceptions'[d].reply = exceptions[d].reply

LEMMA NextKeepsReply ==
  ASSUME Alone PROVE SInv /\ [Next]_vars => KeepsReply
<1>1. ASSUME SInv, NEW w \in Workers, ReplyAdvance(w) PROVE KeepsReply
  <2>1. run[w].target \in Docs /\ exceptions[run[w].target] # None
    BY <1>1, SoloBefore, RunFields DEF ReplyAdvance, RunInv, Backed
  <2>2. exceptions[run[w].target].reply = None
    BY <1>1, <2>1, SoloBefore DEF ReplyAdvance, SoloRun, Waiting, SInv, Books, Unanswered
  <2> QED
    BY <1>1, <2>1, <2>2 DEF ReplyAdvance, PutReply, KeepsReply, SInv, IInv, TypeOK
<1>2. ASSUME SInv, NEW w \in Workers, CreateException(w) PROVE KeepsReply
  BY <1>2 DEF CreateException, Create, KeepsReply, SInv, IInv, TypeOK
<1>3. ASSUME SInv, NEW d \in Docs, NEW v,
             exceptions' = PutVerdict(exceptions, d, v) \/ exceptions' = PutReceipt(exceptions, d, v)
      PROVE  KeepsReply
  BY <1>3 DEF PutVerdict, PutReceipt, KeepsReply, SInv, IInv, TypeOK, ExceptionRecord
<1>4. ASSUME UNCHANGED exceptions PROVE KeepsReply
  BY <1>4 DEF KeepsReply
<1>5. ASSUME SInv, NEW w \in Workers, Judge(w) PROVE KeepsReply
  <2>1. DocOf(w) \in Docs
    BY <1>5, AtResult DEF Judge, SInv
  <2> QED
    BY <1>3, <1>4, <1>5, <2>1 DEF Judge, SaveVerdict, UpdateRecord
<1>6. ASSUME SInv, NEW w \in Workers, SendBlocked(w) \/ SendRefused(w) \/ WriteReceipt(w)
      PROVE  KeepsReply
  <2>1. DocOf(w) \in Docs
    BY <1>6, AtResult, SoloBefore
    DEF SendBlocked, SendRefused, AtSend, WriteReceipt, RunInv, Aligned, AtEntry, SInv
  <2> QED
    BY <1>3, <1>4, <1>6, <2>1
    DEF SendBlocked, SendRefused, RecordFailure, WriteReceipt, SaveReceipt, UpdateRecord
<1>7. ASSUME NEW w \in Workers,
             \/ Scan(w) \/ (\E e \in Emails : Pick(w, e))
             \/ FindPending(w) \/ ReplyGuard(w) \/ Parse(w)
             \/ Validate(w) \/ Clarify(w) \/ PersistPreflight(w) \/ CreateOrder(w)
             \/ Reread(w) \/ Confirm(w) \/ Finalize(w) \/ SendDryRun(w) \/ SendMail(w)
             \/ SkipEntry(w) \/ StageDone(w) \/ ApplyLabel(w) \/ RunFails(w) \/ Crash(w)
      PROVE  UNCHANGED exceptions
  BY <1>7
  DEF Scan, Pick, FindPending, ReplyGuard, Parse, Validate, Clarify, PersistPreflight,
      CreateOrder, Create, Reread, Confirm, Finalize, SendDryRun, SendMail, SkipEntry,
      StageDone, ApplyLabel, RunFails, Crash, stores
<1>8. ASSUME SInv, NEW w \in Workers, Step(w) \/ RunFails(w) \/ Crash(w) PROVE KeepsReply
  BY <1>1, <1>2, <1>4, <1>5, <1>6, <1>7, <1>8 DEF Step
<1>9. CASE NextDay \/ UNCHANGED vars
  BY <1>4, <1>9 DEF vars, NextDay, stores
<1> QED
  BY <1>8, <1>9 DEF Next

(* A reply that was recorded on an exception is never replaced by another.   *)
THEOREM RepliesAreKept ==
  ASSUME Alone PROVE Spec => ReplyKept
<1>1. SInv /\ [Next]_vars => [KeepsReply]_exceptions
  BY NextKeepsReply
<1> QED
  BY <1>1, AlwaysSInv, PTL DEF Spec, ReplyKept, KeepsReply
=============================================================================
