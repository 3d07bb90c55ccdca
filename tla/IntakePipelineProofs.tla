------------------------ MODULE IntakePipelineProofs ------------------------
(***************************************************************************)
(* Theorems about IntakePipeline, for any number of workers, emails,       *)
(* purchase orders and faults.                                             *)
(*                                                                         *)
(* None of the invariants is inductive by itself.  They all rest on what a *)
(* run knows at each of its stages, which the session keeps in lists:      *)
(* results[i] and decision[i] belong to entries[i], every result           *)
(* is backed by a record, and a later entry with the sub_doc_index of an   *)
(* earlier one is always a duplicate.  WorkerInv says so of one worker and *)
(* IInv of all of them.                                                    *)
(***************************************************************************)
EXTENDS IntakePipeline, TLAPS

DocAt(r, i) == ComposeDocId(r.msg, r.entries[i].idx)

Early == {"idle", "reply", "guard", "advance", "parse"}

Writing == {"persist", "create", "reread"}

Late == {"confirm", "finalize", "judge", "send", "receipt", "label"}

(* How far the lists of the session reach at each stage.                    *)
Aligned(r) ==
  /\ r.pc # "idle" => r.msg \in Emails
  /\ r.pc \in Early => /\ r.pos = 1 /\ r.entries = <<>>
                       /\ r.decision = <<>> /\ r.results = <<>>
  /\ r.pc \in {"validate", "clarify"} => r.results = <<>>
  /\ r.pc = "validate" => Len(r.decision) = r.pos - 1
  /\ r.pc \in {"validate"} \cup Writing => r.pos <= Len(r.entries) + 1
  /\ r.pc \in {"clarify"} \cup Writing => Len(r.decision) = Len(r.entries)
  /\ r.pc \in Writing => Len(r.results) = r.pos - 1
  /\ r.pc \in {"create", "reread", "receipt"} => r.pos <= Len(r.entries)
  /\ r.pc \in Late => Len(r.results) = Len(r.entries)
  /\ r.pc \notin {"judge", "send", "receipt", "label"} =>
       r.verdicts = [i \in Indices |-> "missing"]

(* Only the first entry of a document is anything but a duplicate.          *)
NoTwin(r) ==
  /\ \A i, j \in DOMAIN r.results :
       i < j /\ r.entries[i].idx = r.entries[j].idx => r.results[j].kind = "duplicate"
  /\ r.pc \in {"create", "reread"} =>
       \A i \in DOMAIN r.results : r.entries[i].idx # r.entries[r.pos].idx

(* Every result stands for a record, and the exception a reply was matched  *)
(* to is one that was pending.                                              *)
Backed(r, ord, exc) ==
  /\ \A i \in DOMAIN r.results :
       /\ r.results[i].kind = "order" => ord[DocAt(r, i)] # None
       /\ r.results[i].kind = "exception" => exc[DocAt(r, i)] # None
       /\ ord[DocAt(r, i)] # None \/ exc[DocAt(r, i)] # None
  /\ r.pc = "reread" =>
       IF Validated(r) = "auto_approve" THEN ord[DocAt(r, r.pos)] # None
                                             ELSE exc[DocAt(r, r.pos)] # None
  /\ r.pc \in {"guard", "advance"} => r.target # None
  /\ r.target # None =>
       /\ exc[r.target] # None
       /\ exc[r.target].status \in {"pending_clarify", "awaiting_review"}
       /\ r.pc \notin {"guard", "advance"} => exc[r.target].status = "awaiting_review"

(* A pass in the session is about the body the session would mail.          *)
Cleared(r, w, app) ==
  \A i \in DOMAIN r.results :
    r.results[i].kind # "duplicate" /\ r.results[i].body # None
      /\ r.verdicts[r.entries[i].idx] = "pass"
    => [doc |-> DocAt(r, i), body |-> r.results[i].body, by |-> w] \in app

(* A receipt is only written after its mail.                                *)
Posted(r, out) ==
  r.pc = "receipt" =>
    \E k \in DOMAIN out : /\ out[k].doc = DocAt(r, r.pos)
                          /\ out[k].kind = r.results[r.pos].kind

WorkerInv(w) ==
  /\ Aligned(run[w])
  /\ NoTwin(run[w])
  /\ Backed(run[w], orders, exceptions)
  /\ Cleared(run[w], w, approved)
  /\ Posted(run[w], outbox)

IInv ==
  /\ TypeOK
  /\ VerifiedMail
  /\ TruthfulReceipt
  /\ \A w \in Workers : WorkerInv(w)
-----------------------------------------------------------------------------
(* What every step respects, whoever takes it: records, drafts passed and   *)
(* mail are kept, and an exception only leaves pending_clarify.             *)
Grows ==
  /\ \A d \in Docs : orders[d] # None => orders'[d] # None
  /\ \A d \in Docs : exceptions[d] # None =>
       /\ exceptions'[d] # None
       /\ \/ exceptions'[d].status = exceptions[d].status
          \/ /\ exceptions[d].status = "pending_clarify"
             /\ exceptions'[d].status = "awaiting_review"
  /\ approved \subseteq approved'
  /\ \A k \in DOMAIN outbox : k \in DOMAIN outbox' /\ outbox'[k] = outbox[k]

StoresOK ==
  /\ orders \in [Docs -> OrderRecord \cup {None}]
  /\ exceptions \in [Docs -> ExceptionRecord \cup {None}]

OthersOK ==
  /\ labelled \subseteq Emails
  /\ clock \in Nat
  /\ outbox \in Seq(Mail)
  /\ sending \in SendModes
  /\ today \in 0..MaxDay
  /\ faults \in 0..MaxFaults
  /\ approved \subseteq [doc: Docs, body: Workers, by: Workers]

RunInv(r, w, ord, exc, app, out) ==
  /\ Aligned(r)
  /\ NoTwin(r)
  /\ Backed(r, ord, exc)
  /\ Cleared(r, w, app)
  /\ Posted(r, out)

LEMMA RunFields ==
  ASSUME NEW r \in Run
  PROVE  /\ r.pc \in Stages /\ r.scanned \subseteq Emails /\ r.msg \in Emails \cup {None}
         /\ r.target \in Docs \cup {None} /\ r.entries \in Seq(Entry)
         /\ r.pos \in Nat \ {0} /\ r.decision \in Seq(Decisions)
         /\ r.results \in Seq(Result) /\ r.verdicts \in [Indices -> Verdicts]
         /\ r.accepted \in BOOLEAN
BY DEF Run

(* What Persist finds under a key stays as the session keeps its lists.     *)
LEMMA SameDecision ==
  ASSUME NEW r, NEW s, r.entries = s.entries, r.decision = s.decision, r.pos = s.pos
  PROVE  Validated(r) = Validated(s)
BY DEF Validated, SameKey

LEMMA DocAtType ==
  ASSUME NEW r \in Run, Aligned(r), r.pc # "idle", NEW i \in 1..Len(r.entries)
  PROVE  /\ r.entries[i].idx \in Indices
         /\ r.entries[i].po \in POs
         /\ DocAt(r, i) \in Docs
<1>1. r.entries[i] \in Entry
  BY RunFields
<1>2. r.msg \in Emails
  BY DEF Aligned
<1> QED
  BY <1>1, <1>2 DEF Entry, DocAt, ComposeDocId, Docs

(* Every result is that of an entry.                                        *)
LEMMA ResultHasEntry ==
  ASSUME NEW r \in Run, Aligned(r), NEW i \in DOMAIN r.results
  PROVE  /\ r.pc # "idle" /\ i \in 1..Len(r.entries)
         /\ r.results[i] \in Result
         /\ r.entries[i].idx \in Indices /\ DocAt(r, i) \in Docs
<1>1. r.results \in Seq(Result) /\ r.pos \in Nat /\ Len(r.entries) \in Nat /\ r.pc \in Stages
  BY RunFields
<1>2. i \in 1..Len(r.results) /\ r.results[i] \in Result /\ r.results # <<>>
  BY <1>1
<1>3. r.pc \notin Early /\ r.pc \notin {"validate", "clarify"}
  BY <1>2 DEF Aligned
<1>4. r.pc \in Writing \/ r.pc \in Late
  BY <1>1, <1>3 DEF Stages, LoopStages, Early, Writing, Late
<1>5. Len(r.results) <= Len(r.entries)
  BY <1>1, <1>4 DEF Aligned
<1>6. r.pc # "idle" /\ i \in 1..Len(r.entries)
  BY <1>1, <1>2, <1>3, <1>5 DEF Early
<1> QED
  BY <1>2, <1>6, DocAtType

(* A run that does not move keeps its invariant while the others work.      *)
LEMMA Frame ==
  ASSUME TypeOK, Grows, NEW v \in Workers, WorkerInv(v), run'[v] = run[v]
  PROVE  WorkerInv(v)'
<1> DEFINE r == run[v]
<1>1. r \in Run
  BY DEF TypeOK
<1>2. Aligned(r) /\ NoTwin(r)
  BY DEF WorkerInv
<1>3. \A i \in DOMAIN r.results : DocAt(r, i) \in Docs
  BY <1>1, <1>2, ResultHasEntry
<1>4. Backed(r, orders', exceptions')
  <2>1. \A i \in DOMAIN r.results :
       /\ r.results[i].kind = "order" => orders'[DocAt(r, i)] # None
       /\ r.results[i].kind = "exception" => exceptions'[DocAt(r, i)] # None
       /\ orders'[DocAt(r, i)] # None \/ exceptions'[DocAt(r, i)] # None
    BY <1>3 DEF WorkerInv, Backed, Grows
  <2>2. r.pc = "reread" => DocAt(r, r.pos) \in Docs
    BY <1>1, <1>2, DocAtType, RunFields DEF Aligned
  <2>3. r.target # None => r.target \in Docs
    BY <1>1, RunFields
  <2> QED
    BY <2>1, <2>2, <2>3 DEF WorkerInv, Backed, Grows
<1>5. Cleared(r, v, approved')
  BY DEF WorkerInv, Cleared, Grows
<1>6. Posted(r, outbox')
  BY DEF WorkerInv, Posted, Grows
<1> QED
  BY <1>2, <1>4, <1>5, <1>6 DEF WorkerInv

(* The one way every step is shown to preserve the invariant: what worker w *)
(* turns its run into, and what it does to the shared state.                *)
LEMMA StepPreserves ==
  ASSUME IInv, Grows, NEW w \in Workers, NEW r \in Run,
         run' = [run EXCEPT ![w] = r],
         StoresOK', OthersOK', VerifiedMail', TruthfulReceipt',
         RunInv(r, w, orders', exceptions', approved', outbox')
  PROVE  IInv'
<1>1. run' \in [Workers -> Run] /\ run'[w] = r
  BY DEF IInv, TypeOK
<1>2. WorkerInv(w)'
  BY <1>1 DEF WorkerInv, RunInv
<1>3. ASSUME NEW v \in Workers, v # w PROVE WorkerInv(v)'
  <2>1. run'[v] = run[v]
    BY <1>3 DEF IInv, TypeOK
  <2> QED
    BY <2>1, Frame DEF IInv
<1> QED
  BY <1>1, <1>2, <1>3 DEF IInv, TypeOK, StoresOK, OthersOK

Quiet == UNCHANGED <<labelled, stores, outbox, sending, today, faults, approved>>

LEMMA QuietPreserves ==
  ASSUME IInv, Quiet, NEW w \in Workers, NEW r \in Run,
         run' = [run EXCEPT ![w] = r],
         RunInv(r, w, orders, exceptions, approved, outbox)
  PROVE  IInv'
<1>1. Grows /\ StoresOK' /\ OthersOK' /\ VerifiedMail' /\ TruthfulReceipt'
  BY DEF IInv, TypeOK, Grows, StoresOK, OthersOK, VerifiedMail, TruthfulReceipt, Mailed,
     Quiet, stores
<1>2. RunInv(r, w, orders', exceptions', approved', outbox')
  BY DEF Quiet, stores
<1> QED
  BY <1>1, <1>2, StepPreserves
-----------------------------------------------------------------------------
(* Steps that change nothing but the run of their worker.                  *)

LEMMA NewRunOK ==
  ASSUME NEW w \in Workers, NEW e \in Emails \cup {None}, NEW scanned \in SUBSET Emails,
         NEW pc \in {"idle", "reply", "parse"}, pc # "idle" => e \in Emails,
         NEW ord, NEW exc, NEW app, NEW out
  PROVE  /\ NewRun(pc, e, scanned) \in Run
         /\ RunInv(NewRun(pc, e, scanned), w, ord, exc, app, out)
<1> DEFINE r == NewRun(pc, e, scanned)
<1>1. /\ r.pc = pc /\ r.msg = e /\ r.target = None /\ r.entries = <<>> /\ r.pos = 1
      /\ r.decision = <<>> /\ r.results = <<>>
      /\ r.verdicts = [i \in Indices |-> "missing"]
  BY DEF NewRun
<1>2. r \in Run
  BY DEF NewRun, Run, Stages, LoopStages, Verdicts
<1> HIDE DEF r
<1>3. Aligned(r) /\ NoTwin(r) /\ Posted(r, out) /\ Cleared(r, w, app)
  BY <1>1 DEF Aligned, NoTwin, Posted, Cleared, Early, Writing, Late
<1>4. Backed(r, ord, exc)
  BY <1>1 DEF Backed
<1> QED
  BY <1>2, <1>3, <1>4 DEF RunInv, r

(* The run of w before a step, with what IInv says of it.                   *)
LEMMA Before ==
  ASSUME IInv, NEW w \in Workers
  PROVE  /\ run \in [Workers -> Run] /\ run[w] \in Run
         /\ RunInv(run[w], w, orders, exceptions, approved, outbox)
BY DEF IInv, TypeOK, WorkerInv, RunInv

LEMMA ScanStep ==
  ASSUME IInv, NEW w \in Workers, Scan(w) PROVE IInv'
<1> DEFINE r == [run[w] EXCEPT !.scanned = Emails \ labelled]
<1>1. run[w] \in Run /\ RunInv(run[w], w, orders, exceptions, approved, outbox)
  BY Before
<1>2. run' = [run EXCEPT ![w] = r] /\ Quiet /\ run[w].pc = "idle"
  BY DEF Scan, Quiet
<1>3. r \in Run
  BY <1>1 DEF Run
<1>4. /\ r.pc = run[w].pc /\ r.msg = run[w].msg /\ r.target = run[w].target
      /\ r.entries = run[w].entries /\ r.pos = run[w].pos
      /\ r.decision = run[w].decision /\ r.results = run[w].results
      /\ r.verdicts = run[w].verdicts
  BY <1>1 DEF Run
<1> HIDE DEF r
<1>5. RunInv(r, w, orders, exceptions, approved, outbox)
  BY <1>1, <1>2, <1>4 DEF RunInv, Aligned, NoTwin, Backed, Cleared, Posted, DocAt
<1> QED
  BY <1>2, <1>3, <1>5, QuietPreserves

LEMMA PickStep ==
  ASSUME IInv, NEW w \in Workers, NEW e \in Emails, Pick(w, e) PROVE IInv'
<1> DEFINE pc == IF e \in Replies THEN "reply" ELSE "parse"
           r == NewRun(pc, e, run[w].scanned \ {e})
<1>1. run[w].scanned \subseteq Emails
  BY Before, RunFields
<1>2. run' = [run EXCEPT ![w] = r] /\ Quiet
  BY DEF Pick, Quiet
<1>3. r \in Run /\ RunInv(r, w, orders, exceptions, approved, outbox)
  BY <1>1, NewRunOK
<1> QED
  BY <1>2, <1>3, QuietPreserves

(* A quiet step that moves a worker from one stage to the next.             *)
LEMMA FindPendingStep ==
  ASSUME IInv, NEW w \in Workers, FindPending(w) PROVE IInv'
<1> DEFINE s == run[w]
<1>1. s \in Run /\ RunInv(s, w, orders, exceptions, approved, outbox) /\ s.pc = "reply"
  BY Before DEF FindPending
<1>2. /\ s.pos = 1 /\ s.entries = <<>> /\ s.decision = <<>> /\ s.results = <<>>
      /\ s.verdicts = [i \in Indices |-> "missing"] /\ s.msg \in Emails
  BY <1>1 DEF RunInv, Aligned, Early
<1>3. CASE run' = [run EXCEPT ![w].pc = "parse"]
  <2> DEFINE r == [s EXCEPT !.pc = "parse"]
  <2>1. run' = [run EXCEPT ![w] = r] /\ Quiet
    BY <1>3 DEF FindPending, Quiet
  <2>2. r \in Run
    BY <1>1 DEF Run, Stages
  <2>3. /\ r.pc = "parse" /\ r.pos = 1 /\ r.entries = <<>> /\ r.decision = <<>>
        /\ r.results = <<>> /\ r.verdicts = s.verdicts /\ r.msg = s.msg
        /\ r.target = s.target
    BY <1>1, <1>2 DEF Run
  <2> HIDE DEF r
  <2>4. RunInv(r, w, orders, exceptions, approved, outbox)
    BY <1>1, <1>2, <2>3 DEF RunInv, Aligned, NoTwin, Backed, Cleared, Posted, Early, Writing, Late
  <2> QED
    BY <2>1, <2>2, <2>4, QuietPreserves
<1>4. ASSUME NEW d \in FindPendingClarify(exceptions, ThreadOf[s.msg]),
             run' = [run EXCEPT ![w].pc = "guard", ![w].target = d]
      PROVE  IInv'
  <2> DEFINE r == [s EXCEPT !.pc = "guard", !.target = d]
  <2>1. run' = [run EXCEPT ![w] = r] /\ Quiet
    BY <1>1, <1>4 DEF FindPending, Quiet, IInv, TypeOK
  <2>2. d \in Docs /\ exceptions[d] # None /\ exceptions[d].status = "pending_clarify"
    BY DEF FindPendingClarify, Pending, IInv, TypeOK
  <2>3. r \in Run
    BY <1>1, <2>2 DEF Run, Stages
  <2>4. /\ r.pc = "guard" /\ r.pos = 1 /\ r.entries = <<>> /\ r.decision = <<>>
        /\ r.results = <<>> /\ r.verdicts = s.verdicts /\ r.msg = s.msg /\ r.target = d
    BY <1>1, <1>2 DEF Run
  <2> HIDE DEF r
  <2>5. d # None
    BY <2>2, NoneIsFresh
  <2>6. RunInv(r, w, orders, exceptions, approved, outbox)
    BY <1>2, <2>2, <2>4, <2>5
    DEF RunInv, Aligned, NoTwin, Backed, Cleared, Posted, Early, Writing, Late
  <2> QED
    BY <2>1, <2>3, <2>6, QuietPreserves
<1> QED
  BY <1>3, <1>4 DEF FindPending

LEMMA ReplyGuardStep ==
  ASSUME IInv, NEW w \in Workers, ReplyGuard(w) PROVE IInv'
<1> DEFINE s == run[w]
<1>1. s \in Run /\ RunInv(s, w, orders, exceptions, approved, outbox) /\ s.pc = "guard"
  BY Before DEF ReplyGuard
<1>2. CASE run' = [run EXCEPT ![w].pc = "advance"]
  <2> DEFINE r == [s EXCEPT !.pc = "advance"]
  <2>1. run' = [run EXCEPT ![w] = r] /\ Quiet
    BY <1>2 DEF ReplyGuard, Quiet
  <2>2. r \in Run
    BY <1>1 DEF Run, Stages
  <2>3. /\ r.pc = "advance" /\ r.pos = s.pos /\ r.entries = s.entries
        /\ r.decision = s.decision /\ r.results = s.results /\ r.verdicts = s.verdicts
        /\ r.msg = s.msg /\ r.target = s.target
    BY <1>1 DEF Run
  <2> HIDE DEF r
  <2>4. RunInv(r, w, orders, exceptions, approved, outbox)
    BY <1>1, <2>3
    DEF RunInv, Aligned, NoTwin, Backed, Cleared, Posted, DocAt, Early, Writing, Late
  <2> QED
    BY <2>1, <2>2, <2>4, QuietPreserves
<1>3. CASE run' = [run EXCEPT ![w] = NewRun("idle", None, s.scanned)]
  <2>1. NewRun("idle", None, s.scanned) \in Run
    BY <1>1, RunFields, NewRunOK
  <2>2. RunInv(NewRun("idle", None, s.scanned), w, orders, exceptions, approved, outbox)
    BY <1>1, RunFields, NewRunOK
  <2> QED
    BY <1>3, <2>1, <2>2, QuietPreserves DEF ReplyGuard, Quiet
<1> QED
  BY <1>2, <1>3 DEF ReplyGuard

LEMMA ParseStep ==
  ASSUME IInv, NEW w \in Workers, Parse(w) PROVE IInv'
<1> DEFINE s == run[w]
<1>1. s \in Run /\ RunInv(s, w, orders, exceptions, approved, outbox) /\ s.pc = "parse"
  BY Before DEF Parse
<1>2. PICK es \in Extractions[s.msg] :
        run' = [run EXCEPT ![w].pc = "validate", ![w].entries = es]
  BY DEF Parse
<1>3. es \in Seq(Entry)
  BY <1>1, EmailAssumptions DEF RunInv, Aligned
<1> DEFINE r == [s EXCEPT !.pc = "validate", !.entries = es]
<1>4. run' = [run EXCEPT ![w] = r] /\ Quiet
  BY <1>2 DEF Parse, Quiet, IInv, TypeOK
<1>5. r \in Run
  BY <1>1, <1>3 DEF Run, Stages, LoopStages
<1>6. /\ r.pc = "validate" /\ r.pos = 1 /\ r.entries = es /\ r.decision = <<>>
      /\ r.results = <<>> /\ r.verdicts = s.verdicts /\ r.msg = s.msg /\ r.target = s.target
  BY <1>1 DEF Run, RunInv, Aligned, Early
<1> HIDE DEF r
<1>7. RunInv(r, w, orders, exceptions, approved, outbox)
  BY <1>1, <1>3, <1>6 DEF RunInv, Aligned, NoTwin, Backed, Cleared, Posted, Early, Writing, Late
<1> QED
  BY <1>4, <1>5, <1>7, QuietPreserves

LEMMA ValidateStep ==
  ASSUME IInv, NEW w \in Workers, Validate(w) PROVE IInv'
<1> DEFINE s == run[w]
<1>1. /\ s \in Run /\ RunInv(s, w, orders, exceptions, approved, outbox)
      /\ s.pc = "validate" /\ s.pos <= Len(s.entries)
  BY Before DEF Validate, AtEntry
<1>2. PICK decision \in Decisions :
        run' = [run EXCEPT ![w].decision = Append(@, decision), ![w].pos = @ + 1]
  BY DEF Validate
<1> DEFINE r == [s EXCEPT !.decision = Append(s.decision, decision), !.pos = s.pos + 1]
<1>3. run' = [run EXCEPT ![w] = r] /\ Quiet
  BY <1>2 DEF Validate, Quiet, IInv, TypeOK
<1>4. s.decision \in Seq(Decisions) /\ s.pos \in Nat \ {0} /\ s.entries \in Seq(Entry)
  BY <1>1, RunFields
<1>5. r \in Run
  <2>1. Append(s.decision, decision) \in Seq(Decisions) /\ s.pos + 1 \in Nat \ {0}
    BY <1>4
  <2> QED
    BY <1>1, <2>1 DEF Run
<1>6. /\ r.pc = "validate" /\ r.pos = s.pos + 1 /\ r.entries = s.entries
      /\ r.decision = Append(s.decision, decision) /\ r.results = s.results
      /\ r.verdicts = s.verdicts /\ r.msg = s.msg /\ r.target = s.target
  BY <1>1 DEF Run
<1> HIDE DEF r
<1>7. Len(r.decision) = r.pos - 1 /\ r.pos <= Len(r.entries) + 1
  BY <1>1, <1>4, <1>6 DEF RunInv, Aligned
<1>8. RunInv(r, w, orders, exceptions, approved, outbox)
  BY <1>1, <1>6, <1>7
  DEF RunInv, Aligned, NoTwin, Backed, Cleared, Posted, DocAt, Early, Writing, Late
<1> QED
  BY <1>3, <1>5, <1>8, QuietPreserves

LEMMA ClarifyStep ==
  ASSUME IInv, NEW w \in Workers, Clarify(w) PROVE IInv'
<1> DEFINE s == run[w]
           r == [s EXCEPT !.pc = "persist", !.pos = 1]
<1>1. s \in Run /\ RunInv(s, w, orders, exceptions, approved, outbox) /\ s.pc = "clarify"
  BY Before DEF Clarify
<1>2. run' = [run EXCEPT ![w] = r] /\ Quiet
  BY DEF Clarify, Quiet, IInv, TypeOK
<1>3. r \in Run
  <2>1. "persist" \in Stages /\ 1 \in Nat \ {0}
    BY DEF Stages, LoopStages
  <2> QED
    BY <1>1, <2>1 DEF Run
<1>4. /\ r.pc = "persist" /\ r.pos = 1 /\ r.entries = s.entries
      /\ r.decision = s.decision /\ r.results = <<>>
      /\ r.verdicts = s.verdicts /\ r.msg = s.msg /\ r.target = s.target
      /\ s.entries \in Seq(Entry)
  BY <1>1 DEF Run, RunInv, Aligned
<1> HIDE DEF r
<1>5. RunInv(r, w, orders, exceptions, approved, outbox)
  BY <1>1, <1>4 DEF RunInv, Aligned, NoTwin, Backed, Cleared, Posted, Early, Writing, Late
<1> QED
  BY <1>2, <1>3, <1>5, QuietPreserves

LEMMA PreflightStep ==
  ASSUME IInv, NEW w \in Workers, PersistPreflight(w) PROVE IInv'
<1> DEFINE s == run[w]
<1>1. /\ s \in Run /\ RunInv(s, w, orders, exceptions, approved, outbox)
      /\ s.pc = "persist" /\ s.pos <= Len(s.entries)
  BY Before DEF PersistPreflight, AtEntry
<1>2. /\ s.results \in Seq(Result) /\ s.pos \in Nat \ {0} /\ s.entries \in Seq(Entry)
      /\ s.decision \in Seq(Decisions)
  BY <1>1, RunFields
<1>3. Len(s.results) = s.pos - 1 /\ Len(s.decision) = Len(s.entries)
  BY <1>1 DEF RunInv, Aligned, Writing
<1>4. DocOf(w) = DocAt(s, s.pos)
  BY DEF DocOf, EntryOf, DocAt
<1>5. CASE Recorded(DocOf(w))
  <2> DEFINE dup == [kind |-> "duplicate", body |-> None, receipt |-> "none"]
             r == [s EXCEPT !.results = Append(s.results, dup), !.pos = s.pos + 1]
  <2>1. run' = [run EXCEPT ![w] = r] /\ Quiet
    BY <1>5 DEF PersistPreflight, Quiet, IInv, TypeOK
  <2>2. dup \in Result
    BY DEF Result, Kinds, Drafts, Receipts
  <2>3. r \in Run
    <3>1. Append(s.results, dup) \in Seq(Result) /\ s.pos + 1 \in Nat \ {0}
      BY <1>2, <2>2
    <3> QED
      BY <1>1, <3>1 DEF Run
  <2>4. /\ r.pc = "persist" /\ r.pos = s.pos + 1 /\ r.entries = s.entries
        /\ r.decision = s.decision /\ r.results = Append(s.results, dup)
        /\ r.verdicts = s.verdicts /\ r.msg = s.msg /\ r.target = s.target
    BY <1>1 DEF Run
  <2> HIDE DEF r
  <2>5. /\ DOMAIN r.results = 1..s.pos /\ r.results[s.pos].kind = "duplicate"
        /\ \A i \in 1..(s.pos - 1) : i \in DOMAIN s.results /\ r.results[i] = s.results[i]
    BY <1>2, <1>3, <2>2, <2>4
  <2>6. Aligned(r)
    BY <1>1, <1>2, <1>3, <2>2, <2>4 DEF RunInv, Aligned, Early, Writing, Late
  <2>7. NoTwin(r)
    <3>1. ASSUME NEW i \in DOMAIN r.results, NEW j \in DOMAIN r.results, i < j,
                 r.entries[i].idx = r.entries[j].idx
          PROVE  r.results[j].kind = "duplicate"
      <4>1. CASE j = s.pos
        BY <2>5, <4>1
      <4>2. CASE j # s.pos
        <5>1. i \in 1..(s.pos - 1) /\ j \in 1..(s.pos - 1)
          BY <1>2, <2>5, <3>1, <4>2
        <5> QED
          BY <1>1, <2>4, <2>5, <3>1, <5>1 DEF RunInv, NoTwin
      <4> QED
        BY <4>1, <4>2
    <3> QED
      BY <2>4, <3>1 DEF NoTwin
  <2>8. Backed(r, orders, exceptions)
    <3>1. \A i \in 1..s.pos : DocAt(r, i) = DocAt(s, i)
      BY <2>4 DEF DocAt
    <3>2. \A i \in 1..(s.pos - 1) :
            /\ r.results[i].kind = "order" => orders[DocAt(r, i)] # None
            /\ r.results[i].kind = "exception" => exceptions[DocAt(r, i)] # None
            /\ orders[DocAt(r, i)] # None \/ exceptions[DocAt(r, i)] # None
      BY <1>1, <1>2, <2>5, <3>1 DEF RunInv, Backed
    <3>3. orders[DocAt(r, s.pos)] # None \/ exceptions[DocAt(r, s.pos)] # None
      BY <1>2, <1>4, <1>5, <3>1 DEF Recorded
    <3>4. \A i \in DOMAIN r.results : i \in 1..(s.pos - 1) \/ i = s.pos
      BY <1>2, <2>5
    <3> QED
      BY <1>1, <2>4, <2>5, <3>2, <3>3, <3>4 DEF RunInv, Backed
  <2>9. Cleared(r, w, approved)
    <3>1. \A i \in DOMAIN r.results : i \in 1..(s.pos - 1) \/ i = s.pos
      BY <1>2, <2>5
    <3> QED
      BY <1>1, <2>4, <2>5, <3>1 DEF RunInv, Cleared, DocAt
  <2>10. Posted(r, outbox)
    BY <2>4 DEF Posted
  <2> QED
    BY <2>1, <2>3, <2>6, <2>7, <2>8, <2>9, <2>10, QuietPreserves DEF RunInv
<1>6. CASE ~Recorded(DocOf(w))
  <2> DEFINE r == [s EXCEPT !.pc = "create"]
  <2>1. run' = [run EXCEPT ![w] = r] /\ Quiet
    BY <1>6 DEF PersistPreflight, Quiet
  <2>2. r \in Run
    BY <1>1 DEF Run, Stages
  <2>3. /\ r.pc = "create" /\ r.pos = s.pos /\ r.entries = s.entries
        /\ r.decision = s.decision /\ r.results = s.results
        /\ r.verdicts = s.verdicts /\ r.msg = s.msg /\ r.target = s.target
    BY <1>1 DEF Run
  <2> HIDE DEF r
  <2>4. \A i \in DOMAIN s.results : s.entries[i].idx # s.entries[s.pos].idx
    BY <1>1, <1>4, <1>6 DEF RunInv, Backed, Recorded, DocAt
  <2>5. RunInv(r, w, orders, exceptions, approved, outbox)
    BY <1>1, <2>3, <2>4
    DEF RunInv, Aligned, NoTwin, Backed, Cleared, Posted, DocAt, Early, Writing, Late
  <2> QED
    BY <2>1, <2>2, <2>5, QuietPreserves
<1> QED
  BY <1>5, <1>6

LEMMA RereadStep ==
  ASSUME IInv, NEW w \in Workers, Reread(w) PROVE IInv'
<1> DEFINE s == run[w]
           auto == Validated(s) = "auto_approve"
           record == IF auto THEN orders[DocOf(w)] ELSE exceptions[DocOf(w)]
           result == [kind |-> IF auto THEN "order" ELSE "exception",
                      body |-> record.body, receipt |-> record.receipt]
           r == [s EXCEPT !.results = Append(s.results, result), !.pc = "persist",
                          !.pos = s.pos + 1]
<1>1. /\ s \in Run /\ RunInv(s, w, orders, exceptions, approved, outbox)
      /\ s.pc = "reread"
  BY Before DEF Reread
<1>2. /\ s.results \in Seq(Result) /\ s.pos \in Nat \ {0} /\ s.entries \in Seq(Entry)
      /\ s.decision \in Seq(Decisions)
  BY <1>1, RunFields
<1>3. Len(s.results) = s.pos - 1 /\ Len(s.decision) = Len(s.entries) /\ s.pos <= Len(s.entries)
  BY <1>1 DEF RunInv, Aligned, Writing
<1>4. DocOf(w) = DocAt(s, s.pos) /\ DocOf(w) \in Docs
  BY <1>1, <1>2, <1>3, DocAtType DEF DocOf, EntryOf, DocAt, RunInv
<1>5. IF auto THEN orders[DocOf(w)] # None ELSE exceptions[DocOf(w)] # None
  BY <1>1, <1>4 DEF RunInv, Backed
<1>6. result \in Result
  <2>1. record \in OrderRecord \/ record \in ExceptionRecord
    BY <1>4, <1>5 DEF IInv, TypeOK
  <2> QED
    BY <2>1 DEF Result, Kinds, OrderRecord, ExceptionRecord
<1>7. run' = [run EXCEPT ![w] = r] /\ Quiet
  BY DEF Reread, Quiet, IInv, TypeOK
<1> HIDE DEF result
<1>8. r \in Run
  <2>1. Append(s.results, result) \in Seq(Result) /\ s.pos + 1 \in Nat \ {0}
    BY <1>2, <1>6
  <2>2. "persist" \in Stages
    BY DEF Stages, LoopStages
  <2> QED
    BY <1>1, <2>1, <2>2 DEF Run
<1>9. /\ r.pc = "persist" /\ r.pos = s.pos + 1 /\ r.entries = s.entries
      /\ r.decision = s.decision /\ r.results = Append(s.results, result)
      /\ r.verdicts = s.verdicts /\ r.msg = s.msg /\ r.target = s.target
  BY <1>1 DEF Run
<1> HIDE DEF r
<1>10. /\ DOMAIN r.results = 1..s.pos /\ r.results[s.pos] = result
       /\ \A i \in 1..(s.pos - 1) : i \in DOMAIN s.results /\ r.results[i] = s.results[i]
       /\ \A i \in DOMAIN r.results : i \in 1..(s.pos - 1) \/ i = s.pos
  BY <1>2, <1>3, <1>6, <1>9
<1>11. Aligned(r)
  BY <1>1, <1>2, <1>3, <1>6, <1>9 DEF RunInv, Aligned, Early, Writing, Late
<1>12. NoTwin(r)
  <2>1. ASSUME NEW i \in DOMAIN r.results, NEW j \in DOMAIN r.results, i < j,
               r.entries[i].idx = r.entries[j].idx
        PROVE  r.results[j].kind = "duplicate"
    <3>1. i \in 1..(s.pos - 1)
      BY <1>2, <1>10, <2>1
    <3>2. j # s.pos
      BY <1>1, <1>9, <1>10, <2>1, <3>1 DEF RunInv, NoTwin
    <3> QED
      BY <1>1, <1>9, <1>10, <2>1, <3>1, <3>2 DEF RunInv, NoTwin
  <2> QED
    BY <1>9, <2>1 DEF NoTwin
<1>13. Backed(r, orders, exceptions)
  <2>1. \A i \in 1..s.pos : DocAt(r, i) = DocAt(s, i)
    BY <1>9 DEF DocAt
  <2>2. \A i \in 1..(s.pos - 1) :
          /\ r.results[i].kind = "order" => orders[DocAt(r, i)] # None
          /\ r.results[i].kind = "exception" => exceptions[DocAt(r, i)] # None
          /\ orders[DocAt(r, i)] # None \/ exceptions[DocAt(r, i)] # None
    BY <1>1, <1>2, <1>10, <2>1 DEF RunInv, Backed
  <2>3. /\ r.results[s.pos].kind = "order" => orders[DocAt(r, s.pos)] # None
        /\ r.results[s.pos].kind = "exception" => exceptions[DocAt(r, s.pos)] # None
        /\ orders[DocAt(r, s.pos)] # None \/ exceptions[DocAt(r, s.pos)] # None
    BY <1>2, <1>4, <1>5, <1>10, <2>1 DEF result
  <2> QED
    BY <1>1, <1>9, <1>10, <2>2, <2>3 DEF RunInv, Backed
<1>14. Cleared(r, w, approved)
  <2>1. r.verdicts = [i \in Indices |-> "missing"]
    BY <1>1, <1>9 DEF RunInv, Aligned
  <2>2. \A i \in DOMAIN r.results : r.entries[i].idx \in Indices
    BY <1>8, <1>11, ResultHasEntry
  <2> QED
    BY <2>1, <2>2 DEF Cleared
<1>15. Posted(r, outbox)
  BY <1>9 DEF Posted
<1> QED
  BY <1>7, <1>8, <1>11, <1>12, <1>13, <1>14, <1>15, QuietPreserves DEF RunInv

LEMMA FinalizeStep ==
  ASSUME IInv, NEW w \in Workers, Finalize(w) PROVE IInv'
<1> DEFINE s == run[w]
           r == [s EXCEPT !.pc = "judge", !.pos = 1]
<1>1. s \in Run /\ RunInv(s, w, orders, exceptions, approved, outbox) /\ s.pc = "finalize"
  BY Before DEF Finalize
<1>2. run' = [run EXCEPT ![w] = r] /\ Quiet
  BY DEF Finalize, Quiet, IInv, TypeOK
<1>3. r \in Run
  <2>1. "judge" \in Stages /\ 1 \in Nat \ {0}
    BY DEF Stages, LoopStages
  <2> QED
    BY <1>1, <2>1 DEF Run
<1>4. /\ r.pc = "judge" /\ r.pos = 1 /\ r.entries = s.entries /\ r.decision = s.decision
      /\ r.results = s.results /\ r.verdicts = s.verdicts /\ r.msg = s.msg
      /\ r.target = s.target
  BY <1>1 DEF Run
<1> HIDE DEF r
<1>5. RunInv(r, w, orders, exceptions, approved, outbox)
  BY <1>1, <1>4
  DEF RunInv, Aligned, NoTwin, Backed, Cleared, Posted, DocAt, Early, Writing, Late
<1> QED
  BY <1>2, <1>3, <1>5, QuietPreserves

(* Moving on to the next entry of Confirm, Judge or Send.                   *)
LEMMA NextEntry ==
  ASSUME IInv, Quiet, NEW w \in Workers, run[w].pc \in {"confirm", "judge", "send"},
         run' = [run EXCEPT ![w].pos = @ + 1]
  PROVE  IInv'
<1> DEFINE s == run[w]
           r == [s EXCEPT !.pos = s.pos + 1]
<1>1. s \in Run /\ RunInv(s, w, orders, exceptions, approved, outbox) /\ s.pos \in Nat \ {0}
  BY Before, RunFields
<1>2. run' = [run EXCEPT ![w] = r]
  BY DEF IInv, TypeOK
<1>3. r \in Run
  BY <1>1, s.pos + 1 \in Nat \ {0} DEF Run
<1>4. /\ r.pc = s.pc /\ r.pos = s.pos + 1 /\ r.entries = s.entries /\ r.decision = s.decision
      /\ r.results = s.results /\ r.verdicts = s.verdicts /\ r.msg = s.msg
      /\ r.target = s.target
  BY <1>1 DEF Run
<1> HIDE DEF r
<1>5. RunInv(r, w, orders, exceptions, approved, outbox)
  BY <1>1, <1>4
  DEF RunInv, Aligned, NoTwin, Backed, Cleared, Posted, DocAt, Early, Writing, Late
<1> QED
  BY <1>2, <1>3, <1>5, QuietPreserves

LEMMA SkipEntryStep ==
  ASSUME IInv, NEW w \in Workers, SkipEntry(w) \/ SendDryRun(w) PROVE IInv'
BY NextEntry DEF SkipEntry, SendDryRun, AtSend, Quiet

LEMMA StageDoneStep ==
  ASSUME IInv, NEW w \in Workers, StageDone(w) PROVE IInv'
<1> DEFINE s == run[w]
           r == [s EXCEPT !.pc = NextStage(s.pc), !.pos = 1]
<1>1. /\ s \in Run /\ RunInv(s, w, orders, exceptions, approved, outbox)
      /\ s.pc \in LoopStages /\ ~(s.pos <= Len(s.entries))
  BY Before DEF StageDone, AtEntry
<1>2. /\ s.results \in Seq(Result) /\ s.pos \in Nat \ {0} /\ s.entries \in Seq(Entry)
      /\ s.decision \in Seq(Decisions)
  BY <1>1, RunFields
<1>3. run' = [run EXCEPT ![w] = r] /\ Quiet
  BY DEF StageDone, Quiet, IInv, TypeOK
<1>4. /\ NextStage(s.pc) \in {"clarify", "confirm", "finalize", "send", "label"}
      /\ s.pc = "validate" <=> NextStage(s.pc) = "clarify"
      /\ NextStage(s.pc) \in {"send", "label"} <=> s.pc \in {"judge", "send"}
  BY <1>1 DEF LoopStages, NextStage
<1>5. r \in Run
  <2>1. NextStage(s.pc) \in Stages /\ 1 \in Nat \ {0}
    BY <1>4 DEF Stages, LoopStages
  <2> QED
    BY <1>1, <2>1 DEF Run
<1>6. /\ r.pc = NextStage(s.pc) /\ r.pos = 1 /\ r.entries = s.entries
      /\ r.decision = s.decision /\ r.results = s.results /\ r.verdicts = s.verdicts
      /\ r.msg = s.msg /\ r.target = s.target
  BY <1>1 DEF Run
<1> HIDE DEF r
<1>7. Aligned(r)
  <2>1. s.pc = "validate" => s.results = <<>> /\ Len(s.decision) = Len(s.entries)
    BY <1>1, <1>2 DEF RunInv, Aligned
  <2>2. s.pc # "validate" => Len(s.results) = Len(s.entries)
    BY <1>1, <1>2 DEF RunInv, Aligned, Writing, Late, LoopStages
  <2>3. s.msg \in Emails
    BY <1>1 DEF RunInv, Aligned, LoopStages
  <2>4. s.pc \notin {"judge", "send"} => s.verdicts = [i \in Indices |-> "missing"]
    BY <1>1 DEF RunInv, Aligned, LoopStages
  <2> QED
    BY <1>4, <1>6, <2>1, <2>2, <2>3, <2>4 DEF Aligned, Early, Writing, Late
<1>8. RunInv(r, w, orders, exceptions, approved, outbox)
  BY <1>1, <1>4, <1>6, <1>7
  DEF RunInv, NoTwin, Backed, Cleared, Posted, DocAt, LoopStages
<1> QED
  BY <1>3, <1>5, <1>8, QuietPreserves
-----------------------------------------------------------------------------
(* Steps that write to the stores.                                         *)

LEMMA CreateOrderStep ==
  ASSUME IInv, NEW w \in Workers, CreateOrder(w) PROVE IInv'
<1> DEFINE s == run[w]
           d == DocOf(w)
           r == [s EXCEPT !.pc = "reread"]
<1>1. /\ s \in Run /\ RunInv(s, w, orders, exceptions, approved, outbox)
      /\ s.pc = "create" /\ Validated(s) = "auto_approve"
  BY Before DEF CreateOrder
<1>2. s.pos \in 1..Len(s.entries)
  BY <1>1, RunFields DEF RunInv, Aligned
<1>3. d = DocAt(s, s.pos) /\ d \in Docs /\ s.entries[s.pos].po \in POs
  BY <1>1, <1>2, DocAtType DEF DocOf, EntryOf, DocAt, RunInv
<1>4. NewOrder(w) \in OrderRecord /\ NewOrder(w).receipt = "none"
  BY <1>3, DayAssumption
  DEF NewOrder, OrderRecord, EntryOf, Drafts, Verdicts, Receipts, IInv, TypeOK
<1>5. run' = [run EXCEPT ![w] = r]
  BY DEF CreateOrder
<1>6. r \in Run
  BY <1>1 DEF Run, Stages
<1>7. /\ orders' = Create(orders, d, NewOrder(w))
      /\ UNCHANGED <<labelled, exceptions, clock, outbox, sending, today, faults, approved>>
  BY DEF CreateOrder
<1> HIDE DEF d
<1>8. StoresOK' /\ orders'[d] # None /\ (\A c \in Docs : c # d => orders'[c] = orders[c])
  <2>1. NewOrder(w) # None
    BY <1>4, NoneIsFresh
  <2> QED
    BY <1>3, <1>4, <1>7, <2>1 DEF IInv, TypeOK, StoresOK, Create
<1>9. Grows
  BY <1>7, <1>8 DEF Grows, Create, IInv, TypeOK
<1>10. TruthfulReceipt'
  BY <1>3, <1>4, <1>7 DEF TruthfulReceipt, Create, Mailed, IInv, TypeOK
<1>11. OthersOK' /\ VerifiedMail'
  BY <1>7 DEF IInv, TypeOK, OthersOK, VerifiedMail
<1>12. /\ r.pc = "reread" /\ r.pos = s.pos /\ r.entries = s.entries
       /\ r.decision = s.decision /\ r.results = s.results
       /\ r.verdicts = s.verdicts /\ r.msg = s.msg /\ r.target = s.target
  BY <1>1 DEF Run
<1> HIDE DEF r
<1>13. Aligned(r) /\ NoTwin(r) /\ Cleared(r, w, approved') /\ Posted(r, outbox')
  BY <1>1, <1>7, <1>12
  DEF RunInv, Aligned, NoTwin, Cleared, Posted, DocAt, Early, Writing, Late
<1>14. Backed(r, orders', exceptions')
  <2>1. \A i \in DOMAIN s.results : DocAt(r, i) = DocAt(s, i) /\ DocAt(s, i) \in Docs
    BY <1>1, <1>12, ResultHasEntry DEF RunInv, DocAt
  <2>2. DocAt(r, r.pos) = d
    BY <1>3, <1>12 DEF DocAt
  <2>3. Validated(r) = "auto_approve"
    BY <1>1, <1>12, SameDecision
  <2> QED
    BY <1>1, <1>7, <1>8, <1>12, <2>1, <2>2, <2>3 DEF RunInv, Backed
<1> QED
  BY <1>5, <1>6, <1>8, <1>9, <1>10, <1>11, <1>13, <1>14, StepPreserves DEF RunInv

LEMMA CreateExceptionStep ==
  ASSUME IInv, NEW w \in Workers, CreateException(w) PROVE IInv'
<1> DEFINE s == run[w]
           d == DocOf(w)
           new == NewException(w, Validated(s))
           r == [s EXCEPT !.pc = "reread"]
<1>1. /\ s \in Run /\ RunInv(s, w, orders, exceptions, approved, outbox)
      /\ s.pc = "create" /\ Validated(s) # "auto_approve"
  BY Before DEF CreateException
<1>2. s.pos \in 1..Len(s.entries)
  BY <1>1, RunFields DEF RunInv, Aligned
<1>3. /\ d = DocAt(s, s.pos) /\ d \in Docs /\ s.entries[s.pos].po \in POs
      /\ s.msg \in Emails
  BY <1>1, <1>2, DocAtType DEF DocOf, EntryOf, DocAt, RunInv, Aligned
<1>4. new \in ExceptionRecord /\ new.receipt = "none"
  <2>1. ThreadOf[s.msg] \in Emails /\ clock \in Nat
    BY <1>3, EmailAssumptions DEF IInv, TypeOK
  <2> QED
    BY <1>3, <2>1 DEF NewException, ExceptionOf, ExceptionRecord, EntryOf, Drafts,
       Verdicts, Receipts, ExceptionStatus
<1>5. run' = [run EXCEPT ![w] = r]
  BY DEF CreateException
<1>6. r \in Run
  BY <1>1 DEF Run, Stages
<1>7. /\ exceptions' = Create(exceptions, d, new)
      /\ clock' = clock + 1
      /\ UNCHANGED <<labelled, orders, outbox, sending, today, faults, approved>>
  BY DEF CreateException
<1> HIDE DEF d, new
<1>8. /\ StoresOK' /\ exceptions'[d] # None
      /\ \A c \in Docs : c # d => exceptions'[c] = exceptions[c]
  <2>1. new # None
    BY <1>4, NoneIsFresh
  <2> QED
    BY <1>3, <1>4, <1>7, <2>1 DEF IInv, TypeOK, StoresOK, Create
<1>9. Grows
  BY <1>7, <1>8 DEF Grows, Create, IInv, TypeOK
<1>10. TruthfulReceipt'
  BY <1>3, <1>4, <1>7 DEF TruthfulReceipt, Create, Mailed, IInv, TypeOK
<1>11. OthersOK' /\ VerifiedMail'
  BY <1>7 DEF IInv, TypeOK, OthersOK, VerifiedMail
<1>12. /\ r.pc = "reread" /\ r.pos = s.pos /\ r.entries = s.entries
       /\ r.decision = s.decision /\ r.results = s.results
       /\ r.verdicts = s.verdicts /\ r.msg = s.msg /\ r.target = s.target
  BY <1>1 DEF Run
<1> HIDE DEF r
<1>13. Aligned(r) /\ NoTwin(r) /\ Cleared(r, w, approved') /\ Posted(r, outbox')
  BY <1>1, <1>7, <1>12
  DEF RunInv, Aligned, NoTwin, Cleared, Posted, DocAt, Early, Writing, Late
<1>14. Backed(r, orders', exceptions')
  <2>1. \A i \in DOMAIN s.results : DocAt(r, i) = DocAt(s, i) /\ DocAt(s, i) \in Docs
    BY <1>1, <1>12, ResultHasEntry DEF RunInv, DocAt
  <2>2. DocAt(r, r.pos) = d
    BY <1>3, <1>12 DEF DocAt
  <2>3. r.target # None =>
          /\ exceptions'[r.target] # None
          /\ exceptions'[r.target].status = "awaiting_review"
    <3>1. s.target # None => s.target \in Docs /\ exceptions[s.target] # None
      BY <1>1, RunFields DEF RunInv, Backed
    <3> QED
      BY <1>1, <1>9, <1>12, <3>1 DEF RunInv, Backed, Grows
  <2>4. Validated(r) # "auto_approve"
    BY <1>1, <1>12, SameDecision
  <2> QED
    BY <1>1, <1>7, <1>8, <1>9, <1>12, <2>1, <2>2, <2>3, <2>4 DEF RunInv, Backed
<1> QED
  BY <1>5, <1>6, <1>8, <1>9, <1>10, <1>11, <1>13, <1>14, StepPreserves DEF RunInv

LEMMA ReplyAdvanceStep ==
  ASSUME IInv, NEW w \in Workers, ReplyAdvance(w) PROVE IInv'
<1> DEFINE s == run[w]
           d == s.target
           r == [s EXCEPT !.pc = "finalize"]
<1>1. s \in Run /\ RunInv(s, w, orders, exceptions, approved, outbox) /\ s.pc = "advance"
  BY Before DEF ReplyAdvance
<1>2. /\ d \in Docs /\ d # None /\ exceptions[d] \in ExceptionRecord
      /\ exceptions[d].status \in {"pending_clarify", "awaiting_review"} /\ s.msg \in Emails
  BY <1>1, RunFields DEF RunInv, Backed, Aligned, IInv, TypeOK
<1>3. run' = [run EXCEPT ![w] = r]
  BY DEF ReplyAdvance
<1>4. r \in Run
  BY <1>1 DEF Run, Stages
<1>5. /\ exceptions' = PutReply(exceptions, d, s.msg)
      /\ UNCHANGED <<labelled, orders, clock, outbox, sending, today, faults, approved>>
  BY DEF ReplyAdvance
<1> DEFINE new == [exceptions[d] EXCEPT !.status = "awaiting_review", !.reply = s.msg]
<1>6. /\ new \in ExceptionRecord /\ new.status = "awaiting_review"
      /\ new.receipt = exceptions[d].receipt
  BY <1>2 DEF ExceptionRecord, ExceptionStatus
<1>7. /\ exceptions' = [exceptions EXCEPT ![d] = new]
      /\ exceptions' \in [Docs -> ExceptionRecord \cup {None}]
      /\ exceptions'[d] = new /\ new # None
      /\ \A c \in Docs : c # d => exceptions'[c] = exceptions[c]
  BY <1>2, <1>5, <1>6, NoneIsFresh DEF PutReply, IInv, TypeOK
<1> HIDE DEF new, d
<1>8. Grows /\ StoresOK' /\ TruthfulReceipt'
  <2>1. Grows
    BY <1>2, <1>5, <1>6, <1>7 DEF Grows
  <2>2. StoresOK'
    BY <1>5, <1>7 DEF StoresOK, IInv, TypeOK
  <2>3. TruthfulReceipt'
    <3>1. exceptions[d] # None
      BY <1>1 DEF RunInv, Backed, d
    <3> QED
      BY <1>2, <1>5, <1>6, <1>7, <3>1 DEF TruthfulReceipt, Mailed, IInv
  <2> QED
    BY <2>1, <2>2, <2>3
<1>9. OthersOK' /\ VerifiedMail'
  BY <1>5 DEF IInv, TypeOK, OthersOK, VerifiedMail
<1>10. /\ r.pc = "finalize" /\ r.pos = 1 /\ r.entries = <<>> /\ r.decision = <<>>
       /\ r.results = <<>> /\ r.verdicts = s.verdicts /\ r.msg = s.msg /\ r.target = d
  BY <1>1 DEF Run, RunInv, Aligned, Early, d
<1> HIDE DEF r
<1>11. RunInv(r, w, orders', exceptions', approved', outbox')
  BY <1>1, <1>6, <1>7, <1>10
  DEF RunInv, Aligned, NoTwin, Backed, Cleared, Posted, Early, Writing, Late
<1> QED
  BY <1>3, <1>4, <1>8, <1>9, <1>11, StepPreserves

LEMMA ConfirmStep ==
  ASSUME IInv, NEW w \in Workers, Confirm(w) PROVE IInv'
<1> DEFINE s == run[w]
           d == DocOf(w)
           result == [s.results[s.pos] EXCEPT !.body = w]
           r == [s EXCEPT !.results = [s.results EXCEPT ![s.pos] = result], !.pos = s.pos + 1]
<1>1. /\ s \in Run /\ RunInv(s, w, orders, exceptions, approved, outbox)
      /\ s.pc = "confirm" /\ s.pos <= Len(s.entries) /\ s.results[s.pos].kind = "order"
  BY Before DEF Confirm, AtEntry, NothingToDo, ResultOf
<1>2. /\ s.results \in Seq(Result) /\ s.pos \in Nat \ {0} /\ s.entries \in Seq(Entry)
      /\ Len(s.results) = Len(s.entries) /\ s.pos \in DOMAIN s.results
      /\ s.pos \in 1..Len(s.entries)
  BY <1>1, RunFields DEF RunInv, Aligned, Late
<1>3. d = DocAt(s, s.pos) /\ d \in Docs /\ orders[d] \in OrderRecord
  BY <1>1, <1>2, DocAtType DEF DocOf, EntryOf, DocAt, RunInv, Backed, IInv, TypeOK
<1>4. result \in Result /\ result.kind = "order"
  <2>1. s.results[s.pos] \in Result
    BY <1>2
  <2> QED
    BY <1>1, <2>1 DEF Result, Drafts
<1>5. run' = [run EXCEPT ![w] = r]
  BY DEF Confirm, IInv, TypeOK
<1> HIDE DEF result
<1>6. /\ [s.results EXCEPT ![s.pos] = result] \in Seq(Result)
      /\ Len([s.results EXCEPT ![s.pos] = result]) = Len(s.results)
  BY <1>2, <1>4
<1>7. r \in Run
  BY <1>1, <1>6, s.pos + 1 \in Nat \ {0}, <1>2 DEF Run
<1> DEFINE new == [orders[d] EXCEPT !.body = w]
<1>8. /\ orders' = [orders EXCEPT ![d] = new]
      /\ UNCHANGED <<labelled, exceptions, clock, outbox, sending, today, faults, approved>>
  BY DEF Confirm, PutBody
<1>9. new \in OrderRecord /\ new.receipt = orders[d].receipt /\ new # None
  BY <1>3, NoneIsFresh DEF OrderRecord, Drafts
<1> HIDE DEF new, d
<1>10. Grows /\ StoresOK' /\ TruthfulReceipt'
  BY <1>3, <1>8, <1>9, NoneIsFresh DEF Grows, StoresOK, TruthfulReceipt, Mailed, IInv, TypeOK
<1>11. OthersOK' /\ VerifiedMail'
  BY <1>8 DEF IInv, TypeOK, OthersOK, VerifiedMail
<1>12. /\ r.pc = "confirm" /\ r.pos = s.pos + 1 /\ r.entries = s.entries
       /\ r.decision = s.decision /\ r.results = [s.results EXCEPT ![s.pos] = result]
       /\ r.verdicts = s.verdicts /\ r.msg = s.msg /\ r.target = s.target
  BY <1>1 DEF Run
<1> HIDE DEF r
<1>13. /\ DOMAIN r.results = DOMAIN s.results /\ Len(r.results) = Len(s.results)
       /\ \A i \in DOMAIN r.results : r.results[i].kind = s.results[i].kind
  BY <1>1, <1>2, <1>4, <1>6, <1>12
<1>14. Aligned(r) /\ NoTwin(r) /\ Posted(r, outbox')
  BY <1>1, <1>12, <1>13 DEF RunInv, Aligned, NoTwin, Posted, Early, Writing, Late
<1>15. Backed(r, orders', exceptions')
  <2>1. \A i \in DOMAIN s.results : DocAt(r, i) = DocAt(s, i) /\ DocAt(s, i) \in Docs
    BY <1>1, <1>12, ResultHasEntry DEF RunInv, DocAt
  <2> QED
    BY <1>1, <1>8, <1>10, <1>12, <1>13, <2>1 DEF RunInv, Backed, Grows
<1>16. Cleared(r, w, approved')
  <2>1. r.verdicts = [i \in Indices |-> "missing"]
    BY <1>1, <1>12 DEF RunInv, Aligned
  <2>2. \A i \in DOMAIN r.results : r.entries[i].idx \in Indices
    BY <1>7, <1>14, ResultHasEntry
  <2> QED
    BY <2>1, <2>2 DEF Cleared
<1> QED
  BY <1>5, <1>7, <1>10, <1>11, <1>14, <1>15, <1>16, StepPreserves DEF RunInv

(* The entry a loop of Judge or Send is at, and its record.                 *)
LEMMA AtResult ==
  ASSUME IInv, NEW w \in Workers, run[w].pc \in {"judge", "send", "receipt"}, AtEntry(w)
  PROVE  /\ run[w].pos \in DOMAIN run[w].results
         /\ run[w].pos \in 1..Len(run[w].entries)
         /\ ResultOf(w) = run[w].results[run[w].pos] /\ ResultOf(w) \in Result
         /\ EntryOf(w) = run[w].entries[run[w].pos] /\ EntryOf(w).idx \in Indices
         /\ DocOf(w) = DocAt(run[w], run[w].pos) /\ DocOf(w) \in Docs
         /\ ResultOf(w).kind = "order" => orders[DocOf(w)] \in OrderRecord
         /\ ResultOf(w).kind = "exception" => exceptions[DocOf(w)] \in ExceptionRecord
<1> DEFINE s == run[w]
<1>1. s \in Run /\ RunInv(s, w, orders, exceptions, approved, outbox)
  BY Before
<1>2. /\ s.results \in Seq(Result) /\ s.pos \in Nat \ {0} /\ s.entries \in Seq(Entry)
      /\ Len(s.results) = Len(s.entries) /\ s.pos <= Len(s.entries)
  BY <1>1, RunFields DEF RunInv, Aligned, Late, AtEntry
<1>3. s.pos \in DOMAIN s.results /\ s.results[s.pos] \in Result
  BY <1>2
<1>4. DocOf(w) = DocAt(s, s.pos)
  BY DEF DocOf, EntryOf, DocAt
<1>5. /\ s.results[s.pos].kind = "order" => orders[DocOf(w)] # None
      /\ s.results[s.pos].kind = "exception" => exceptions[DocOf(w)] # None
  BY <1>1, <1>3, <1>4 DEF RunInv, Backed
<1>6. s.pos \in 1..Len(s.entries) /\ s.entries[s.pos].idx \in Indices /\ DocAt(s, s.pos) \in Docs
  BY <1>1, <1>2, <1>3, ResultHasEntry DEF RunInv
<1> QED
  BY <1>3, <1>4, <1>5, <1>6 DEF ResultOf, EntryOf, IInv, TypeOK

(* A field of a record may change; that the record is there may not.        *)
LEMMA SaveReceiptKeeps ==
  ASSUME IInv, NEW w \in Workers, run[w].pc \in {"send", "receipt"}, AtEntry(w),
         NEW receipt \in {"sent", "failed"}, SaveReceipt(w, receipt),
         receipt = "sent" => Mailed(DocOf(w), ResultOf(w).kind),
         UNCHANGED <<outbox, approved>>
  PROVE  Grows /\ StoresOK' /\ TruthfulReceipt'
<1> DEFINE d == DocOf(w)
<1>1. d \in Docs
  BY AtResult
<1> HIDE DEF d
<1>2. CASE ResultOf(w).kind = "order" /\ orders' = PutReceipt(orders, d, receipt)
           /\ UNCHANGED exceptions
  <2> DEFINE new == [orders[d] EXCEPT !.receipt = receipt]
  <2>1. orders[d] \in OrderRecord
    BY <1>2, AtResult DEF d
  <2>2. new \in OrderRecord /\ new.receipt = receipt /\ new # None
    BY <2>1, NoneIsFresh DEF OrderRecord, Receipts
  <2>3. orders' = [orders EXCEPT ![d] = new]
    BY <1>2 DEF PutReceipt
  <2> HIDE DEF new
  <2>4. Grows /\ StoresOK'
    BY <1>1, <1>2, <2>2, <2>3 DEF Grows, StoresOK, IInv, TypeOK
  <2>5. TruthfulReceipt'
    BY <1>1, <1>2, <2>2, <2>3 DEF TruthfulReceipt, Mailed, IInv, TypeOK, d
  <2> QED
    BY <2>4, <2>5
<1>3. CASE ResultOf(w).kind = "exception" /\ exceptions' = PutReceipt(exceptions, d, receipt)
           /\ UNCHANGED orders
  <2> DEFINE new == [exceptions[d] EXCEPT !.receipt = receipt]
  <2>1. exceptions[d] \in ExceptionRecord
    BY <1>3, AtResult DEF d
  <2>2. /\ new \in ExceptionRecord /\ new.receipt = receipt /\ new # None
        /\ new.status = exceptions[d].status
    BY <2>1, NoneIsFresh DEF ExceptionRecord, Receipts
  <2>3. exceptions' = [exceptions EXCEPT ![d] = new]
    BY <1>3 DEF PutReceipt
  <2> HIDE DEF new
  <2>4. Grows /\ StoresOK'
    BY <1>1, <1>3, <2>2, <2>3 DEF Grows, StoresOK, IInv, TypeOK
  <2>5. TruthfulReceipt'
    BY <1>1, <1>3, <2>2, <2>3 DEF TruthfulReceipt, Mailed, IInv, TypeOK, d
  <2> QED
    BY <2>4, <2>5
<1> QED
  BY <1>2, <1>3 DEF SaveReceipt, UpdateRecord, d

LEMMA SaveVerdictKeeps ==
  ASSUME IInv, NEW w \in Workers, run[w].pc = "judge", AtEntry(w),
         NEW verdict \in {"pass", "rejected"}, SaveVerdict(w, verdict),
         approved \subseteq approved', UNCHANGED outbox
  PROVE  Grows /\ StoresOK' /\ TruthfulReceipt'
<1> DEFINE d == DocOf(w)
<1>1. d \in Docs
  BY AtResult
<1> HIDE DEF d
<1>2. CASE ResultOf(w).kind = "order" /\ orders' = PutVerdict(orders, d, verdict)
           /\ UNCHANGED exceptions
  <2> DEFINE new == [orders[d] EXCEPT !.verdict = verdict]
  <2>1. orders[d] \in OrderRecord
    BY <1>2, AtResult DEF d
  <2>2. new \in OrderRecord /\ new.receipt = orders[d].receipt /\ new # None
    BY <2>1, NoneIsFresh DEF OrderRecord, Verdicts
  <2>3. orders' = [orders EXCEPT ![d] = new] /\ orders[d] # None
    BY <1>2, <2>1, NoneIsFresh DEF PutVerdict
  <2> HIDE DEF new
  <2>4. Grows /\ StoresOK'
    BY <1>1, <1>2, <2>2, <2>3 DEF Grows, StoresOK, IInv, TypeOK
  <2>5. TruthfulReceipt'
    BY <1>1, <1>2, <2>2, <2>3 DEF TruthfulReceipt, Mailed, IInv, TypeOK
  <2> QED
    BY <2>4, <2>5
<1>3. CASE ResultOf(w).kind = "exception" /\ exceptions' = PutVerdict(exceptions, d, verdict)
           /\ UNCHANGED orders
  <2> DEFINE new == [exceptions[d] EXCEPT !.verdict = verdict]
  <2>1. exceptions[d] \in ExceptionRecord
    BY <1>3, AtResult DEF d
  <2>2. /\ new \in ExceptionRecord /\ new.receipt = exceptions[d].receipt /\ new # None
        /\ new.status = exceptions[d].status
    BY <2>1, NoneIsFresh DEF ExceptionRecord, Verdicts
  <2>3. exceptions' = [exceptions EXCEPT ![d] = new] /\ exceptions[d] # None
    BY <1>3, <2>1, NoneIsFresh DEF PutVerdict
  <2> HIDE DEF new
  <2>4. Grows /\ StoresOK'
    BY <1>1, <1>3, <2>2, <2>3 DEF Grows, StoresOK, IInv, TypeOK
  <2>5. TruthfulReceipt'
    BY <1>1, <1>3, <2>2, <2>3 DEF TruthfulReceipt, Mailed, IInv, TypeOK
  <2> QED
    BY <2>4, <2>5
<1> QED
  BY <1>2, <1>3 DEF SaveVerdict, UpdateRecord, d

LEMMA JudgeStep ==
  ASSUME IInv, NEW w \in Workers, Judge(w) PROVE IInv'
<1> DEFINE s == run[w]
           idx == EntryOf(w).idx
<1>1. /\ s \in Run /\ RunInv(s, w, orders, exceptions, approved, outbox)
      /\ s.pc = "judge" /\ AtEntry(w) /\ ~NothingToDo(w)
  BY Before DEF Judge
<1>2. PICK verdict \in {"pass", "rejected"} :
        /\ SaveVerdict(w, verdict)
        /\ approved' = IF verdict = "pass"
                       THEN approved \cup {[doc |-> DocOf(w), body |-> JudgedBody(w),
                                            by |-> w]}
                       ELSE approved
        /\ run' = [run EXCEPT ![w].verdicts[EntryOf(w).idx] = verdict,
                              ![w].pos = @ + 1]
  BY DEF Judge
<1> DEFINE r == [s EXCEPT !.verdicts = [s.verdicts EXCEPT ![idx] = verdict],
                          !.pos = s.pos + 1]
<1>3. /\ s.pos \in DOMAIN s.results /\ s.pos \in 1..Len(s.entries) /\ idx \in Indices
      /\ idx = s.entries[s.pos].idx /\ DocOf(w) = DocAt(s, s.pos) /\ DocOf(w) \in Docs
      /\ ResultOf(w) = s.results[s.pos] /\ ResultOf(w) \in Result
  BY <1>1, AtResult
<1>4. /\ ResultOf(w).kind # "duplicate" /\ JudgedBody(w) \in Workers
      /\ ResultOf(w).body # None => JudgedBody(w) = ResultOf(w).body
  BY <1>1, <1>3 DEF NothingToDo, JudgedBody, Result, Drafts
<1>5. run' = [run EXCEPT ![w] = r]
  BY <1>2 DEF IInv, TypeOK
<1>6. r \in Run
  <2>1. [s.verdicts EXCEPT ![idx] = verdict] \in [Indices -> Verdicts]
    BY <1>1, <1>3, RunFields DEF Verdicts
  <2> QED
    BY <1>1, <1>3, <2>1, s.pos + 1 \in Nat \ {0} DEF Run
<1>7. /\ approved \subseteq approved'
      /\ approved' \subseteq [doc: Docs, body: Workers, by: Workers]
  BY <1>2, <1>3, <1>4 DEF IInv, TypeOK
<1>8. Grows /\ StoresOK' /\ TruthfulReceipt'
  BY <1>1, <1>2, <1>7, SaveVerdictKeeps DEF Judge
<1>9. OthersOK' /\ VerifiedMail'
  BY <1>7 DEF Judge, IInv, TypeOK, OthersOK, VerifiedMail
<1>10. /\ r.pc = "judge" /\ r.pos = s.pos + 1 /\ r.entries = s.entries
       /\ r.decision = s.decision /\ r.results = s.results /\ r.msg = s.msg
       /\ r.target = s.target
       /\ r.verdicts[idx] = verdict
       /\ \A i \in Indices : i # idx => r.verdicts[i] = s.verdicts[i]
  BY <1>1, <1>3, RunFields DEF Run
<1> HIDE DEF r
<1>11. Aligned(r) /\ NoTwin(r) /\ Posted(r, outbox')
  BY <1>1, <1>10 DEF RunInv, Aligned, NoTwin, Posted, Early, Writing, Late
<1>12. Backed(r, orders', exceptions')
  <2>1. \A i \in DOMAIN s.results : DocAt(r, i) = DocAt(s, i) /\ DocAt(s, i) \in Docs
    BY <1>1, <1>10, ResultHasEntry DEF RunInv, DocAt
  <2>2. s.target # None => s.target \in Docs
    BY <1>1, RunFields
  <2> QED
    BY <1>1, <1>8, <1>10, <2>1, <2>2 DEF RunInv, Backed, Grows
<1>13. Cleared(r, w, approved')
  <2> SUFFICES ASSUME NEW i \in DOMAIN s.results,
                      s.results[i].kind # "duplicate", s.results[i].body # None,
                      r.verdicts[s.entries[i].idx] = "pass"
               PROVE  [doc |-> DocAt(s, i), body |-> s.results[i].body, by |-> w]
                        \in approved'
    BY <1>10 DEF Cleared, DocAt
  <2>1. s.entries[i].idx \in Indices /\ i \in Nat
    BY <1>1, ResultHasEntry, RunFields DEF RunInv
  <2>2. CASE i = s.pos
    BY <1>2, <1>3, <1>4, <1>10, <2>2
  <2>3. CASE i # s.pos
    <3>1. s.entries[i].idx # idx
      BY <1>1, <1>3, <1>4, <2>1, <2>3, RunFields DEF RunInv, NoTwin
    <3> QED
      BY <1>1, <1>7, <1>10, <2>1, <3>1 DEF RunInv, Cleared
  <2> QED
    BY <2>2, <2>3
<1> QED
  BY <1>5, <1>6, <1>8, <1>9, <1>11, <1>12, <1>13, StepPreserves DEF RunInv

(* The loop of Send goes on to the next entry, the stores having changed.   *)
LEMMA SendGoesOn ==
  ASSUME IInv, NEW w \in Workers, run[w].pc \in {"send", "receipt"}, NEW r,
         run' = [run EXCEPT ![w] = r],
         r = [run[w] EXCEPT !.pc = "send", !.pos = run[w].pos + 1],
         Grows, StoresOK', TruthfulReceipt',
         UNCHANGED <<labelled, clock, outbox, sending, today, faults, approved>>
  PROVE  IInv'
<1> DEFINE s == run[w]
<1>1. s \in Run /\ RunInv(s, w, orders, exceptions, approved, outbox) /\ s.pos \in Nat \ {0}
  BY Before, RunFields
<1>2. r \in Run
  <2>1. "send" \in Stages /\ s.pos + 1 \in Nat \ {0}
    BY <1>1 DEF Stages, LoopStages
  <2> QED
    BY <1>1, <2>1 DEF Run
<1>3. /\ r.pc = "send" /\ r.pos = s.pos + 1 /\ r.entries = s.entries
      /\ r.decision = s.decision /\ r.results = s.results /\ r.verdicts = s.verdicts
      /\ r.msg = s.msg /\ r.target = s.target
  BY <1>1 DEF Run
<1>4. Aligned(r) /\ NoTwin(r) /\ Posted(r, outbox') /\ Cleared(r, w, approved')
  BY <1>1, <1>3
  DEF RunInv, Aligned, NoTwin, Posted, Cleared, DocAt, Early, Writing, Late
<1>5. Backed(r, orders', exceptions')
  <2>1. \A i \in DOMAIN s.results : DocAt(r, i) = DocAt(s, i) /\ DocAt(s, i) \in Docs
    BY <1>1, <1>3, ResultHasEntry DEF RunInv, DocAt
  <2>2. s.target # None => s.target \in Docs
    BY <1>1, RunFields
  <2> QED
    BY <1>1, <1>3, <2>1, <2>2 DEF RunInv, Backed, Grows
<1>6. OthersOK' /\ VerifiedMail'
  BY DEF IInv, TypeOK, OthersOK, VerifiedMail
<1> QED
  BY <1>2, <1>4, <1>5, <1>6, StepPreserves DEF RunInv

LEMMA RecordFailureStep ==
  ASSUME IInv, NEW w \in Workers, SendBlocked(w) \/ SendRefused(w) PROVE IInv'
<1> DEFINE r == [run[w] EXCEPT !.pc = "send", !.pos = run[w].pos + 1]
<1>1. /\ run[w].pc = "send" /\ AtEntry(w)
      /\ RecordFailure(w) /\ UNCHANGED <<labelled, clock, outbox, sending, today, faults, approved>>
  BY DEF SendBlocked, SendRefused, AtSend
<1>2. run' = [run EXCEPT ![w] = r]
  <2>1. run[w] \in Run
    BY Before
  <2>2. [run[w] EXCEPT !.pos = run[w].pos + 1] = r
    BY <1>1, <2>1 DEF Run
  <2> QED
    BY <1>1, <2>2 DEF RecordFailure, IInv, TypeOK
<1>3. Grows /\ StoresOK' /\ TruthfulReceipt'
  <2>1. CASE SaveReceipt(w, "failed")
    BY <1>1, <2>1, SaveReceiptKeeps
  <2>2. CASE UNCHANGED <<orders, exceptions>>
    BY <1>1, <2>2 DEF Grows, StoresOK, TruthfulReceipt, Mailed, IInv, TypeOK
  <2> QED
    BY <1>1, <2>1, <2>2 DEF RecordFailure
<1> QED
  BY <1>1, <1>2, <1>3, SendGoesOn

LEMMA WriteReceiptStep ==
  ASSUME IInv, NEW w \in Workers, WriteReceipt(w) PROVE IInv'
<1> DEFINE s == run[w]
           r == [s EXCEPT !.pc = "send", !.pos = s.pos + 1]
<1>1. /\ s \in Run /\ RunInv(s, w, orders, exceptions, approved, outbox) /\ s.pc = "receipt"
      /\ UNCHANGED <<labelled, clock, outbox, sending, today, faults, approved>>
  BY Before DEF WriteReceipt
<1>2. AtEntry(w)
  BY <1>1 DEF RunInv, Aligned, AtEntry
<1>3. Mailed(DocOf(w), ResultOf(w).kind)
  <2>1. DocOf(w) = DocAt(s, s.pos) /\ ResultOf(w) = s.results[s.pos]
    BY <1>1, <1>2, AtResult
  <2> QED
    BY <1>1, <2>1 DEF RunInv, Posted, Mailed
<1>4. run' = [run EXCEPT ![w] = r]
  BY DEF WriteReceipt, IInv, TypeOK
<1>5. Grows /\ StoresOK' /\ TruthfulReceipt'
  <2>1. CASE SaveReceipt(w, "sent")
    BY <1>1, <1>2, <1>3, <2>1, SaveReceiptKeeps
  <2>2. CASE SaveReceipt(w, "failed")
    BY <1>1, <1>2, <2>2, SaveReceiptKeeps
  <2>3. CASE UNCHANGED <<orders, exceptions>>
    BY <1>1, <2>3 DEF Grows, StoresOK, TruthfulReceipt, Mailed, IInv, TypeOK
  <2> QED
    BY <2>1, <2>2, <2>3 DEF WriteReceipt
<1> QED
  BY <1>1, <1>4, <1>5, SendGoesOn

LEMMA SendMailStep ==
  ASSUME IInv, NEW w \in Workers, SendMail(w) PROVE IInv'
<1> DEFINE s == run[w]
           mail == [doc |-> DocOf(w), kind |-> ResultOf(w).kind,
                    body |-> ResultOf(w).body, by |-> w]
<1>1. /\ s \in Run /\ RunInv(s, w, orders, exceptions, approved, outbox) /\ s.pc = "send"
      /\ AtEntry(w) /\ ~NothingToDo(w) /\ JudgePassed(w)
      /\ outbox' = Append(outbox, mail)
      /\ UNCHANGED <<labelled, stores, sending, today, faults, approved>>
  BY Before DEF SendMail, AtSend
<1>2. PICK accepted \in BOOLEAN :
        run' = [run EXCEPT ![w].pc = "receipt", ![w].accepted = accepted]
  BY DEF SendMail
<1> DEFINE r == [s EXCEPT !.pc = "receipt", !.accepted = accepted]
<1>3. /\ s.pos \in DOMAIN s.results /\ s.pos \in 1..Len(s.entries)
      /\ EntryOf(w).idx = s.entries[s.pos].idx /\ DocOf(w) = DocAt(s, s.pos)
      /\ DocOf(w) \in Docs /\ ResultOf(w) = s.results[s.pos] /\ ResultOf(w) \in Result
  BY <1>1, AtResult
<1>4. ResultOf(w).kind \in {"order", "exception"} /\ ResultOf(w).body \in Workers
  BY <1>1, <1>3 DEF NothingToDo, Result, Kinds, Drafts
<1>5. mail \in Mail
  BY <1>3, <1>4 DEF Mail
<1>6. [doc |-> mail.doc, body |-> mail.body, by |-> mail.by] \in approved
  <2>1. s.verdicts[s.entries[s.pos].idx] = "pass"
    BY <1>1, <1>3 DEF JudgePassed
  <2>2. s.results[s.pos].kind # "duplicate" /\ s.results[s.pos].body # None
    BY <1>1, <1>3 DEF NothingToDo
  <2> QED
    BY <1>1, <1>3, <2>1, <2>2 DEF RunInv, Cleared
<1>7. /\ outbox \in Seq(Mail) /\ outbox' \in Seq(Mail)
      /\ DOMAIN outbox' = 1..(Len(outbox) + 1) /\ outbox'[Len(outbox) + 1] = mail
      /\ \A k \in DOMAIN outbox : k \in DOMAIN outbox' /\ outbox'[k] = outbox[k]
      /\ \A k \in DOMAIN outbox' : k \in DOMAIN outbox \/ k = Len(outbox) + 1
  BY <1>1, <1>5 DEF IInv, TypeOK
<1> HIDE DEF mail
<1>8. Grows /\ StoresOK' /\ OthersOK'
  BY <1>1, <1>7 DEF Grows, StoresOK, OthersOK, IInv, TypeOK, stores
<1>9. VerifiedMail'
  BY <1>1, <1>6, <1>7 DEF VerifiedMail, IInv
<1>10. TruthfulReceipt'
  BY <1>1, <1>7 DEF TruthfulReceipt, Mailed, IInv, stores
<1>11. run' = [run EXCEPT ![w] = r]
  BY <1>2 DEF IInv, TypeOK
<1>12. r \in Run
  BY <1>1, <1>2 DEF Run, Stages
<1>13. /\ r.pc = "receipt" /\ r.pos = s.pos /\ r.entries = s.entries
       /\ r.decision = s.decision /\ r.results = s.results /\ r.verdicts = s.verdicts
       /\ r.msg = s.msg /\ r.target = s.target
  BY <1>1 DEF Run
<1> HIDE DEF r
<1>14. Posted(r, outbox')
  <2>1. mail.doc = DocAt(r, r.pos) /\ mail.kind = r.results[r.pos].kind
    BY <1>3, <1>13 DEF mail, DocAt
  <2>2. Len(outbox) + 1 \in DOMAIN outbox'
    BY <1>7
  <2> QED
    BY <1>7, <2>1, <2>2 DEF Posted
<1>15. Aligned(r)
  BY <1>1, <1>3, <1>13, RunFields DEF RunInv, Aligned, Early, Writing, Late
<1>16. RunInv(r, w, orders', exceptions', approved', outbox')
  BY <1>1, <1>13, <1>14, <1>15 DEF RunInv, NoTwin, Backed, Cleared, DocAt, stores
<1> QED
  BY <1>8, <1>9, <1>10, <1>11, <1>12, <1>16, StepPreserves

(* A labelled message, an abandoned run and a crash all leave an idle run.  *)
LEMMA EndOfRunStep ==
  ASSUME IInv, NEW w \in Workers, ApplyLabel(w) \/ RunFails(w) \/ Crash(w) PROVE IInv'
<1>1. PICK scanned \in SUBSET Emails :
        run' = [run EXCEPT ![w] = NewRun("idle", None, scanned)]
  BY Before, RunFields DEF ApplyLabel, RunFails, Crash
<1>2. /\ labelled' \subseteq Emails /\ faults' \in 0..MaxFaults
      /\ UNCHANGED <<stores, outbox, sending, today, approved>>
  <2>1. CASE ApplyLabel(w)
    BY <2>1, Before DEF ApplyLabel, IInv, TypeOK, RunInv, Aligned
  <2>2. CASE RunFails(w) \/ Crash(w)
    BY <2>2, FaultBound DEF RunFails, Crash, IInv, TypeOK
  <2> QED
    BY <2>1, <2>2
<1>3. /\ NewRun("idle", None, scanned) \in Run
      /\ RunInv(NewRun("idle", None, scanned), w, orders', exceptions', approved', outbox')
  BY NewRunOK
<1>4. Grows /\ StoresOK' /\ OthersOK' /\ VerifiedMail' /\ TruthfulReceipt'
  BY <1>2 DEF Grows, StoresOK, OthersOK, VerifiedMail, TruthfulReceipt, Mailed, IInv,
     TypeOK, stores
<1> QED
  BY <1>1, <1>3, <1>4, StepPreserves
-----------------------------------------------------------------------------
LEMMA InitIInv == Init => IInv
<1> SUFFICES ASSUME Init PROVE IInv
  OBVIOUS
<1>1. \A w \in Workers : run[w] \in Run /\ RunInv(run[w], w, orders, exceptions, approved, outbox)
  BY NewRunOK DEF Init
<1>2. TypeOK
  BY <1>1, FaultBound, DayAssumption DEF Init, TypeOK
<1> QED
  BY <1>1, <1>2 DEF IInv, WorkerInv, RunInv, VerifiedMail, TruthfulReceipt, Init

LEMMA StepIInv ==
  ASSUME IInv, NEW w \in Workers, Step(w) \/ RunFails(w) \/ Crash(w) PROVE IInv'
BY ScanStep, PickStep, FindPendingStep, ReplyGuardStep, ReplyAdvanceStep, ParseStep,
   ValidateStep, ClarifyStep, PreflightStep, CreateOrderStep, CreateExceptionStep,
   RereadStep, ConfirmStep, FinalizeStep, JudgeStep, RecordFailureStep, SkipEntryStep,
   SendMailStep, WriteReceiptStep, StageDoneStep, EndOfRunStep
DEF Step

(* The date is nobody's concern here.                                       *)
LEMMA NextDayStep ==
  ASSUME IInv, NextDay PROVE IInv'
<1>1. today' \in 0..MaxDay /\ UNCHANGED <<labelled, stores, outbox, run, sending, faults, approved>>
  BY DayAssumption DEF NextDay, IInv, TypeOK
<1> QED
  BY <1>1 DEF IInv, TypeOK, VerifiedMail, TruthfulReceipt, Mailed, WorkerInv, stores

LEMMA NextIInv == IInv /\ [Next]_vars => IInv'
<1>1. ASSUME IInv, Next PROVE IInv'
  BY <1>1, StepIInv, NextDayStep DEF Next
<1>2. ASSUME IInv, UNCHANGED vars PROVE IInv'
  BY <1>2 DEF vars, IInv, TypeOK, WorkerInv, VerifiedMail, TruthfulReceipt, Mailed
<1> QED
  BY <1>1, <1>2

LEMMA AlwaysIInv == Spec => []IInv
BY InitIInv, NextIInv, PTL DEF Spec

(* Every variable of the pipeline keeps its type, and no step reads past    *)
(* the end of a list of its session or updates a record that is not there.  *)
THEOREM TypeCorrect == Spec => []TypeOK
BY AlwaysIInv, PTL DEF IInv

(* No email leaves the system unverified, with any number of workers.       *)
THEOREM MailIsVerified == Spec => []VerifiedMail
BY AlwaysIInv, PTL DEF IInv

(* A record that carries sent_at has had its mail accepted.                 *)
THEOREM ReceiptsAreTruthful == Spec => []TruthfulReceipt
BY AlwaysIInv, PTL DEF IInv
-----------------------------------------------------------------------------
(* What a step may never do.                                               *)

(* Every record has its origin, and an exception its status, from before.   *)
KeepsRecords ==
  \A d \in Docs :
    /\ orders[d] # None => SameOrigin(orders[d], orders'[d])
    /\ exceptions[d] # None =>
         /\ SameOrigin(exceptions[d], exceptions'[d])
         /\ \/ exceptions'[d].status = exceptions[d].status
            \/ /\ exceptions[d].status = "pending_clarify"
               /\ exceptions'[d].status = "awaiting_review"

(* An update of one record that leaves by, po and status alone.             *)
LEMMA UpdateKeepsRecords ==
  ASSUME TypeOK, NEW d \in Docs, NEW new, new # None,
         \/ /\ orders' = [orders EXCEPT ![d] = new] /\ UNCHANGED exceptions
            /\ orders[d] # None => SameOrigin(orders[d], new)
         \/ /\ exceptions' = [exceptions EXCEPT ![d] = new] /\ UNCHANGED orders
            /\ exceptions[d] # None =>
                 /\ SameOrigin(exceptions[d], new)
                 /\ \/ new.status = exceptions[d].status
                    \/ /\ exceptions[d].status = "pending_clarify"
                       /\ new.status = "awaiting_review"
  PROVE  KeepsRecords
<1>1. \A c \in Docs : orders[c] # None => SameOrigin(orders[c], orders[c])
  BY DEF SameOrigin
<1>2. \A c \in Docs : exceptions[c] # None => SameOrigin(exceptions[c], exceptions[c])
  BY DEF SameOrigin
<1> QED
  BY <1>1, <1>2 DEF KeepsRecords, TypeOK

LEMMA SameStoresKeepRecords == UNCHANGED stores => KeepsRecords
BY DEF KeepsRecords, SameOrigin, stores

LEMMA CreateKeepsRecords ==
  ASSUME IInv, NEW w \in Workers, CreateOrder(w) \/ CreateException(w)
  PROVE  KeepsRecords
<1> DEFINE d == DocOf(w)
<1>1. /\ run[w] \in Run /\ RunInv(run[w], w, orders, exceptions, approved, outbox)
      /\ run[w].pc = "create"
  BY Before DEF CreateOrder, CreateException
<1>2. d \in Docs
  BY <1>1, RunFields, DocAtType DEF DocOf, EntryOf, DocAt, RunInv, Aligned
<1>3. \/ /\ orders' = orders \/ (orders[d] = None /\ \A c \in Docs : c # d => orders'[c] = orders[c])
         /\ UNCHANGED exceptions
      \/ /\ \/ exceptions' = exceptions
            \/ exceptions[d] = None /\ \A c \in Docs : c # d => exceptions'[c] = exceptions[c]
         /\ UNCHANGED orders
  BY <1>2 DEF CreateOrder, CreateException, Create, IInv, TypeOK
<1> QED
  BY <1>3 DEF KeepsRecords, SameOrigin

LEMMA ReplyKeepsRecords ==
  ASSUME IInv, NEW w \in Workers, ReplyAdvance(w) PROVE KeepsRecords
<1> DEFINE d == run[w].target
           new == [exceptions[d] EXCEPT !.status = "awaiting_review", !.reply = run[w].msg]
<1>1. /\ d \in Docs /\ exceptions[d] \in ExceptionRecord
      /\ exceptions[d].status \in {"pending_clarify", "awaiting_review"}
  BY Before, RunFields DEF ReplyAdvance, RunInv, Backed, IInv, TypeOK
<1>2. exceptions' = [exceptions EXCEPT ![d] = new] /\ UNCHANGED orders
  BY <1>1 DEF ReplyAdvance, PutReply, IInv, TypeOK
<1>3. new \in ExceptionRecord
  <2>1. run[w].msg \in Emails
    BY Before DEF ReplyAdvance, RunInv, Aligned
  <2> QED
    BY <1>1, <2>1 DEF ExceptionRecord, ExceptionStatus
<1>4. new # None /\ SameOrigin(exceptions[d], new) /\ new.status = "awaiting_review"
  BY <1>1, <1>3, NoneIsFresh DEF SameOrigin, ExceptionRecord
<1> HIDE DEF new, d
<1> QED
  BY <1>1, <1>2, <1>4, UpdateKeepsRecords DEF IInv

LEMMA ConfirmKeepsRecords ==
  ASSUME IInv, NEW w \in Workers, Confirm(w) PROVE KeepsRecords
<1> DEFINE d == DocOf(w)
           s == run[w]
           new == [orders[d] EXCEPT !.body = w]
<1>1. /\ s \in Run /\ RunInv(s, w, orders, exceptions, approved, outbox)
      /\ s.pc = "confirm" /\ s.pos <= Len(s.entries) /\ s.results[s.pos].kind = "order"
  BY Before DEF Confirm, AtEntry, NothingToDo, ResultOf
<1>2. s.pos \in DOMAIN s.results /\ s.pos \in 1..Len(s.entries)
  BY <1>1, RunFields DEF RunInv, Aligned, Late
<1>3. d \in Docs /\ orders[d] \in OrderRecord
  BY <1>1, <1>2, DocAtType DEF DocOf, EntryOf, DocAt, RunInv, Backed, IInv, TypeOK
<1>4. orders' = [orders EXCEPT ![d] = new] /\ UNCHANGED exceptions
  BY DEF Confirm, PutBody
<1>5. new # None /\ SameOrigin(orders[d], new)
  BY <1>3, NoneIsFresh DEF SameOrigin, OrderRecord, Drafts
<1> HIDE DEF new, d
<1> QED
  BY <1>3, <1>4, <1>5, UpdateKeepsRecords DEF IInv

LEMMA SaveKeepsRecords ==
  ASSUME IInv, NEW w \in Workers, run[w].pc \in {"judge", "send", "receipt"}, AtEntry(w),
         \/ \E verdict \in {"pass", "rejected"} : SaveVerdict(w, verdict)
         \/ \E receipt \in {"sent", "failed"} : SaveReceipt(w, receipt)
  PROVE  KeepsRecords
<1> DEFINE d == DocOf(w)
<1>1. /\ d \in Docs
      /\ ResultOf(w).kind = "order" => orders[d] \in OrderRecord
      /\ ResultOf(w).kind = "exception" => exceptions[d] \in ExceptionRecord
  BY AtResult
<1>2. CASE ResultOf(w).kind = "order"
  <2>1. PICK new \in OrderRecord :
          /\ orders' = [orders EXCEPT ![d] = new] /\ UNCHANGED exceptions
          /\ SameOrigin(orders[d], new)
    <3>1. ASSUME NEW v \in {"pass", "rejected"}
          PROVE  /\ [orders[d] EXCEPT !.verdict = v] \in OrderRecord
                 /\ SameOrigin(orders[d], [orders[d] EXCEPT !.verdict = v])
      BY <1>1, <1>2, NoneIsFresh DEF OrderRecord, Verdicts, SameOrigin
    <3>2. ASSUME NEW v \in {"sent", "failed"}
          PROVE  /\ [orders[d] EXCEPT !.receipt = v] \in OrderRecord
                 /\ SameOrigin(orders[d], [orders[d] EXCEPT !.receipt = v])
      BY <1>1, <1>2, NoneIsFresh DEF OrderRecord, Receipts, SameOrigin
    <3> QED
      BY <1>2, <3>1, <3>2
      DEF SaveVerdict, SaveReceipt, UpdateRecord, PutVerdict, PutReceipt
  <2>2. new # None
    BY NoneIsFresh
  <2> QED
    BY <1>1, <2>1, <2>2, UpdateKeepsRecords DEF IInv
<1>3. CASE ResultOf(w).kind = "exception"
  <2>1. PICK new \in ExceptionRecord :
          /\ exceptions' = [exceptions EXCEPT ![d] = new] /\ UNCHANGED orders
          /\ SameOrigin(exceptions[d], new) /\ new.status = exceptions[d].status
    <3>1. ASSUME NEW v \in {"pass", "rejected"}
          PROVE  LET new == [exceptions[d] EXCEPT !.verdict = v]
                 IN  /\ new \in ExceptionRecord /\ SameOrigin(exceptions[d], new)
                     /\ new.status = exceptions[d].status
      BY <1>1, <1>3, NoneIsFresh DEF ExceptionRecord, Verdicts, SameOrigin
    <3>2. ASSUME NEW v \in {"sent", "failed"}
          PROVE  LET new == [exceptions[d] EXCEPT !.receipt = v]
                 IN  /\ new \in ExceptionRecord /\ SameOrigin(exceptions[d], new)
                     /\ new.status = exceptions[d].status
      BY <1>1, <1>3, NoneIsFresh DEF ExceptionRecord, Receipts, SameOrigin
    <3> QED
      BY <1>3, <3>1, <3>2
      DEF SaveVerdict, SaveReceipt, UpdateRecord, PutVerdict, PutReceipt
  <2>2. new # None
    BY NoneIsFresh
  <2> QED
    BY <1>1, <2>1, <2>2, UpdateKeepsRecords DEF IInv
<1> QED
  BY <1>2, <1>3 DEF SaveVerdict, SaveReceipt, UpdateRecord

LEMMA NextKeepsRecords == IInv /\ [Next]_vars => KeepsRecords
<1>1. ASSUME IInv, NEW w \in Workers, Step(w) \/ RunFails(w) \/ Crash(w) PROVE KeepsRecords
  <2>1. CASE CreateOrder(w) \/ CreateException(w)
    BY <1>1, <2>1, CreateKeepsRecords
  <2>2. CASE ReplyAdvance(w)
    BY <1>1, <2>2, ReplyKeepsRecords
  <2>3. CASE Confirm(w)
    BY <1>1, <2>3, ConfirmKeepsRecords
  <2>4. CASE Judge(w)
    BY <1>1, <2>4, SaveKeepsRecords DEF Judge
  <2>5. CASE SendBlocked(w) \/ SendRefused(w)
    BY <1>1, <2>5, SaveKeepsRecords, SameStoresKeepRecords
    DEF SendBlocked, SendRefused, AtSend, RecordFailure, stores
  <2>6. CASE WriteReceipt(w)
    <3>1. run[w].pc = "receipt" /\ AtEntry(w)
      BY <1>1, <2>6, Before DEF WriteReceipt, AtEntry, RunInv, Aligned
    <3> QED
      BY <1>1, <2>6, <3>1, SaveKeepsRecords, SameStoresKeepRecords DEF WriteReceipt, stores
  <2>7. CASE UNCHANGED stores
    BY <2>7, SameStoresKeepRecords
  <2> QED
    BY <1>1, <2>1, <2>2, <2>3, <2>4, <2>5, <2>6, <2>7
    DEF Step, Scan, Pick, FindPending, ReplyGuard, Parse, Validate, Clarify,
        PersistPreflight, Reread, Finalize, SendDryRun, SendMail, SkipEntry, StageDone,
        ApplyLabel, RunFails, Crash
<1>2. ASSUME UNCHANGED vars \/ NextDay PROVE KeepsRecords
  BY <1>2, SameStoresKeepRecords DEF vars, stores, NextDay
<1> QED
  BY <1>1, <1>2 DEF Next

(* Redelivery and races never replace a record by another: what its first   *)
(* writer said stays, and an exception only leaves pending_clarify.         *)
THEOREM FirstWriterAlwaysWins == Spec => FirstWriterWins
<1>1. IInv /\ [Next]_vars => [KeepsRecords]_stores
  BY NextKeepsRecords
<1> QED
  BY <1>1, AlwaysIInv, PTL DEF Spec, FirstWriterWins, KeepsRecords

(* Only a run that has everything on file labels its message.               *)
LabelsRecorded ==
  \A e \in labelled' \ labelled :
    \E w \in Workers :
      /\ run[w].msg = e
      /\ \A i \in DOMAIN run[w].entries : Recorded(ComposeDocId(e, run[w].entries[i].idx))
      /\ run[w].target # None => exceptions[run[w].target].status = "awaiting_review"

LEMMA NextLabelsRecorded == IInv /\ [Next]_vars => LabelsRecorded
<1>1. ASSUME IInv, NEW w \in Workers, ApplyLabel(w) PROVE LabelsRecorded
  <2> DEFINE s == run[w]
  <2>1. /\ s \in Run /\ RunInv(s, w, orders, exceptions, approved, outbox)
        /\ s.pc = "label" /\ labelled' = labelled \cup {s.msg}
    BY <1>1, Before DEF ApplyLabel
  <2>2. DOMAIN s.entries = DOMAIN s.results
    BY <2>1, RunFields DEF RunInv, Aligned, Late
  <2>3. \A i \in DOMAIN s.entries : Recorded(ComposeDocId(s.msg, s.entries[i].idx))
    BY <2>1, <2>2 DEF RunInv, Backed, DocAt, Recorded
  <2>4. s.target # None => exceptions[s.target].status = "awaiting_review"
    BY <2>1 DEF RunInv, Backed
  <2> QED
    BY <2>1, <2>3, <2>4 DEF LabelsRecorded
<1>2. ASSUME UNCHANGED labelled PROVE LabelsRecorded
  BY <1>2 DEF LabelsRecorded
<1> QED
  BY <1>1, <1>2
  DEF Next, Step, vars, Scan, Pick, FindPending, ReplyGuard, ReplyAdvance, Parse, Validate,
      Clarify, PersistPreflight, CreateOrder, CreateException, Reread, Confirm, Finalize,
      Judge, SendBlocked, SendRefused, SendDryRun, SendMail, WriteReceipt, SkipEntry,
      StageDone, RunFails, Crash, NextDay

(* A label is the promise that nothing of the message is lost, whatever     *)
(* other workers did to it in the meantime.                                 *)
THEOREM LabelledIsAlwaysRecorded == Spec => LabelledIsRecorded
<1>1. IInv /\ [Next]_vars => [LabelsRecorded]_labelled
  BY NextLabelsRecorded
<1> QED
  BY <1>1, AlwaysIInv, PTL DEF Spec, LabelledIsRecorded, LabelsRecorded
=============================================================================
