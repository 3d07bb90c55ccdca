--------------------------- MODULE IntakePipeline ---------------------------
(***************************************************************************)
(* The order intake pipeline: workers that scan the mailbox for messages   *)
(* without the processed label, take each through the stages of            *)
(* my_agent/agent.py                                                       *)
(*                                                                         *)
(*   Ingest, ReplyShortCircuit, Classify, Parse, Validate, Clarify,        *)
(*   Persist, Confirm, Finalize, Judge, Send                               *)
(*                                                                         *)
(* and label it.  A step of the model ends at an await that reads or       *)
(* writes state other runs can see: a Firestore call, a Gmail call.  What  *)
(* the language models and LlamaCloud return is chosen freely, and differs *)
(* from one run of a message to the next.                                  *)
(***************************************************************************)
EXTENDS RecordStores, Integers, Sequences, FiniteSetsExt

CONSTANTS
  Replies,      \* the emails that carry an In-Reply-To header
  ThreadOf,     \* thread_id of each email: the first reference, or itself
  Extractions,  \* what Classify and Parse may return for each email
  SendModes,    \* how SendStage may be deployed: "live", "dry_run" or "off"
  FileNames,    \* names of attachments; two attachments of a message may share one
  Window,       \* days find_duplicate looks back
  MaxDay,       \* bound on the days that pass
  MaxFaults     \* bound on crashes and on exceptions that abandon a run

(* A sub-document as parsed_docs lists it.                                  *)
Entry == [file: FileNames, idx: Indices, po: POs]

ASSUME EmailAssumptions ==
  /\ Replies \subseteq Emails
  /\ ThreadOf \in [Emails -> Emails]
  /\ \A e \in Emails : Extractions[e] \subseteq Seq(Entry)

ASSUME SendAssumption == SendModes \subseteq {"live", "dry_run", "off"}

ASSUME FaultBound == MaxFaults \in Nat

ASSUME DayAssumption == Window \in Nat /\ MaxDay \in Nat

VARIABLES
  labelled,    \* emails that carry the processed label
  orders,      \* Firestore collection `orders'
  exceptions,  \* Firestore collection `exceptions'
  clock,       \* server timestamps handed out to `exceptions' documents
  outbox,      \* mail Gmail has accepted, in order
  run,         \* what each worker is doing: the state of its run
  sending,     \* how SendStage is deployed
  today,       \* the date
  faults,      \* crashes and abandoned runs so far
  approved     \* history: the drafts a judge passed, and in whose run

vars == <<labelled, orders, exceptions, clock, outbox, run, sending, today,
          faults, approved>>

stores == <<orders, exceptions, clock>>

Kinds == {"order", "exception", "duplicate"}

(* A ProcessResult as Confirm, Judge and Send see it: a copy of the record  *)
(* taken when Persist re-read it, not the record.                           *)
Result == [kind: Kinds, body: Drafts, receipt: Receipts]

Mail == [doc: Docs, kind: {"order", "exception"}, body: Workers, by: Workers]

LoopStages == {"validate", "persist", "confirm", "judge", "send"}

Stages == LoopStages \cup {"idle", "reply", "guard", "advance", "parse", "clarify",
                           "create", "reread", "finalize", "receipt", "label"}

Run ==
  [pc: Stages, scanned: SUBSET Emails, msg: Emails \cup {None},
   target: Docs \cup {None}, entries: Seq(Entry), pos: Nat \ {0},
   decision: Seq(Decisions), results: Seq(Result),
   verdicts: [Indices -> Verdicts], accepted: BOOLEAN]

(* A fresh session: nothing of an earlier run is left in its state.         *)
NewRun(pc, e, scanned) ==
  [pc |-> pc, scanned |-> scanned, msg |-> e, target |-> None, entries |-> <<>>,
   pos |-> 1, decision |-> <<>>, results |-> <<>>,
   verdicts |-> [i \in Indices |-> "missing"], accepted |-> FALSE]

TypeOK ==
  /\ labelled \subseteq Emails
  /\ orders \in [Docs -> OrderRecord \cup {None}]
  /\ exceptions \in [Docs -> ExceptionRecord \cup {None}]
  /\ clock \in Nat
  /\ outbox \in Seq(Mail)
  /\ run \in [Workers -> Run]
  /\ sending \in SendModes
  /\ today \in 0..MaxDay
  /\ faults \in 0..MaxFaults
  /\ approved \subseteq [doc: Docs, body: Workers, by: Workers]
-----------------------------------------------------------------------------
(* The entry of parsed_docs a loop of worker w is at, and its document.     *)
AtEntry(w) == run[w].pos <= Len(run[w].entries)

EntryOf(w) == run[w].entries[run[w].pos]

DocOf(w) == ComposeDocId(run[w].msg, EntryOf(w).idx)

ResultOf(w) == run[w].results[run[w].pos]

(* The session keeps validations and clarify bodies under the name of the   *)
(* attachment and the sub_doc_index, so that entries which agree in both    *)
(* share them.                                                              *)
SameKey(r) ==
  {i \in DOMAIN r.entries : /\ r.entries[i].file = r.entries[r.pos].file
                            /\ r.entries[i].idx = r.entries[r.pos].idx}

(* The decision Persist finds for the entry it is at: the dict built from   *)
(* validation_results holds the last one under a key.                       *)
Validated(r) == r.decision[Max(SameKey(r))]

(* ClarifyStage left a draft under the key of the entry.                    *)
Drafted(r) == \E i \in SameKey(r) : r.decision[i] = "clarify"

(* Mutants: the preflight asks only one store, or is gone.                  *)
RecordedAsOrder(d) == orders[d] # None

RecordedNever(d) == FALSE

Recorded(d) == orders[d] # None \/ exceptions[d] # None

NextStage(stage) ==
  CASE stage = "validate" -> "clarify"
    [] stage = "persist"  -> "confirm"
    [] stage = "confirm"  -> "finalize"
    [] stage = "judge"    -> "send"
    [] stage = "send"     -> "label"

(* Mutant: an order of the very day of the cutoff is missed.                *)
DuplicateOrderPastCutoff(e, po) ==
  \E d \in Docs : /\ orders[d] # None
                  /\ orders[d].po = po
                  /\ orders[d].day > today - Window
                  /\ d # ComposeDocId(e, 0)

(* find_duplicate: an order with the same content, filed in the window,     *)
(* under any document id but the one equal to the envelope's own message    *)
(* id, which is the id of sub-document 0 only.                              *)
DuplicateOrder(e, po) ==
  \E d \in Docs : /\ orders[d] # None
                  /\ orders[d].po = po
                  /\ orders[d].day >= today - Window
                  /\ d # ComposeDocId(e, 0)

NewOrder(w) ==
  [by |-> w, po |-> EntryOf(w).po, day |-> today, body |-> None,
   verdict |-> "missing", receipt |-> "none"]

ExceptionOf(w, decision, thread) ==
  [by |-> w, po |-> EntryOf(w).po,
   body |-> IF decision = "clarify" THEN w ELSE None,
   verdict |-> "missing", receipt |-> "none",
   thread |-> thread,
   status |-> IF decision = "clarify" THEN "pending_clarify" ELSE "escalated",
   reply |-> None, created |-> clock]

(* Mutant: the document id and the thread id change places.                 *)
NewExceptionSwapped(w, decision) == ExceptionOf(w, decision, DocOf(w))

NewException(w, decision) == ExceptionOf(w, decision, ThreadOf[run[w].msg])

(* The body JudgeStage reads: the record's copy, else the draft ClarifyStage *)
(* left in the session.                                                      *)
JudgedBody(w) ==
  LET r == ResultOf(w)
  IN  CASE r.body # None -> r.body
        [] r.body = None /\ r.kind = "exception"
             /\ Drafted(run[w]) -> w
        [] OTHER -> None

(* Mutant: the gate trusts the verdict on the record.                       *)
JudgePassedOnRecord(w) ==
  \/ orders[DocOf(w)] # None /\ orders[DocOf(w)].verdict = "pass"
  \/ exceptions[DocOf(w)] # None /\ exceptions[DocOf(w)].verdict = "pass"

(* SendStage's gate: no verdict of this run, or one that is not a pass,      *)
(* blocks the mail.                                                          *)
JudgePassed(w) == run[w].verdicts[EntryOf(w).idx] = "pass"

NothingToDo(w) ==
  LET r == ResultOf(w)
  IN  \/ run[w].pc = "confirm" /\ r.kind # "order"
      \/ run[w].pc = "judge" /\ (r.kind = "duplicate" \/ JudgedBody(w) = None)
      \/ /\ run[w].pc = "send"
         /\ r.kind = "duplicate" \/ r.body = None \/ r.receipt = "sent"

(* The record of the entry, in the store its result names.                  *)
UpdateRecord(w, asOrder, asException) ==
  \/ /\ ResultOf(w).kind = "order"
     /\ orders' = asOrder
     /\ UNCHANGED exceptions
  \/ /\ ResultOf(w).kind = "exception"
     /\ exceptions' = asException
     /\ UNCHANGED orders

SaveVerdict(w, verdict) ==
  UpdateRecord(w, PutVerdict(orders, DocOf(w), verdict),
                  PutVerdict(exceptions, DocOf(w), verdict))

SaveReceipt(w, receipt) ==
  UpdateRecord(w, PutReceipt(orders, DocOf(w), receipt),
                  PutReceipt(exceptions, DocOf(w), receipt))
-----------------------------------------------------------------------------
(* One tick, or one push: list_unprocessed.  The list is a snapshot: other   *)
(* workers go on labelling what is in it.                                    *)
Scan(w) ==
  /\ run[w].pc = "idle" /\ run[w].scanned = {}
  /\ Emails \ labelled # {}
  /\ run' = [run EXCEPT ![w].scanned = Emails \ labelled]
  /\ UNCHANGED <<labelled, stores, outbox, sending, today, faults, approved>>

(* Mutant: the label is applied before the pipeline runs.                   *)
PickLabels(w, e) ==
  /\ run[w].pc = "idle" /\ e \in run[w].scanned
  /\ labelled' = labelled \cup {e}
  /\ run' = [run EXCEPT ![w] = NewRun("parse", e, run[w].scanned \ {e})]
  /\ UNCHANGED <<stores, outbox, sending, today, faults, approved>>

(* The next message of the list enters the pipeline in a new session.        *)
(* Ingest reads only the message; ReplyShortCircuit goes on unless it is a   *)
(* reply.                                                                    *)
Pick(w, e) ==
  /\ run[w].pc = "idle" /\ e \in run[w].scanned
  /\ run' = [run EXCEPT ![w] = NewRun(IF e \in Replies THEN "reply" ELSE "parse",
                                      e, run[w].scanned \ {e})]
  /\ UNCHANGED <<labelled, stores, outbox, sending, today, faults, approved>>

(* ReplyShortCircuit: look for a pending clarification of the thread.        *)
FindPending(w) ==
  /\ run[w].pc = "reply"
  /\ LET found == FindPendingClarify(exceptions, ThreadOf[run[w].msg])
     IN  \/ /\ found = {}
            /\ run' = [run EXCEPT ![w].pc = "parse"]
         \/ \E d \in found :
              run' = [run EXCEPT ![w].pc = "guard", ![w].target = d]
  /\ UNCHANGED <<labelled, stores, outbox, sending, today, faults, approved>>

(* update_with_reply, first half: the status guard, on a read of its own.    *)
(* A record that is no longer pending raises, and the run ends unlabelled.   *)
ReplyGuard(w) ==
  /\ run[w].pc = "guard"
  /\ \/ /\ exceptions[run[w].target].status = "pending_clarify"
        /\ run' = [run EXCEPT ![w].pc = "advance"]
     \/ /\ exceptions[run[w].target].status # "pending_clarify"
        /\ run' = [run EXCEPT ![w] = NewRun("idle", None, run[w].scanned)]
  /\ UNCHANGED <<labelled, stores, outbox, sending, today, faults, approved>>

(* Mutant: reply_handled is not set, and the stages go on with the reply.    *)
ReplyAdvanceUnhandled(w) ==
  /\ run[w].pc = "advance"
  /\ exceptions' = PutReply(exceptions, run[w].target, run[w].msg)
  /\ run' = [run EXCEPT ![w].pc = "parse"]
  /\ UNCHANGED <<labelled, orders, clock, outbox, sending, today, faults, approved>>

(* update_with_reply, second half: the write.  With reply_handled set, every *)
(* later stage but Finalize returns at once.                                 *)
ReplyAdvance(w) ==
  /\ run[w].pc = "advance"
  /\ exceptions' = PutReply(exceptions, run[w].target, run[w].msg)
  /\ run' = [run EXCEPT ![w].pc = "finalize"]
  /\ UNCHANGED <<labelled, orders, clock, outbox, sending, today, faults, approved>>

(* Classify and Parse: the purchase orders found in the attachments.         *)
Parse(w) ==
  /\ run[w].pc = "parse"
  /\ \E es \in Extractions[run[w].msg] :
       run' = [run EXCEPT ![w].pc = "validate", ![w].entries = es]
  /\ UNCHANGED <<labelled, stores, outbox, sending, today, faults, approved>>

(* Validate, one sub-document: an order already on file escalates it;        *)
(* otherwise customer, lines and thresholds decide.                          *)
Validate(w) ==
  /\ run[w].pc = "validate" /\ AtEntry(w)
  /\ \E decision \in Decisions :
       /\ DuplicateOrder(run[w].msg, EntryOf(w).po) => decision = "escalate"
       /\ run' = [run EXCEPT ![w].decision = Append(@, decision),
                             ![w].pos = @ + 1]
  /\ UNCHANGED <<labelled, stores, outbox, sending, today, faults, approved>>

(* Mutant: a failing clarify draft ends the run as if it had completed.     *)
ClarifyErrorSwallowed(w) ==
  /\ run[w].pc = "clarify"
  /\ \E next \in {"persist", "label"} :
       run' = [run EXCEPT ![w].pc = next, ![w].pos = 1]
  /\ UNCHANGED <<labelled, stores, outbox, sending, today, faults, approved>>

(* Clarify drafts a body for every entry whose decision is "clarify", or the *)
(* run is abandoned.                                                         *)
Clarify(w) ==
  /\ run[w].pc = "clarify"
  /\ run' = [run EXCEPT ![w].pc = "persist", ![w].pos = 1]
  /\ UNCHANGED <<labelled, stores, outbox, sending, today, faults, approved>>

(* Persist, preflight: both collections are read before anything is written. *)
(* Records are never deleted, so reading both at once loses no outcome of    *)
(* the two concurrent reads.                                                 *)
PersistPreflight(w) ==
  /\ run[w].pc = "persist" /\ AtEntry(w)
  /\ \/ /\ Recorded(DocOf(w))
        /\ run' = [run EXCEPT ![w].results =
                     Append(@, [kind |-> "duplicate", body |-> None, receipt |-> "none"]),
                              ![w].pos = @ + 1]
     \/ /\ ~Recorded(DocOf(w))
        /\ run' = [run EXCEPT ![w].pc = "create"]
  /\ UNCHANGED <<labelled, stores, outbox, sending, today, faults, approved>>

(* Persist, AUTO_APPROVE: OrderStore.save up to its create.                  *)
CreateOrder(w) ==
  /\ run[w].pc = "create"
  /\ Validated(run[w]) = "auto_approve"
  /\ orders' = Create(orders, DocOf(w), NewOrder(w))
  /\ run' = [run EXCEPT ![w].pc = "reread"]
  /\ UNCHANGED <<labelled, exceptions, clock, outbox, sending, today, faults, approved>>

(* Persist, CLARIFY or ESCALATE: ExceptionStore.save up to its create.       *)
CreateException(w) ==
  /\ run[w].pc = "create"
  /\ Validated(run[w]) # "auto_approve"
  /\ exceptions' = Create(exceptions, DocOf(w), NewException(w, Validated(run[w])))
  /\ clock' = clock + 1
  /\ run' = [run EXCEPT ![w].pc = "reread"]
  /\ UNCHANGED <<labelled, orders, outbox, sending, today, faults, approved>>

(* save reads the document back and returns that, whoever created it.        *)
Reread(w) ==
  /\ run[w].pc = "reread"
  /\ LET auto == Validated(run[w]) = "auto_approve"
         record == IF auto THEN orders[DocOf(w)] ELSE exceptions[DocOf(w)]
     IN  run' = [run EXCEPT ![w].results =
                   Append(@, [kind |-> IF auto THEN "order" ELSE "exception",
                              body |-> record.body, receipt |-> record.receipt]),
                            ![w].pc = "persist", ![w].pos = @ + 1]
  /\ UNCHANGED <<labelled, stores, outbox, sending, today, faults, approved>>

(* Confirm, one order: draft a body and write it on the order.               *)
Confirm(w) ==
  /\ run[w].pc = "confirm" /\ AtEntry(w) /\ ~NothingToDo(w)
  /\ orders' = PutBody(orders, DocOf(w), w)
  /\ run' = [run EXCEPT ![w].results[run[w].pos].body = w, ![w].pos = @ + 1]
  /\ UNCHANGED <<labelled, exceptions, clock, outbox, sending, today, faults, approved>>

(* Finalize asks for the run summary; it runs for replies too.               *)
Finalize(w) ==
  /\ run[w].pc = "finalize"
  /\ run' = [run EXCEPT ![w].pc = "judge", ![w].pos = 1]
  /\ UNCHANGED <<labelled, stores, outbox, sending, today, faults, approved>>

(* Judge, one entry with a body.  A judge that fails, or answers out of      *)
(* shape, counts as a rejection.                                             *)
Judge(w) ==
  /\ run[w].pc = "judge" /\ AtEntry(w) /\ ~NothingToDo(w)
  /\ \E verdict \in {"pass", "rejected"} :
       /\ SaveVerdict(w, verdict)
       /\ approved' = IF verdict = "pass"
                      THEN approved \cup {[doc |-> DocOf(w), body |-> JudgedBody(w),
                                           by |-> w]}
                      ELSE approved
       /\ run' = [run EXCEPT ![w].verdicts[EntryOf(w).idx] = verdict,
                             ![w].pos = @ + 1]
  /\ UNCHANGED <<labelled, clock, outbox, sending, today, faults>>

AtSend(w) ==
  /\ run[w].pc = "send" /\ AtEntry(w)
  /\ sending # "off"
  /\ ~NothingToDo(w)

(* Mutant: the failure path stamps sent_at too.                             *)
RecordFailureStamped(w) ==
  /\ SaveReceipt(w, "sent")
  /\ run' = [run EXCEPT ![w].pos = @ + 1]

(* _record_failure: the write may fail too, and that is only logged.         *)
RecordFailure(w) ==
  /\ \/ SaveReceipt(w, "failed")
     \/ UNCHANGED <<orders, exceptions>>
  /\ run' = [run EXCEPT ![w].pos = @ + 1]

(* Send, blocked by the gate.                                                *)
SendBlocked(w) ==
  /\ AtSend(w) /\ ~JudgePassed(w)
  /\ RecordFailure(w)
  /\ UNCHANGED <<labelled, clock, outbox, sending, today, faults, approved>>

(* Send, past the gate: the customer has no address, or Gmail refuses the    *)
(* mail.                                                                     *)
SendRefused(w) ==
  /\ AtSend(w) /\ JudgePassed(w)
  /\ RecordFailure(w)
  /\ UNCHANGED <<labelled, clock, outbox, sending, today, faults, approved>>

SendDryRun(w) ==
  /\ AtSend(w) /\ JudgePassed(w) /\ sending = "dry_run"
  /\ run' = [run EXCEPT ![w].pos = @ + 1]
  /\ UNCHANGED <<labelled, stores, outbox, sending, today, faults, approved>>

(* Gmail accepts the mail.  The answer may still be lost on the way back, in *)
(* which case send_message raises.                                           *)
SendMail(w) ==
  /\ AtSend(w) /\ JudgePassed(w) /\ sending = "live"
  /\ outbox' = Append(outbox, [doc |-> DocOf(w), kind |-> ResultOf(w).kind,
                               body |-> ResultOf(w).body, by |-> w])
  /\ \E accepted \in BOOLEAN :
       run' = [run EXCEPT ![w].pc = "receipt", ![w].accepted = accepted]
  /\ UNCHANGED <<labelled, stores, sending, today, faults, approved>>

(* Mutant: the loop does not move on once the receipt is written.           *)
WriteReceiptAgain(w) ==
  /\ run[w].pc = "receipt"
  /\ \/ SaveReceipt(w, IF run[w].accepted THEN "sent" ELSE "failed")
     \/ UNCHANGED <<orders, exceptions>>
  /\ run' = [run EXCEPT ![w].pc = "send"]
  /\ UNCHANGED <<labelled, clock, outbox, sending, today, faults, approved>>

(* update_with_send_receipt after the send; a failing write is only logged.  *)
WriteReceipt(w) ==
  /\ run[w].pc = "receipt"
  /\ \/ SaveReceipt(w, IF run[w].accepted THEN "sent" ELSE "failed")
     \/ UNCHANGED <<orders, exceptions>>
  /\ run' = [run EXCEPT ![w].pc = "send", ![w].pos = @ + 1]
  /\ UNCHANGED <<labelled, clock, outbox, sending, today, faults, approved>>

(* An entry a stage passes over.                                             *)
SkipEntry(w) ==
  /\ run[w].pc \in {"confirm", "judge", "send"} /\ AtEntry(w)
  /\ NothingToDo(w) \/ (run[w].pc = "send" /\ sending = "off")
  /\ run' = [run EXCEPT ![w].pos = @ + 1]
  /\ UNCHANGED <<labelled, stores, outbox, sending, today, faults, approved>>

(* A stage has gone through every entry and yields its event.                *)
StageDone(w) ==
  /\ run[w].pc \in LoopStages /\ ~AtEntry(w)
  /\ run' = [run EXCEPT ![w].pc = NextStage(run[w].pc), ![w].pos = 1]
  /\ UNCHANGED <<labelled, stores, outbox, sending, today, faults, approved>>

(* The label comes last, when the whole pipeline has returned.               *)
ApplyLabel(w) ==
  /\ run[w].pc = "label"
  /\ labelled' = labelled \cup {run[w].msg}
  /\ run' = [run EXCEPT ![w] = NewRun("idle", None, run[w].scanned)]
  /\ UNCHANGED <<stores, outbox, sending, today, faults, approved>>

(* An exception leaves the pipeline, or labelling fails: it is logged, the   *)
(* message stays unlabelled and the worker goes on with its list.            *)
RunFails(w) ==
  /\ run[w].pc \notin {"idle", "send", "receipt"}
  /\ faults < MaxFaults
  /\ faults' = faults + 1
  /\ run' = [run EXCEPT ![w] = NewRun("idle", None, run[w].scanned)]
  /\ UNCHANGED <<labelled, stores, outbox, sending, today, approved>>

(* The process dies and is restarted: the session and the list are gone.     *)
Crash(w) ==
  /\ run[w].pc # "idle" \/ run[w].scanned # {}
  /\ faults < MaxFaults
  /\ faults' = faults + 1
  /\ run' = [run EXCEPT ![w] = NewRun("idle", None, {})]
  /\ UNCHANGED <<labelled, stores, outbox, sending, today, approved>>

(* Midnight, at any point of a run.                                         *)
NextDay ==
  /\ today < MaxDay
  /\ today' = today + 1
  /\ UNCHANGED <<labelled, stores, outbox, run, sending, faults, approved>>
-----------------------------------------------------------------------------
Init ==
  /\ labelled = {}
  /\ orders = [d \in Docs |-> None]
  /\ exceptions = [d \in Docs |-> None]
  /\ clock = 0
  /\ outbox = <<>>
  /\ run = [w \in Workers |-> NewRun("idle", None, {})]
  /\ sending \in SendModes
  /\ today = 0
  /\ faults = 0
  /\ approved = {}

Step(w) ==
  \/ Scan(w)
  \/ \E e \in Emails : Pick(w, e)
  \/ FindPending(w) \/ ReplyGuard(w) \/ ReplyAdvance(w)
  \/ Parse(w) \/ Validate(w) \/ Clarify(w)
  \/ PersistPreflight(w) \/ CreateOrder(w) \/ CreateException(w) \/ Reread(w)
  \/ Confirm(w) \/ Finalize(w) \/ Judge(w)
  \/ SendBlocked(w) \/ SendRefused(w) \/ SendDryRun(w) \/ SendMail(w)
  \/ WriteReceipt(w)
  \/ SkipEntry(w) \/ StageDone(w) \/ ApplyLabel(w)

Next ==
  \/ \E w \in Workers : Step(w) \/ RunFails(w) \/ Crash(w)
  \/ NextDay

Spec == Init /\ [][Next]_vars

(* A worker that can go on does: its loop never returns.                     *)
FairSpec == Spec /\ \A w \in Workers : WF_vars(Step(w))
-----------------------------------------------------------------------------
(* Properties that hold however many workers run.                          *)

(* JudgeStage and SendStage: "No email leaves the system unverified".  The  *)
(* very body that was mailed is one the judge passed, in the run that       *)
(* mailed it, and for that document.                                        *)
VerifiedMail ==
  \A i \in DOMAIN outbox :
    [doc |-> outbox[i].doc, body |-> outbox[i].body, by |-> outbox[i].by] \in approved

Mailed(d, kind) == \E i \in DOMAIN outbox : outbox[i].doc = d /\ outbox[i].kind = kind

(* sent_at is evidence: a record that carries it has had its mail accepted   *)
(* by Gmail, whatever crashed, was retried or was written since.             *)
TruthfulReceipt ==
  \A d \in Docs :
    /\ orders[d] # None /\ orders[d].receipt = "sent" => Mailed(d, "order")
    /\ exceptions[d] # None /\ exceptions[d].receipt = "sent" => Mailed(d, "exception")

SameOrigin(r, s) == s # None /\ s.by = r.by /\ s.po = r.po

(* save is create-once: no record is ever lost, and its content stays that   *)
(* of its first writer under redelivery.  An exception only moves from       *)
(* pending_clarify to awaiting_review.                                       *)
FirstWriterWins ==
  [][\A d \in Docs :
       /\ orders[d] # None => SameOrigin(orders[d], orders'[d])
       /\ exceptions[d] # None =>
            /\ SameOrigin(exceptions[d], exceptions'[d])
            /\ \/ exceptions'[d].status = exceptions[d].status
               \/ /\ exceptions[d].status = "pending_clarify"
                  /\ exceptions'[d].status = "awaiting_review"]_stores

(* A message is labelled, and so never looked at again, only when the run    *)
(* that took it has every purchase order it parsed in a collection, or has   *)
(* handed a reply to the exception that was waiting for it.                  *)
LabelledIsRecorded ==
  [][\A e \in labelled' \ labelled :
       \E w \in Workers :
         /\ run[w].msg = e
         /\ \A i \in DOMAIN run[w].entries :
              Recorded(ComposeDocId(e, run[w].entries[i].idx))
         /\ run[w].target # None =>
              exceptions[run[w].target].status = "awaiting_review"]_labelled

(* A race repeats a mail, a retry never does: a worker mails about a         *)
(* document once at most, so that the copies a customer gets are as many as *)
(* the workers that took up the message at once.                            *)
OneMailEach ==
  \A i, j \in DOMAIN outbox :
    outbox[i].doc = outbox[j].doc /\ outbox[i].by = outbox[j].by => i = j

Receipted(d) ==
  \/ orders[d] # None /\ orders[d].receipt = "sent"
  \/ exceptions[d] # None /\ exceptions[d].receipt = "sent"

(* A receipt is lost to a race alone: the run that takes "sent" off a record *)
(* is one whose document another worker has mailed about.                    *)
ReceiptsLostToRaces ==
  [][\A d \in Docs :
       Receipted(d) /\ ~Receipted(d)' =>
          \E w \in Workers :
            /\ run[w].pc \in {"send", "receipt"} /\ run'[w] # run[w]
            /\ AtEntry(w) /\ DocOf(w) = d
            /\ \E i \in DOMAIN outbox : outbox[i].doc = d /\ outbox[i].by # w]_stores
-----------------------------------------------------------------------------
(* Properties of one worker: what the design relies on nobody else running. *)

(* Preflight dedupe: a document is an order or an exception, never both.     *)
OneBook == \A d \in Docs : orders[d] = None \/ exceptions[d] = None

(* "At most once visible" delivery: the customer gets one mail per document  *)
(* at most, through every crash, lost answer and retry.                      *)
AtMostOneMail ==
  \A i, j \in DOMAIN outbox :
    outbox[i].doc = outbox[j].doc /\ outbox[i].kind = outbox[j].kind => i = j

(* The record tells what was mailed: its body is the mailed one and its      *)
(* verdict is the pass that let it out.                                      *)
RecordMatchesMail ==
  \A i \in DOMAIN outbox :
    LET m == outbox[i]
        record == IF m.kind = "order" THEN orders[m.doc] ELSE exceptions[m.doc]
    IN  record # None /\ record.body = m.body /\ record.verdict = "pass"

(* Attachments that share a name and an index hold the same purchase order:  *)
(* otherwise the decision about one is taken for the other.                  *)
KeysTell(e) ==
  \A es \in Extractions[e] : \A i, j \in DOMAIN es :
    es[i].file = es[j].file /\ es[i].idx = es[j].idx => es[i].po = es[j].po

(* find_duplicate: the same purchase order in two emails becomes two orders  *)
(* only when more days than the window lie between them, although the check  *)
(* is many awaits and perhaps a midnight before the order is filed.          *)
OneOrderPerPO ==
  \A c, d \in Docs :
    /\ orders[c] # None /\ orders[d] # None /\ orders[c].po = orders[d].po
    /\ c[1] # d[1] /\ KeysTell(c[1]) /\ KeysTell(d[1])
    => \/ orders[c].day + Window < orders[d].day
       \/ orders[d].day + Window < orders[c].day

(* A clarification is answered once: the reply recorded on an exception is   *)
(* never replaced by another.                                                *)
ReplyKept ==
  [][\A d \in Docs :
       exceptions[d] # None /\ exceptions[d].reply # None =>
         exceptions'[d].reply = exceptions[d].reply]_exceptions

(* A message is handled once, as the answer to one exception or as a request *)
(* of its own, and again only after a fault: a reply whose run was abandoned *)
(* before the label is looked at afresh, and may then answer a second        *)
(* exception or become an order.                                             *)
HandledOnce ==
  \A e \in Emails :
    LET answered == {d \in Docs : exceptions[d] # None /\ exceptions[d].reply = e}
        requested == {c \in {"own"} : \E i \in Indices : Recorded(ComposeDocId(e, i))}
    IN  Cardinality(answered) + Cardinality(requested) <= 1 + faults

(* Every message is labelled in the end: no crash, lost race or raised guard *)
(* leaves it in the mailbox for good.                                        *)
EveryMailLabelled == <>(Emails \subseteq labelled)
-----------------------------------------------------------------------------
(* What one worker promises, seen from outside: the order desk.            *)
Desk == INSTANCE OrderDesk WITH
  book <- [d \in Docs |-> (IF orders[d] # None THEN {"order"} ELSE {}) \cup
                          (IF exceptions[d] # None THEN {"exception"} ELSE {})],
  letters <- [d \in Docs |-> Cardinality({i \in DOMAIN outbox : outbox[i].doc = d})],
  closed <- labelled

(* The pipeline implements the desk: one record per document, in one of the  *)
(* two books, one letter about it at most and never before it is on file,    *)
(* and nothing more about an email that is closed.                           *)
ImplementsDesk == Desk!Spec

(* Who entered each document in each collection, and the mails of a worker  *)
(* about a document, by the collection its record is in.                    *)
Entered ==
  [d \in Docs |-> [b \in {"order", "exception"} |->
     LET store == IF b = "order" THEN orders ELSE exceptions
     IN  IF store[d] = None THEN None ELSE store[d].by]]

MailsBy(d, w, b) ==
  {i \in DOMAIN outbox : outbox[i].doc = d /\ outbox[i].by = w /\ outbox[i].kind = b}

Letters ==
  [d \in Docs |-> [w \in Workers |-> [b \in {"order", "exception"} |->
     Cardinality(MailsBy(d, w, b))]]]

(* What any number of workers promise: the shared desk.                     *)
Shared == INSTANCE SharedDesk WITH
  Clerks <- Workers, entered <- Entered, letters <- Letters

(* However many workers race, each of them enters a document once, where     *)
(* nothing is entered, and mails about it once, from a book it is in.       *)
ImplementsSharedDesk == Shared!Spec
-----------------------------------------------------------------------------
(* What the documentation says of retries and redelivery.                  *)

(* "a send that fails ... leaves sent_at=None and records send_error on the  *)
(* record.  The pipeline continues; subsequent runs retry": a message whose  *)
(* verified reply failed to go out stays where a later run will find it.     *)
FailedSendRetried ==
  \A d \in Docs : d[1] \in labelled =>
    /\ orders[d] # None => ~(orders[d].verdict = "pass" /\ orders[d].receipt = "failed")
    /\ exceptions[d] # None =>
         ~(exceptions[d].verdict = "pass" /\ exceptions[d].receipt = "failed")

(* "a duplicate was already confirmed on a prior run": the order Confirm and *)
(* Judge pass over has its confirmation.                                     *)
DuplicateWasConfirmed ==
  \A w \in Workers :
    /\ run[w].pc = "confirm" /\ AtEntry(w) /\ ResultOf(w).kind = "duplicate"
    /\ orders[DocOf(w)] # None
    => orders[DocOf(w)].body # None

(* "For every entry ... route the order into either the orders or exceptions *)
(* collection": what a labelled email asked for is on file, each purchase    *)
(* order under a record of its own.                                          *)
EveryOrderFiled ==
  [][\A e \in labelled' \ labelled : \A w \in Workers :
       run[w].pc = "label" /\ run[w].msg = e =>
         \A i \in DOMAIN run[w].entries :
           LET d == ComposeDocId(e, run[w].entries[i].idx)
           IN  \/ orders[d] # None /\ orders[d].po = run[w].entries[i].po
               \/ exceptions[d] # None /\ exceptions[d].po = run[w].entries[i].po
    ]_labelled
=============================================================================
