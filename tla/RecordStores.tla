---------------------------- MODULE RecordStores ----------------------------
(***************************************************************************)
(* The two Firestore collections of the intake agent, `orders' and         *)
(* `exceptions', both keyed by the document id that IntakeCoordinator      *)
(* composes.  A store is a function from every possible document id to the *)
(* record kept under it, or None.  Every operator below is one call of     *)
(* FirestoreOrderStore or FirestoreExceptionStore: the shared state only   *)
(* changes through these calls, and each of them is atomic in Firestore.   *)
(***************************************************************************)
EXTENDS Naturals

CONSTANTS
  Workers,   \* processes that run the pipeline: pollers, pull workers, Cloud Run instances
  Emails,    \* Gmail messages, standing for their RFC 822 Message-ID
  Indices,   \* sub_doc_index values: positions of a purchase order in one attachment
  POs,       \* purchase orders as content: what find_duplicate tells apart
  None       \* an absent value

(***************************************************************************)
(* A draft (clarify or confirmation body) is named by the worker whose run *)
(* wrote it.  A worker has one run at a time, and a run that finds a       *)
(* record already stored drafts nothing for it.                            *)
(***************************************************************************)
Drafts == Workers \cup {None}

Verdicts == {"missing", "pass", "rejected"}

(* sent_at and send_error are always written together: "sent" is a         *)
(* timestamp with no error, "failed" is no timestamp with an error.        *)
Receipts == {"none", "sent", "failed"}

Decisions == {"auto_approve", "clarify", "escalate"}

ExceptionStatus == {"pending_clarify", "escalated", "awaiting_review"}

(* IntakeCoordinator._compose_doc_id: message_id, or message_id#index.     *)
(* The name of the attachment is no part of it.                            *)
Docs == Emails \X Indices

ComposeDocId(e, idx) == <<e, idx>>

OrderRecord ==
  [by: Workers, po: POs, day: Nat, body: Drafts, verdict: Verdicts,
   receipt: Receipts]

ExceptionRecord ==
  [by: Workers, po: POs, body: Drafts, verdict: Verdicts, receipt: Receipts,
   thread: Emails, status: ExceptionStatus, reply: Emails \cup {None},
   created: Nat]

ASSUME NoneIsFresh ==
  /\ None \notin Workers
  /\ None \notin Emails
  /\ None \notin Docs
  /\ None \notin OrderRecord
  /\ None \notin ExceptionRecord

ASSUME IndicesAreNaturals == Indices \subseteq Nat
-----------------------------------------------------------------------------
(* Mutants of the operators below.                                          *)
CreateOverwrites(store, d, record) == [store EXCEPT ![d] = record]

PutBodyNotAwaited(store, d, draft) == store

PutReplyKeepsStatus(store, d, e) == [store EXCEPT ![d].reply = e]

PendingAnyStatus(store, thread) ==
  {d \in DOMAIN store : store[d] # None /\ store[d].thread = thread}

(* save: an optimistic create.  AlreadyExists is swallowed and the stored  *)
(* record stays as its first writer left it.                               *)
Create(store, d, record) ==
  IF store[d] = None THEN [store EXCEPT ![d] = record] ELSE store

(* update_with_confirmation, update_with_judge_verdict and                 *)
(* update_with_send_receipt: field-mask updates with no precondition on    *)
(* the fields they replace.                                                *)
PutBody(store, d, draft) == [store EXCEPT ![d].body = draft]

PutVerdict(store, d, verdict) == [store EXCEPT ![d].verdict = verdict]

PutReceipt(store, d, receipt) == [store EXCEPT ![d].receipt = receipt]

(* The write of update_with_reply.  Its status guard is a separate, earlier *)
(* read: nothing ties the two together.                                     *)
PutReply(store, d, e) ==
  [store EXCEPT ![d].status = "awaiting_review", ![d].reply = e]

(* find_pending_clarify: the pending exceptions of a thread, newest first,  *)
(* limited to one.                                                          *)
Pending(store, thread) ==
  {d \in DOMAIN store : /\ store[d] # None
                        /\ store[d].thread = thread
                        /\ store[d].status = "pending_clarify"}

FindPendingClarify(store, thread) ==
  {d \in Pending(store, thread) :
     \A other \in Pending(store, thread) : store[other].created <= store[d].created}
=============================================================================
