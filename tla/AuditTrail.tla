----------------------------- MODULE AuditTrail -----------------------------
(***************************************************************************)
(* The audit_log collection, grouped by session: what AuditLogger.emit     *)
(* leaves there.  Emitting is fail-open: a write that fails is logged and   *)
(* the pipeline goes on without its event.                                  *)
(***************************************************************************)
EXTENDS Naturals, Sequences

CONSTANTS
  Emails,   \* messages of the mailbox
  Stages,   \* names of the pipeline's stages, in the order they run
  None

ASSUME StageAssumption == Stages \in Seq(STRING) /\ Stages # <<>>

StageNames == {Stages[i] : i \in DOMAIN Stages}

Phases == {"entered", "exited", "lifecycle"}

(* How a stage left: ok, or by an exception; a deadline is told apart.      *)
Outcomes == {"ok", "error", "timeout"}

(* A lifecycle event tells one of these, or nothing: "result" stands for the *)
(* decision of a validation and the kind of a result, "ok" and "error" for   *)
(* the verdict on a draft and the fate of a mail, "skip" for a mail that     *)
(* was not due.                                                              *)
Told == {"ok", "error", "skip", "result"}

(* The ids of records: the message's own for its first order, then           *)
(* <message>#1 and so on.                                                    *)
Documents == Emails \X Nat

MessageId(e) == <<e, 0>>

(* correlation_id 0 stands for the empty string of a session that has not   *)
(* been ingested yet; source_message_id is the id of a record in the events  *)
(* of SendStage, and else that of the message.                              *)
AuditEvent ==
  [corr: Nat, msg: Documents \cup {None}, stage: StageNames \cup {"lifecycle"},
   phase: Phases, outcome: Outcomes \cup Told \cup {None}]

(* What became of the run of a session; the collection does not hold it.    *)
Fates == {"running", "labelled", "unlabelled", "raised", "killed"}

Session == [msg: Emails, events: Seq(AuditEvent), lost: Nat, fate: Fates]

NewSession(e) == [msg |-> e, events |-> <<>>, lost |-> 0, fate |-> "running"]

(* emit, with a write that is kept or lost.                                 *)
Emitted(sessions, s, event, kept) ==
  IF kept THEN [sessions EXCEPT ![s].events = Append(@, event)]
  ELSE [sessions EXCEPT ![s].lost = @ + 1]

Ended(sessions, s, fate) == [sessions EXCEPT ![s].fate = fate]
=============================================================================
