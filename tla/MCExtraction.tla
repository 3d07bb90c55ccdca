---------------------------- MODULE MCExtraction ----------------------------
(* A small instance of the runs of a message for TLC.                      *)
EXTENDS Extraction, TLC

CONSTANTS m1, m2, a1, a2, body, n1, n2

PipelineStages ==
  <<"ingest_stage", "reply_shortcircuit_stage", "classify_stage", "parse_stage",
    "validate_stage", "clarify_stage", "persist_stage", "confirm_stage",
    "finalize_stage", "judge_stage", "send_stage">>

(* m1 has two attachments under one file name; m2 has none.                  *)
MailAttachments == [e \in Emails |-> IF e = m1 THEN <<a1, a2>> ELSE <<>>]

MailBody == [e \in Emails |-> body]

MailNames == [a \in Attachments |-> IF a = body THEN n2 ELSE n1]

(* a1 is a purchase order beyond doubt, and a2 and the body are not; a2,     *)
(* whose bytes stand for both of its name, may be read as a document        *)
(* without an order, or with two.                                           *)
MailIntents == [a \in Attachments |-> IF a = a1 THEN {"purchase_order"} ELSE {"other"}]

MailOrders == [a \in Attachments |-> {0, 2}]
=============================================================================
