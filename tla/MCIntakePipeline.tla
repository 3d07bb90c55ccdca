-------------------------- MODULE MCIntakePipeline --------------------------
(* Small instances of the intake pipeline for TLC.                         *)
EXTENDS IntakePipeline, TLC

CONSTANTS m1, m2, r1, r2, p1, p2, f1, f2

Po(f, i, p) == [file |-> f, idx |-> i, po |-> p]

(* m1 brings two purchase orders in one attachment, or the first twice in   *)
(* attachments of one name; r1, in its thread, repeats the first as an      *)
(* order of its own, or brings none.                                        *)
MixedExtractions ==
  [e \in Emails |-> CASE e = m1 -> {<<Po(f1, 0, p1), Po(f1, 1, p2)>>,
                                    <<Po(f1, 0, p1), Po(f1, 0, p1)>>}
                      [] OTHER -> {<<>>, <<Po(f1, 0, p1)>>}]

(* m1 brings one purchase order.                                            *)
SharedExtractions == [e \in Emails |-> {<<Po(f1, 0, p1)>>}]

(* m1 brings one purchase order, and its replies none.                      *)
BareReplyExtractions ==
  [e \in Emails |-> IF e = m1 THEN {<<Po(f1, 0, p1)>>} ELSE {<<>>}]

(* m1 has two attachments with one purchase order each: parsed_docs holds   *)
(* two entries, both with sub_doc_index 0.                                  *)
TwoAttachmentExtractions == [e \in Emails |-> {<<Po(f1, 0, p1), Po(f2, 0, p2)>>}]

OwnThread == [e \in Emails |-> e]

OneThread == [e \in Emails |-> m1]

WorkerSymmetry == Permutations(Workers)
=============================================================================
