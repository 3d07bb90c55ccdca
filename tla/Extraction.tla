----------------------------- MODULE Extraction -----------------------------
(***************************************************************************)
(* One run of a message seen from the inside of its session: the stages    *)
(* of my_agent/agent.py entered and left under AuditedStage, Ingest with    *)
(* its envelope and correlation id, Classify and Parse with the LlamaCloud  *)
(* jobs they submit and poll, and the audit events all of them emit, one by *)
(* one for each document in Validate, Persist, Confirm, Judge and Send.     *)
(* What these do to the stores is in IntakePipeline; here it is a free       *)
(* choice of what it comes to.                                              *)
(*                                                                         *)
(* Time is counted in polling intervals from the moment a job's deadline    *)
(* is set.                                                                  *)
(***************************************************************************)
EXTENDS AuditTrail, FiniteSetsExt

CONSTANTS
  Workers,        \* processes that take messages from the mailbox
  Replies,        \* the emails that carry an In-Reply-To header
  Attachments,    \* attachments, each with bytes of its own
  FileNames,
  NameOf,         \* the file name of each attachment
  AttachmentsOf,  \* the attachments of each email, in order
  BodyOf,         \* body.txt, made from the body of each email
  IntentsOf,      \* what LlamaClassify may make of each attachment
  OrdersIn,       \* how many orders LlamaExtract may find in each
  JobEnds,        \* the statuses a job may end with
  Sending,        \* whether SendStage has a Gmail client
  Budget,         \* timeout_s
  MaxCall,        \* longest sleep-and-get of a poll
  MaxDue,         \* bound on the time a job takes
  MaxSessions,    \* bound on the runs
  MaxFaults       \* bound on crashes, failing calls, lost events, slow jobs
                  \* and rejected drafts

Intents == {"purchase_order", "other"}

ASSUME MailAssumptions ==
  /\ Replies \subseteq Emails
  /\ NameOf \in [Attachments -> FileNames]
  /\ AttachmentsOf \in [Emails -> Seq(Attachments)]
  /\ BodyOf \in [Emails -> Attachments]

ASSUME ServiceAssumptions ==
  /\ IntentsOf \in [Attachments -> SUBSET Intents]
  /\ OrdersIn \in [Attachments -> SUBSET Nat]
  /\ Budget \in Nat /\ MaxCall \in Nat \ {0} /\ MaxDue \in Nat
  /\ Sending \in BOOLEAN

(* Ingest is the first stage, and no other.                                 *)
ASSUME IngestFirst == \A i \in DOMAIN Stages : Stages[i] = "ingest_stage" <=> i = 1

(* A reply is told apart before there is anything to classify, and what is   *)
(* classified is parsed after it; each stage runs once.                     *)
ASSUME StageOrder ==
  \E s, c, p \in DOMAIN Stages :
    /\ s < c /\ c < p
    /\ \A i \in DOMAIN Stages : /\ Stages[i] = "reply_shortcircuit_stage" <=> i = s
                                /\ Stages[i] = "classify_stage" <=> i = c
                                /\ Stages[i] = "parse_stage" <=> i = p

ASSUME BoundAssumptions == MaxSessions \in Nat /\ MaxFaults \in Nat

VARIABLES
  labelled,      \* emails that carry the processed label
  sessions,      \* the sessions opened so far, with their audit events
  correlations,  \* correlation ids drawn so far
  uploads,       \* files in the LlamaCloud project, by file name
  filed,         \* the documents that have an order or an exception
  run,           \* the state of each worker's session
  faults

vars == <<labelled, sessions, correlations, uploads, filed, run, faults>>

(* The status of a job that has not ended, and those that end the polling.  *)
Pending == "PENDING"

Terminal(stage) ==
  IF stage = "classify_stage"
  THEN {"COMPLETED", "SUCCESS", "PARTIAL_SUCCESS", "FAILED", "ERROR", "CANCELLED"}
  ELSE {"COMPLETED", "FAILED", "CANCELLED"}

Success(stage) ==
  IF stage = "classify_stage" THEN {"COMPLETED", "SUCCESS", "PARTIAL_SUCCESS"}
  ELSE {"COMPLETED"}

(* A job: when and how it ends, the time spent on it, when its status was   *)
(* read last and what it was.                                               *)
Job == [due: Nat, end: JobEnds \cup {Pending}, spent: Nat, read: Nat,
        seen: JobEnds \cup {Pending}]

NoJob == [due |-> 0, end |-> Pending, spent |-> 0, read |-> 0, seen |-> Pending]

StatusAt(job, time) == IF time >= job.due THEN job.end ELSE Pending

Skip == [name: FileNames, stage: StageNames]

ParsedDoc == [name: FileNames, idx: Nat, bytes: Attachments]

(* What Persist makes of a document: an order, an exception with or without  *)
(* a mail to send, or nothing, its record being there.                       *)
Kinds == {"order", "clarify", "escalate", "duplicate"}

Result == [idx: Nat, kind: Kinds]

(* results is process_results; passed are the records whose draft the judge  *)
(* let pass.                                                                *)
Run ==
  [pc: {"idle", "enter", "body", "poll", "verdict", "exit", "label"},
   msg: Emails \cup {None}, session: Nat, at: DOMAIN Stages, corr: Nat,
   envelope: Seq(Attachments), replied: BOOLEAN, pos: Nat \ {0}, job: Job,
   classified: Seq(FileNames), skipped: Seq(Skip), parsed: Seq(ParsedDoc),
   results: Seq(Result), passed: SUBSET Documents, outcome: Outcomes]

(* session.state of a new session: empty.                                   *)
NewRun(pc, e, session) ==
  [pc |-> pc, msg |-> e, session |-> session, at |-> 1, corr |-> 0,
   envelope |-> <<>>, replied |-> FALSE, pos |-> 1, job |-> NoJob,
   classified |-> <<>>, skipped |-> <<>>, parsed |-> <<>>, results |-> <<>>,
   passed |-> {}, outcome |-> "ok"]

TypeOK ==
  /\ labelled \subseteq Emails
  /\ sessions \in Seq(Session)
  /\ correlations \in Nat
  /\ uploads \in [FileNames -> Nat]
  /\ filed \subseteq Documents
  /\ run \in [Workers -> Run]
  /\ faults \in 0..MaxFaults
-----------------------------------------------------------------------------
StageOf(w) == Stages[run[w].at]

In(w, stage, pc) == run[w].pc = pc /\ StageOf(w) = stage

Mishaps(n) == faults + n <= MaxFaults /\ faults' = faults + n

Mishap == Mishaps(1)

(* The stage raises: what it had gathered is not written to the session.    *)
Raised(w, outcome) ==
  run' = [run EXCEPT ![w].pc = "exit", ![w].outcome = outcome]

(* _extract_source_message_id: the envelope's, once there is one.           *)
SourceMessageId(w) == IF run[w].envelope = <<>> THEN None ELSE MessageId(run[w].msg)

EventOf(w, phase, outcome) ==
  [corr |-> run[w].corr, msg |-> SourceMessageId(w), stage |-> StageOf(w),
   phase |-> phase, outcome |-> outcome]

Lifecycle(corr, msg, outcome) ==
  [corr |-> corr, msg |-> msg, stage |-> "lifecycle", phase |-> "lifecycle",
   outcome |-> outcome]

(* Ingest without attachments makes one of the body.                        *)
EnvelopeOf(e) == IF AttachmentsOf[e] = <<>> THEN <<BodyOf[e]>> ELSE AttachmentsOf[e]

(* filename_to_bytes: of two attachments of one name the later remains.     *)
BytesNamed(envelope, name) ==
  envelope[Max({i \in DOMAIN envelope : NameOf[envelope[i]] = name})]

(* What the loop of Classify or of Parse goes through.                      *)
Remaining(w) ==
  IF StageOf(w) = "classify_stage" THEN run[w].pos <= Len(run[w].envelope)
  ELSE run[w].pos <= Len(run[w].classified)

Item(w) ==
  IF StageOf(w) = "classify_stage" THEN run[w].envelope[run[w].pos]
  ELSE BytesNamed(run[w].envelope, run[w].classified[run[w].pos])

(* Mutant: a suffix that is the same for every upload of a file.            *)
HashSuffix(name) == 0

(* external_file_id: a random suffix, one that was never used.              *)
Suffix(name) == uploads[name]

Taken(name) == Suffix(name) < uploads[name]

(* A job that may run into the deadline.                                    *)
Slow(due) == due + MaxCall > Budget + 2
-----------------------------------------------------------------------------
(* A message of the list gets a session of its own.                         *)
Start(w, e) ==
  /\ run[w].pc = "idle" /\ e \notin labelled
  /\ Len(sessions) < MaxSessions
  /\ sessions' = Append(sessions, NewSession(e))
  /\ run' = [run EXCEPT ![w] = NewRun("enter", e, Len(sessions) + 1)]
  /\ UNCHANGED <<labelled, correlations, uploads, filed, faults>>

(* An event of worker w's session is written, or lost, in a step that takes  *)
(* n mishaps otherwise.                                                     *)
Emit(w, event, n) ==
  \/ /\ Mishaps(n)
     /\ sessions' = Emitted(sessions, run[w].session, event, TRUE)
  \/ /\ Mishaps(n + 1)
     /\ sessions' = Emitted(sessions, run[w].session, event, FALSE)

(* AuditedStage, before the body.                                           *)
Enter(w) ==
  /\ run[w].pc = "enter"
  /\ Emit(w, EventOf(w, "entered", None), 0)
  /\ run' = [run EXCEPT ![w].pc = "body", ![w].pos = 1]
  /\ UNCHANGED <<labelled, correlations, uploads, filed>>

(* Ingest: the envelope and a correlation id of this run, then the event.   *)
Ingest(w) ==
  /\ In(w, "ingest_stage", "body")
  /\ correlations' = correlations + 1
  /\ run' = [run EXCEPT ![w].pc = "exit", ![w].corr = correlations + 1,
                        ![w].envelope = EnvelopeOf(run[w].msg)]
  /\ Emit(w, Lifecycle(correlations + 1, MessageId(run[w].msg), None), 0)
  /\ UNCHANGED <<labelled, uploads, filed>>

(* ReplyShortCircuit: a reply may find its pending exception.               *)
ShortCircuit(w) ==
  /\ In(w, "reply_shortcircuit_stage", "body")
  /\ \E replied \in BOOLEAN :
       /\ replied => run[w].msg \in Replies
       /\ run' = [run EXCEPT ![w].pc = "exit", ![w].replied = replied]
  /\ UNCHANGED <<labelled, sessions, correlations, uploads, filed, faults>>

Extracting(w, pc) == In(w, "classify_stage", pc) \/ In(w, "parse_stage", pc)

(* classify_document and parse_document up to the deadline: upload the      *)
(* file, create the job.  The answer of the create may hold a final status. *)
Submit(w) ==
  /\ Extracting(w, "body") /\ ~run[w].replied /\ Remaining(w)
  /\ LET name == NameOf[Item(w)]
     IN  /\ ~Taken(name)
         /\ uploads' = [uploads EXCEPT ![name] = @ + 1]
  /\ \E due \in 0..MaxDue, end \in JobEnds :
       LET job == [NoJob EXCEPT !.due = due, !.end = end]
       IN  /\ IF Slow(due) \/ end \notin Success(StageOf(w)) THEN Mishap
              ELSE UNCHANGED faults
           /\ run' = [run EXCEPT ![w].pc = "poll",
                                 ![w].job = [job EXCEPT !.seen = StatusAt(job, 0)]]
  /\ UNCHANGED <<labelled, sessions, correlations, filed>>

(* The upload is refused: the external_file_id exists, or the call fails.    *)
SubmitRefused(w) ==
  /\ Extracting(w, "body") /\ ~run[w].replied /\ Remaining(w)
  /\ IF Taken(NameOf[Item(w)]) THEN UNCHANGED faults ELSE Mishap
  /\ Raised(w, "error")
  /\ UNCHANGED <<labelled, sessions, correlations, uploads, filed>>

(* The file is uploaded, and creating the job fails.                        *)
CreateFails(w) ==
  /\ Extracting(w, "body") /\ ~run[w].replied /\ Remaining(w)
  /\ uploads' = [uploads EXCEPT ![NameOf[Item(w)]] = @ + 1]
  /\ Mishap
  /\ Raised(w, "error")
  /\ UNCHANGED <<labelled, sessions, correlations, filed>>

Seen(w) == run[w].job.seen

(* Within the budget: sleep and ask again.  The status is read somewhere    *)
(* between the end of the sleep and the answer.                             *)
Poll(w) ==
  /\ Extracting(w, "poll")
  /\ Seen(w) \notin Terminal(StageOf(w)) /\ run[w].job.spent <= Budget
  /\ \E call \in 1..MaxCall : \E read \in 1..call :
       LET now == run[w].job.spent
       IN  run' = [run EXCEPT ![w].job.spent = now + call,
                              ![w].job.read = now + read,
                              ![w].job.seen = StatusAt(run[w].job, now + read)]
  /\ UNCHANGED <<labelled, sessions, correlations, uploads, filed, faults>>

(* Mutant: the deadline is looked at before the status.                     *)
GiveUpUnread(w) ==
  /\ Extracting(w, "poll")
  /\ run[w].job.spent > Budget
  /\ Raised(w, "timeout")
  /\ UNCHANGED <<labelled, sessions, correlations, uploads, filed, faults>>

(* Past it: the job is given up, whatever it may still bring.                *)
GiveUp(w) ==
  /\ Extracting(w, "poll")
  /\ Seen(w) \notin Terminal(StageOf(w)) /\ run[w].job.spent > Budget
  /\ Raised(w, "timeout")
  /\ UNCHANGED <<labelled, sessions, correlations, uploads, filed, faults>>

(* A final status that is no success.                                       *)
JobFailed(w) ==
  /\ Extracting(w, "poll")
  /\ Seen(w) \in Terminal(StageOf(w)) \ Success(StageOf(w))
  /\ Raised(w, "error")
  /\ UNCHANGED <<labelled, sessions, correlations, uploads, filed, faults>>

(* Mutant: the fields change places.                                        *)
SkipSwapped(w, name) == [name |-> StageOf(w), stage |-> name]

SkipOf(w, name) == [name |-> name, stage |-> StageOf(w)]

(* Classify, an attachment whose job is done: a purchase order goes on to   *)
(* Parse, anything else is skipped.                                         *)
Classify(w) ==
  /\ In(w, "classify_stage", "poll") /\ Seen(w) \in Success("classify_stage")
  /\ LET name == NameOf[Item(w)]
     IN  \E intent \in IntentsOf[Item(w)] :
           run' = [run EXCEPT
             ![w].pc = "body", ![w].pos = @ + 1, ![w].job = NoJob,
             ![w].classified = IF intent = "purchase_order" THEN Append(@, name) ELSE @,
             ![w].skipped = IF intent = "purchase_order" THEN @
                            ELSE Append(@, SkipOf(w, name))]
  /\ UNCHANGED <<labelled, sessions, correlations, uploads, filed, faults>>

(* Mutant: the skips of Parse take the place of those of Classify.          *)
AppendSkipAfresh(w, name) ==
  Append(SelectSeq(run[w].skipped, LAMBDA s : s.stage = StageOf(w)), SkipOf(w, name))

(* skipped_docs is read, copied and extended.                               *)
AppendSkip(w, name) == Append(run[w].skipped, SkipOf(w, name))

(* Parse, a document whose job is done: one entry per order found, or a     *)
(* skip.                                                                    *)
Parse(w) ==
  /\ In(w, "parse_stage", "poll") /\ Seen(w) \in Success("parse_stage")
  /\ LET name == run[w].classified[run[w].pos]
     IN  \E n \in OrdersIn[Item(w)] :
           run' = [run EXCEPT
             ![w].pc = "body", ![w].pos = @ + 1, ![w].job = NoJob,
             ![w].skipped = IF n = 0 THEN AppendSkip(w, name) ELSE @,
             ![w].parsed = @ \o [i \in 1..n |-> [name |-> name, idx |-> i - 1,
                                                 bytes |-> Item(w)]]]
  /\ UNCHANGED <<labelled, sessions, correlations, uploads, filed, faults>>

(* _compose_doc_id, of an entry of parsed_docs or process_results.           *)
RecordId(w, entry) == <<run[w].msg, entry.idx>>

(* The kinds of result the loop of a stage does not pass over.               *)
Concern(stage) ==
  CASE stage = "confirm_stage" -> {"order"}
    [] stage = "judge_stage" -> {"order", "clarify"}
    [] stage = "send_stage" -> IF Sending THEN {"order", "clarify", "escalate"} ELSE {}
    [] OTHER -> {}

(* The entries of parsed_docs, or of process_results, that the loop of a     *)
(* later stage has before it; a handled reply has none.                      *)
Entries(w) ==
  IF StageOf(w) \in {"validate_stage", "persist_stage"}
  THEN run[w].pos..Len(run[w].parsed)
  ELSE {i \in run[w].pos..Len(run[w].results) :
          run[w].results[i].kind \in Concern(StageOf(w))}

Entry(w) == Min(Entries(w))

(* The entry in hand is done with, and told of.                              *)
Tell(w, msg, outcome, n) == Emit(w, Lifecycle(run[w].corr, msg, outcome), n)

(* Validate: the decision on a document.                                     *)
Validate(w) ==
  /\ In(w, "validate_stage", "body") /\ Entries(w) # {}
  /\ Tell(w, SourceMessageId(w), "result", 0)
  /\ run' = [run EXCEPT ![w].pos = Entry(w) + 1]
  /\ UNCHANGED <<labelled, correlations, uploads, filed>>

(* What the coordinator makes of a document: a record that is there is a     *)
(* duplicate, unless another worker filed it after the preflight.            *)
KindsOf(w, doc) ==
  IF doc \notin filed THEN Kinds \ {"duplicate"}
  ELSE IF Workers = {w} THEN {"duplicate"} ELSE Kinds

(* Persist, a document that is filed or was.                                 *)
Persist(w) ==
  /\ In(w, "persist_stage", "body") /\ Entries(w) # {}
  /\ LET parsed == run[w].parsed[Entry(w)]
         doc == RecordId(w, parsed)
     IN  /\ filed' = filed \cup {doc}
         /\ \E kind \in KindsOf(w, doc) :
              run' = [run EXCEPT
                ![w].pos = Entry(w) + 1,
                ![w].results = Append(@, [idx |-> parsed.idx, kind |-> kind])]
  /\ Tell(w, SourceMessageId(w), "result", 0)
  /\ UNCHANGED <<labelled, correlations, uploads>>

(* The record is written, and the answer does not come back.                 *)
PersistFails(w) ==
  /\ In(w, "persist_stage", "body") /\ Entries(w) # {}
  /\ filed' = filed \cup {RecordId(w, run[w].parsed[Entry(w)])}
  /\ Mishap
  /\ Raised(w, "error")
  /\ UNCHANGED <<labelled, sessions, correlations, uploads>>

(* Confirm: the draft of an order.                                           *)
Confirm(w) ==
  /\ In(w, "confirm_stage", "body") /\ Entries(w) # {}
  /\ Tell(w, SourceMessageId(w), "ok", 0)
  /\ run' = [run EXCEPT ![w].pos = Entry(w) + 1]
  /\ UNCHANGED <<labelled, correlations, uploads, filed>>

(* Finalize: the summary of the run, of a handled reply too.                 *)
Finalize(w) ==
  /\ In(w, "finalize_stage", "body")
  /\ Tell(w, SourceMessageId(w), "ok", 0)
  /\ run' = [run EXCEPT ![w].pc = "exit"]
  /\ UNCHANGED <<labelled, correlations, uploads, filed>>

(* The judge does not answer, which is told, and then counts as a rejection. *)
JudgeUnavailable(w) ==
  /\ In(w, "judge_stage", "body") /\ Entries(w) # {}
  /\ Tell(w, SourceMessageId(w), "error", 1)
  /\ run' = [run EXCEPT ![w].pc = "verdict"]
  /\ UNCHANGED <<labelled, correlations, uploads, filed>>

(* Judge: the verdict on a draft.                                            *)
Judge(w) ==
  /\ StageOf(w) = "judge_stage" /\ run[w].pc \in {"body", "verdict"}
  /\ Entries(w) # {}
  /\ LET doc == RecordId(w, run[w].results[Entry(w)])
         Verdict(pass, outcome, n) ==
           /\ Tell(w, SourceMessageId(w), outcome, n)
           /\ run' = [run EXCEPT ![w].pc = "body", ![w].pos = Entry(w) + 1,
                                 ![w].passed = IF pass THEN @ \cup {doc} ELSE @ \ {doc}]
     IN  \/ run[w].pc = "body" /\ Verdict(TRUE, "ok", 0)
         \/ run[w].pc = "body" /\ Verdict(FALSE, "error", 1)
         \/ run[w].pc = "verdict" /\ Verdict(FALSE, "error", 0)
  /\ UNCHANGED <<labelled, correlations, uploads, filed>>

(* Send: skipped without a draft, or when the record another worker filed    *)
(* is sent already; blocked without a pass; else sent, or not for want of a  *)
(* recipient or of an answer.  The event is about the record.                *)
Send(w) ==
  /\ In(w, "send_stage", "body") /\ Entries(w) # {}
  /\ LET result == run[w].results[Entry(w)]
         doc == RecordId(w, result)
         drafted == result.kind # "escalate"
     IN  \/ (~drafted \/ Workers # {w}) /\ Tell(w, doc, "skip", 0)
         \/ drafted /\ doc \notin run[w].passed /\ Tell(w, doc, "error", 0)
         \/ drafted /\ doc \in run[w].passed /\ Tell(w, doc, "ok", 0)
         \/ drafted /\ doc \in run[w].passed /\ Tell(w, doc, "error", 1)
  /\ run' = [run EXCEPT ![w].pos = Entry(w) + 1]
  /\ UNCHANGED <<labelled, correlations, uploads, filed>>

(* A body that has come to its end: the loop is through, or a handled reply  *)
(* passes the stage over.                                                   *)
BodyDone(w) ==
  /\ run[w].pc = "body"
  /\ StageOf(w) \notin {"ingest_stage", "reply_shortcircuit_stage", "finalize_stage"}
  /\ Extracting(w, "body") => run[w].replied \/ ~Remaining(w)
  /\ Entries(w) = {}
  /\ run' = [run EXCEPT ![w].pc = "exit"]
  /\ UNCHANGED <<labelled, sessions, correlations, uploads, filed, faults>>

(* Any call a body makes may fail, and any answer may be out of shape.      *)
BodyFails(w) ==
  /\ run[w].pc \in {"body", "poll", "verdict"}
  /\ Mishap
  /\ Raised(w, "error")
  /\ UNCHANGED <<labelled, sessions, correlations, uploads, filed>>

(* Mutant: the exit event takes the ids read on entry.                      *)
ExitEventStale(w) ==
  [EventOf(w, "exited", run[w].outcome) EXCEPT
     !.corr = IF StageOf(w) = "ingest_stage" THEN 0 ELSE @,
     !.msg = IF StageOf(w) = "ingest_stage" THEN None ELSE @]

ExitEvent(w) == EventOf(w, "exited", run[w].outcome)

(* Mutant: the exception ends in the finally block.                         *)
NeverGoesUp(w) == FALSE

GoesUp(w) == run[w].outcome # "ok"

(* AuditedStage, after the body: the ids are read again, the event tells    *)
(* how the stage was left, and an exception goes on up.                     *)
Exit(w) ==
  /\ run[w].pc = "exit"
  /\ \E kept \in BOOLEAN :
       LET s == run[w].session
           after == Emitted(sessions, s, ExitEvent(w), kept)
       IN  /\ IF kept THEN UNCHANGED faults ELSE Mishap
           /\ IF GoesUp(w)
              THEN /\ sessions' = Ended(after, s, "raised")
                   /\ run' = [run EXCEPT ![w] = NewRun("idle", None, 0)]
              ELSE /\ sessions' = after
                   /\ run' = IF run[w].at = Len(Stages)
                             THEN [run EXCEPT ![w].pc = "label"]
                             ELSE [run EXCEPT ![w].pc = "enter", ![w].at = @ + 1]
  /\ UNCHANGED <<labelled, correlations, uploads, filed>>

EndRun(w, fate) ==
  /\ sessions' = Ended(sessions, run[w].session, fate)
  /\ run' = [run EXCEPT ![w] = NewRun("idle", None, 0)]

ApplyLabel(w) ==
  /\ run[w].pc = "label"
  /\ labelled' = labelled \cup {run[w].msg}
  /\ EndRun(w, "labelled")
  /\ UNCHANGED <<correlations, uploads, filed, faults>>

LabelFails(w) ==
  /\ run[w].pc = "label"
  /\ Mishap
  /\ EndRun(w, "unlabelled")
  /\ UNCHANGED <<labelled, correlations, uploads, filed>>

(* The process dies and is restarted; sessions are held in memory only.     *)
Crash(w) ==
  /\ run[w].pc # "idle"
  /\ Mishap
  /\ EndRun(w, "killed")
  /\ UNCHANGED <<labelled, correlations, uploads, filed>>
-----------------------------------------------------------------------------
Init ==
  /\ labelled = {}
  /\ sessions = <<>>
  /\ correlations = 0
  /\ uploads = [n \in FileNames |-> 0]
  /\ filed = {}
  /\ run = [w \in Workers |-> NewRun("idle", None, 0)]
  /\ faults = 0

Step(w) ==
  \/ \E e \in Emails : Start(w, e)
  \/ Enter(w) \/ Ingest(w) \/ ShortCircuit(w)
  \/ Submit(w) \/ SubmitRefused(w) \/ Poll(w) \/ GiveUp(w) \/ JobFailed(w)
  \/ Classify(w) \/ Parse(w) \/ Validate(w) \/ Persist(w) \/ Confirm(w)
  \/ Finalize(w) \/ Judge(w) \/ Send(w)
  \/ BodyDone(w) \/ Exit(w) \/ ApplyLabel(w)

Fault(w) ==
  \/ CreateFails(w) \/ PersistFails(w) \/ JudgeUnavailable(w)
  \/ BodyFails(w) \/ LabelFails(w) \/ Crash(w)

Next == \E w \in Workers : Step(w) \/ Fault(w)

Spec == Init /\ [][Next]_vars

(* A worker that can go on does.                                            *)
FairSpec == Spec /\ \A w \in Workers : WF_vars(Step(w))
-----------------------------------------------------------------------------
(* classify_document and parse_document wait no longer than the budget and   *)
(* one call, and a job they give up had not ended when the last call before  *)
(* the deadline was made: no result that was ready in time is thrown away.   *)
PatientPolling ==
  \A w \in Workers :
    LET job == run[w].job
    IN  /\ job.spent <= Budget + MaxCall
        /\ run[w].outcome = "timeout" =>
             /\ job.spent > Budget
             /\ job.end \in Terminal(StageOf(w)) => Slow(job.due)

Past(w, stage) ==
  \E i \in DOMAIN Stages :
    /\ Stages[i] = stage
    /\ run[w].at > i \/ (run[w].at = i /\ run[w].pc = "exit" /\ run[w].outcome = "ok")

Count(seq, Matches(_)) == Cardinality({i \in DOMAIN seq : Matches(seq[i])})

(* Once Parse is through, each attachment of the email is accounted for: it  *)
(* was skipped, by Classify or by Parse, or its orders are in parsed_docs,   *)
(* numbered from 0, read from the bytes of an attachment of its name: its    *)
(* own, if no other has that name.                                          *)
Accounted ==
  \A w \in Workers :
    Past(w, "parse_stage") /\ ~run[w].replied =>
      LET r == run[w]
          Having(name) == Count(r.envelope, LAMBDA a : NameOf[a] = name)
          Skipped(name) == Count(r.skipped, LAMBDA s : s.name = name)
          Parsed(name) == Count(r.parsed, LAMBDA p : p.name = name /\ p.idx = 0)
      IN  /\ \A name \in FileNames : Skipped(name) + Parsed(name) = Having(name)
          /\ \A i \in DOMAIN r.parsed :
               LET p == r.parsed[i]
               IN  /\ p.idx > 0 => r.parsed[i - 1] = [p EXCEPT !.idx = @ - 1]
                   /\ \E j \in DOMAIN r.envelope : /\ p.bytes = r.envelope[j]
                                                 /\ p.name = NameOf[p.bytes]

(* The events AuditedStage itself emits, and those of a stage left by an      *)
(* exception.                                                               *)
Boundary(events) == {i \in DOMAIN events : events[i].phase # "lifecycle"}

FailedExits(events) ==
  {i \in DOMAIN events : events[i].phase = "exited" /\ events[i].outcome # "ok"}

(* The audit trail tells how a run ended: one whose email was labelled left  *)
(* an entered and an exited event of every stage, but for lost ones, and no  *)
(* failed exit, whatever errors Judge and Send told of on the way; one that  *)
(* raised has its one failed exit last, nothing coming after it; one that    *)
(* died, went unlabelled or is under way has none.                          *)
TrailTellsOutcome ==
  \A i \in DOMAIN sessions :
    LET s == sessions[i]
        left == Cardinality(Boundary(s.events))
    IN  /\ s.fate = "labelled" => left <= 2 * Len(Stages) /\ 2 * Len(Stages) <= left + s.lost
        /\ IF s.fate = "raised"
           THEN \/ FailedExits(s.events) = {Len(s.events)}
                \/ s.lost > 0 /\ FailedExits(s.events) = {}
           ELSE FailedExits(s.events) = {}

(* A correlation id stands for one run: no two sessions share one, every     *)
(* event after the envelope carries it and is about the session's message,   *)
(* or, of the lifecycle events, about a record of that message; only Ingest, *)
(* before it or failing, has no id and names nothing.                        *)
CorrelationOfOneRun ==
  \A i \in DOMAIN sessions : \A k \in DOMAIN sessions[i].events :
    LET e == sessions[i].events[k]
    IN  /\ e.corr = 0 => /\ e.msg = None
                         /\ e.stage = "ingest_stage"
                         /\ e.phase = "entered" \/ e.outcome # "ok"
        /\ e.corr # 0 =>
             /\ e.msg \in {sessions[i].msg} \X Nat
             /\ e.phase # "lifecycle" => e.msg = MessageId(sessions[i].msg)
             /\ \A j \in DOMAIN sessions : \A l \in DOMAIN sessions[j].events :
                  sessions[j].events[l].corr = e.corr => i = j

(* Every message is labelled in the end: a job that failed or came too late, *)
(* a refused call or a lost event keeps no retry from getting through.       *)
EveryMailGetsThrough == <>(Emails \subseteq labelled)
=============================================================================
