# Order Intake Agent: TLA+ specifications and proofs

The order intake agent reads purchase orders out of a Gmail inbox, validates them against
master data, files each as an order or as an exception in Firestore, drafts a confirmation or a
clarification, has a language model judge the draft, and mails it. These modules specify what
happens to the records, the label and the mail when workers race, crash, retry and are served
replies out of order; what the validator's arithmetic lets through; what a run extracts from an email
and leaves in the audit trail when jobs are late and calls fail; and how old the master data behind an
order may be.

Paths below are relative to `src/backend/` unless they start with `src/`.

## The system

| Component | State it keeps | Operations | Makes it hard | What makes it correct |
|---|---|---|---|---|
| Gmail ingress: `gmail/poller.py`, `gmail/pubsub_worker.py` | cached label id; list of the current tick; the batch pulled | pull, acknowledge, scan for messages without the label, run the pipeline on each, label it last | several instances at once, at-least-once notifications, failures swallowed per message | a message is labelled only when its run is complete; nothing stays unlabelled for good; a notification is acknowledged only after a scan that covers it |
| Pipeline stages: `my_agent/agent.py`, `my_agent/stages/` | session state of one run: `envelope`, `parsed_docs`, `validation_results`, `clarify_bodies`, `process_results`, `judge_verdicts` | Ingest, ReplyShortCircuit, Classify, Parse, Validate, Clarify, Persist, Confirm, Finalize, Judge, Send | every await is a point where another run moves on; the session holds copies of records; a crash loses the session and keeps the records | no mail unjudged; at most one mail; record and mail agree |
| Coordinator: `persistence/coordinator.py` | none | compose the document id, look in both collections, create one record | check-then-act over two collections | one record per purchase order, in one collection |
| Record stores: `persistence/orders_store.py`, `persistence/exceptions_store.py` | the `orders` and `exceptions` documents | `save` (create or keep), field-mask updates of body, verdict, receipt; `find_pending_clarify`; `update_with_reply` | updates without preconditions, a status guard outside a transaction | first writer wins; status moves forward once; a reply is kept |
| Validator: `tools/order_validator/` | none | resolve the customer, look for a duplicate, match and check lines, aggregate, decide | thresholds, means and penalties at their edges | nothing unmatched, mispriced or uncountable is filed as an order |
| Duplicate check: `tools/order_validator/tools/duplicate_check.py` | none | two queries over `orders`: the number, the content hash | check-then-act, a window of 90 days, self-exclusion by message id, lines and units the hash leaves out | within the window only orders that race can both be filed; what is escalated as a duplicate repeats a number, or skus and quantities |
| Master data: `tools/order_validator/tools/master_data_repo.py`, `src/scripts/load_master_data.py` | collections `products` and `customers`; per process the catalog and the roster, read once and kept | exact read, cached scans, search by embedding; the loader's two commits | a load between two reads of one run; two tasks fill a cache at once; a cache as old as its process | a product snapshot on an order is from its run, its customer from the life of its process; an approved product is never missing |
| Extraction: `tools/document_classifier`, `tools/document_parser`, `stages/ingest.py`, `classify.py`, `parse.py` | a remote LlamaCloud job; `envelope`, `classified_docs`, `skipped_docs`, `parsed_docs` in the session | upload, create, poll, give up; classify or skip; parse or skip | slow, differs from run to run; ids that must be unique; two vocabularies of job status; attachments keyed by file name | a result that was ready in time is not thrown away; every attachment is skipped or parsed |
| Audit trail: `audit/`, `my_agent/stages/_audited.py` | append-only events | `emit`: entered and exited around every stage, in a `finally`, and an event for each envelope, decision, result, draft, verdict, mail and summary | failing writes are swallowed; ids that come into being inside the first stage; errors told of by runs that go on | the trail tells how a run ended, under one id of its own |
| Push server: `server.py` | `_initialized`, `_init_lock` | answer a push, initialise once | concurrent requests in a cold process, 204 or 500 | a 204 only after a scan; one initialisation |
| Sync cursor, watch renewal: `persistence/sync_state_store.py`, `gmail/watch.py` | one document; a Gmail subscription | set the cursor; start, renew | out-of-order pushes, a lapsed watch | the cursor never runs ahead of the work |
| Dashboard: `src/frontend` | none | reads recorded runs | - | - |

Workers share nothing but the two collections and the mailbox. A run talks to the stores through
the coordinator (Persist), directly (ReplyShortCircuit, Confirm, Judge, Send) and to Gmail twice:
`send_message` in the last stage and `apply_label` after it. What is in the session is a copy: in
particular `process_results`, on which Judge and Send decide, is the record as Persist re-read it.

`PROJECT.json` lists the hazards of this code one by one, each at its line, with the properties
that watch it.

## Modules

| Module | Models | State and actions |
|---|---|---|
| `RecordStores` | the two stores | no variables: one operator per Firestore call, on a function from document id to record or `None` |
| `IntakePipeline` | the stages, the coordinator, the workers | see below |
| `OrderDesk` | the abstract promise | `book`, `letters`, `closed`; `Enter`, `Send`, `Close` |
| `SharedDesk` | the abstract promise of several workers | `entered`, `letters`; `Enter`, `Send` |
| `OrderValidation` | one call of `OrderValidator.validate` and what the coordinator builds from it | `pc`, `customer`, `tally`, `decision`; `ResolveCustomer`, `FindDuplicate`, `ValidateLine`, `Route`, `Save` |
| `GmailIngress` | poller, pull worker, push server, watch, cursor, and Gmail's and Pub/Sub's side of them | see below |
| `AuditTrail` | the `audit_log` collection and `AuditLogger.emit` | no variables: the events of a session, kept or lost |
| `Extraction` | one run seen from inside its session: stages entered and left, Ingest, Classify, Parse and their jobs, and the events every stage writes | see below |
| `MasterData` | what the loader stores, and what the repository reads of a version | no variables: versions of two files |
| `OrderFiling` | orders over weeks: customer, duplicate check, matching, price, record, with caches and loads | see below |
| `MCIntakePipeline`, `MCOrderValidation`, `MCGmailIngress`, `MCExtraction`, `MCOrderFiling` | the instances TLC checks | constants only |
| `IntakePipelineProofs`, `OrderValidationProofs`, `GmailIngressProofs`, `ExtractionProofs`, `OrderFilingProofs` | - | the theorems |
| `OneWorkerProofs`, `OrderDeskProofs` | - | the theorems about one worker; that it implements `OrderDesk`, and any number `SharedDesk` |
| `Positions` | - | lemmas on finite sets of positions: the greatest one, the count of two disjoint sets, sequences that name each value equally often |

### `IntakePipeline`

`labelled` is the processed label in the mailbox; `orders`, `exceptions` the collections; `clock`
orders the server timestamps of `exceptions`; `outbox` is the mail Gmail accepted; `sending` is how
`SendStage` is deployed (no client, dry run, live); `today` is the date, which may change between any two
steps (`NextDay`) and stamps orders; `faults` counts crashes and abandoned runs;
`approved` is a history variable, the drafts a judge passed and in which run. `run[w]` is what
worker `w` is doing: its place `pc`, the rest of the list it scanned, and the session of its run.
`run[w].decision`, `results` and `verdicts` are `validation_results`, `process_results` and
`judge_verdicts`.

A step ends at an await that reads or writes what other runs can see. So Persist takes three steps
per entry, as `coordinator.process` does: the preflight read of both collections
(`PersistPreflight`), the create (`CreateOrder`, `CreateException`), and the re-read of `save`
(`Reread`), between any two of which another worker may act. `update_with_reply` takes two, its
guard (`ReplyGuard`) and its write (`ReplyAdvance`). Sending takes two, the call that Gmail accepts
(`SendMail`) and the receipt (`WriteReceipt`), and the answer of the first may be lost. Ingest,
Classify and Parse touch nothing shared and are folded into `Pick` and `Parse`.

`RunFails` is an exception leaving the pipeline at any stage that raises (Send swallows its own),
or a failing label: the message stays unlabelled and the worker goes on with its list. `Crash`
loses the session and the list. Between them they stand for every failure that the code handles by
trying again later; the failures it handles in place, a refused mail, a lost answer, a failed receipt
write, are alternatives of the send actions and cost no fault.

Persist looks the decision about a document up by file name and `sub_doc_index`, Judge its draft, and
Judge and Send its verdict by document id. `SameKey` are the entries that share such a key; the last of
their decisions is the one found (`Validated`), and a draft of any of them (`Drafted`). So attachments
of one name are decided alike, whatever they hold.

What the data is abstracted to: a purchase order is its content as `find_duplicate` tells it apart, of
one customer, and `DuplicateOrder` finds those filed within `Window` days, its cutoff included;
a draft is named by the run that wrote it; a decision is free, except that a purchase order already
on file is escalated; what is extracted from an email is any member of a set fixed for that email,
so that a retry may read it differently.

### `OrderValidation`

Confidences, quantities and prices are in hundredths, so the mean and the penalties are exact:
`Aggregate` is the score times the number of lines. The code computes in floating point, and a
score that equals a threshold may come out on either side of it (`0.95 - 0.15 < 0.80` in IEEE
double precision): at a tie `Decide` allows both decisions. The lines are summed up as they are
validated, since the score and `_build_order_lines` depend on nothing else.

### `GmailIngress`

A notification (`Kick`) names a mailbox history, here the set of messages that had arrived when it
was published. `kicks` is what Pub/Sub holds unacknowledged: a pull (`PullBatch`) or a push
(`PushRequest`) takes a copy, so that the same notification may be in several hands, which is
what an expired acknowledgement deadline and a redelivery come to. `deployment` says what each
receiver is: a poller, a pull worker, a request slot of the one push server, or nothing. `at[r]`
is what receiver `r` is doing: `init` is a request in front of `_ensure_init`, `initing` one inside the
lock, `scan` in front of `list_unprocessed`, `page` in the loop over its answer, `next` a worker
between two notifications of its batch, or a request about to be answered. `KickDone` is
`set_cursor`, the last thing `process_message` does; `Acknowledge` the acknowledgement of a batch or
the 204; `ScanFails`, `InitFails` and `AckLost` the exceptions, with the answer 500 for a push and
the notification left out of `ack_ids` for a pull. `Crash` takes a whole process: for the push server
every request in it.

The pipeline is one step (`Process`) that labels the message or not, as its failures are swallowed.
`tried` remembers what went through it, `crowded` what a full page left out, `acked` which
notifications were acknowledged after a scan. Notifications without data are answered at once
by the server and make the pull worker's `json.loads` raise, so that it never acknowledges them.

This module and `IntakePipeline` meet in the mailbox: `Scan`, `Process` and the label here are
`Scan`, the run from `Pick` on, and `ApplyLabel` there.

### `Extraction`

`run[w]` is the session of the message worker `w` has in hand: `at` is the stage, and `pc` says
whether it is about to be entered, in its body, polling a job, about to leave, or, after the last
stage, about to label. `envelope`, `classified`, `skipped` and `parsed` are the session's lists;
an attachment is a value, and `NameOf` its file name, since `classified_docs` and the dictionary of
bytes in Parse know attachments by name only (`BytesNamed`). `sessions` holds the audit events of
every session, in order, with the number that was lost and, as history, what became of the run.
`uploads` counts the files of each name in the LlamaCloud project, `correlations` the ids drawn.

`Enter` and `Exit` are `AuditedStage` around each body. `Exit` runs whether the body ended or raised
(`outcome`), reads the ids again, emits, and lets the exception go up (`GoesUp`): then the run is
over and the message unlabelled. `Submit` is `classify_document` or `parse_document` up to the
deadline, `Poll` one turn of the loop. Time is counted from the moment the deadline is set; a turn
takes up to `MaxCall` and reads the status somewhere before its end, so that a job may end between the
reading and the look at the clock. The two tools differ in the statuses they take for final
(`Terminal`, `Success`). What a job finds is any of a set per attachment.

The stages after Parse write one event for each document they do not pass over (`Entries`, `Concern`):
`Validate` its decision, `Persist` its result, `Confirm` its draft, `JudgeUnavailable` and `Judge` the
verdict, `Send` the fate of its mail, and `Finalize` one for the run. `Told` are the outcomes: a decision
or a kind of result, ok, skip, and the errors of Judge and Send, which end no run. Send's events name
the record (`<message>#<i>` from the second document on), all others the message. What the stages do to the
stores is `IntakePipeline`; here `filed` says which documents have a record, so that a retry finds
duplicates, and verdicts and sends come out either way.

A slow job, a job that ends badly, a refused or failing call, a rejected draft, a judge that does not
answer, a lost event and a crash each cost a fault.

### `OrderFiling`

The master data are versions: `PriceFiles[v]` and `RosterFiles[v]` are the files of the `v`-th load,
and `Stored` is what the collection then holds, what a file no longer names included, because the
loader only sets. A customer's document is kept under its id, so that a file which renames it, or
gives it other aliases, replaces it. `LoadProducts` and `LoadCustomers` are its two commits. `cache[p]` has for each
process the version its catalog and its roster were read at, 0 for not yet; `born` remembers the
versions when it started. `task[t]` is one run, from `resolve_customer` to the create.

Each await is a step. The caches take two, the read (`ReadRoster`, `ReadCatalog`) and the assignment
after it (`FillRoster`, `FillCatalog`), between which another task of the process may do the same. A
match is exact (read now, under the sku the customer's aliases make of the one it wrote), close (in the
cached catalog) or by embedding (in the collection). The price is
compared with the price of the record that matched, and `BuildLine` reads the product again. `Query` is
either query of `find_duplicate`: any order it returns ends the validation. The order is stamped with
the day it is created on. `ContentHash` takes of a line the sku as written and the quantity, a missing one as
zero, and neither the unit nor a line without a sku.

Left to other modules: several orders of one email and their document ids (`IntakePipeline`), the
arithmetic of the score and the quantities (`OrderValidation`). Here a refusal is always possible, and
approval needs a customer and every line matched at a price that passed, which is what the score
comes to for orders of fewer than twenty lines (`OrderAssumption`).

## Properties

About any number of workers (checked and proved):

- `VerifiedMail`: the body that was mailed is one the judge passed, for that document, in the run
  that mailed it, even when another run's draft is on the record.
- `TruthfulReceipt`: a record with `sent_at` has had its mail accepted.
- `FirstWriterWins`: no step removes a record or changes its origin; `pending_clarify` to
  `awaiting_review` is the only change of status.
- `LabelledIsRecorded`: a message is labelled only by a run that finds all it parsed on record, or
  that advanced the exception its reply belongs to.
- `OneMailEach`: a worker mails about a document once at most, whatever crashed, which answer was lost,
  and whatever is decided the second time. A race repeats a mail; a retry does not.
- `ImplementsSharedDesk`, the refinement of `SharedDesk`, with each entry signed by the run that
  created it and each worker's letters counted by the collection they are about. A worker enters a
  document once and never over an entry, and mails about it once, from a collection it is in. So what
  `RedeliveryRace` loses is bounded: a document is in both books only by two workers, and its copies in
  the outbox are no more than the workers that took it up (theorem `CopiesAreBounded`).
- `ReceiptsLostToRaces` (checked only): `_record_failure` may take `sent_at` off a record, but only in the
  hands of a run that lost a race: another worker has mailed about the document. No retry and no crash
  undoes a receipt.

About the deployment with one worker, through crashes and retries (checked and proved): `OneBook`,
`AtMostOneMail`, `RecordMatchesMail`, `OneOrderPerPO`, `ReplyKept`, `HandledOnce`, and `ImplementsDesk`, the
refinement of `OrderDesk` with the books read off the collections, the letters counted in the outbox
and the label for a closed email. `OneOrderPerPO` is what the window allows: two emails' orders for one
purchase order are more days apart than the window, by the dates they are stamped with. It excepts emails
whose attachments share a name and an index but not their purchase order (`KeysTell`), as the second
one's decision, to approve, would be taken for the first, which is a duplicate. `HandledOnce` (checked
only) says that a message answers one exception or is a request of its own, and is handled once more
for every fault at most: after a crash before the label, the code does handle a reply afresh.

Liveness: `EveryMailLabelled`.

About one run from the inside:

- `PatientPolling` (checked and proved): polling overruns its budget by one call at most, and gives up
  no job that had ended, in a status the tool knows, before its last call was made.
- `Accounted` (checked and proved): after Parse each attachment was skipped once or its orders are in
  `parsed_docs`, numbered from 0, read from the bytes of an attachment of its file name: its own, unless
  another has the name.
- `TrailTellsOutcome` (checked and proved): a labelled message's run left the entered and exited events of
  all stages, but for the lost ones, and no failed exit; a run that raised has its one failed exit last;
  any other has none. Lifecycle events do not count: Judge and Send tell of errors in runs that are
  labelled, so that a reader of the trail must look at the exits.
- `CorrelationOfOneRun` (checked and proved): a correlation id belongs to one run; its events name that
  run's message, or, in lifecycle events, a record of it; only Ingest has events without one.

Liveness: `EveryMailGetsThrough`, no failed job, refused call or lost event keeps a message from being
labelled in the end; a retry uploads under a fresh id.

About the filing of orders over time:

- `OnlyRacesDuplicate` (checked and proved): an order on file when a run began, of the same customer and
  in the window, keeps it from filing another with its number or content. What the duplicate check
  leaves open are runs that overlap.
- `DuplicateIsAlike` (checked and proved): an order is escalated as a duplicate only of another email's order of
  the customer, with its number or, if all lines of both name a sku, as many lines of each sku and
  quantity. Units are not promised: ten boxes count as a repetition of ten pieces.
- `QuotesHonoured` (checked and proved): no filed price is more than 10% off the quoted one, except for a
  product whose own price has changed since the process started. Loads between check and build, and
  caches older than either, do no harm to the others.
- `SnapshotsAreDated` (checked and proved): the prices on an order were in the catalog during its run,
  its customer in the roster during the life of its process. It cannot be said better: the roster is
  read once per process.
- `ProductsStay` (checked and proved): the assertion in `_build_order_lines` holds through any loads.

About the ingress, any mix of receivers (checked and proved):

- `KickCoversBacklog`: when a notification has been acknowledged, every message that had arrived
  when it was published was taken through the pipeline, or left out of a full page. This includes
  messages that have no notification of their own, because the watch had lapsed.
- `CursorTrailsWork`: the stored history id never runs ahead of that work, although it is written
  without a condition and may go back. No code reads it yet; this is what a reader could rely on.
- `InitialisedOnce`: the lock and the second look at `_initialized` do what they are for.
- `NoReprocessing`: a receiver that runs alone has no labelled message left in its page. With two, the
  page goes stale, and the pipeline sees a message again.

Liveness: `MailIsTried`, a message a poller can see or an outstanding notification covers gets its
turn. It promises an attempt and not success: a failing message is swallowed, its notification
acknowledged, and in push and pull mode only another notification brings it up again.

About the validator (checked and proved): `FailedChecksDecide`, `FewMisses`, `SavedOrderIsSound`.

## Runs

| Run | Instance | Shows |
|---|---|---|
| `IntakeOneWorker` | 1 worker, an email of 2 sub-documents (two orders, or one twice under one key) and a reply in its thread which may repeat its first order, both with an In-Reply-To header, 2 days and a window of 0, all three send modes, 1 fault | the one-worker properties, a recorded reply is kept, and the refinement |
| `IntakeTwoWorkers` | 2 workers, 1 email that is a reply in a thread of its own, 2 faults, live, fairness | the properties that survive the races, `SharedDesk` included; every message is labelled |
| `ExtractionRuns` | 1 worker, an email of 2 attachments of one file name, which may be a reply, and one of a body only, 11 stages, 3 runs, 1 fault, fairness | nothing extracted is lost, the audit trail is true, every message gets through |
| `OrderFilingWeeks` | 3 orders of one customer (two share a number, two their content in other units) and one of nobody for nothing known, 3 days, a window of 1, 2 tasks of one process, 3 runs, 1 restart, 1 reload that renames a customer and brings aliases | what the duplicate check promises, how old an order's data may be |
| `ValidatorRouting` | orders of up to 21 lines, up to 3 failed checks, scores and amounts at the thresholds | routing and what is saved |
| `IngressDelivery` | 2 messages, a pull worker and a poller, two push requests, or one receiver alone; 1 message a page, 1 fault, fairness | what acknowledgement and cursor vouch for; initialisation; every message gets its turn |
| `RedeliveryRace` | 2 workers, 1 email, no fault | `AtMostOneMail` fails: the same email is mailed by both |
| `FailedSend` | 1 worker, no crash | `FailedSendRetried` fails: a failed send is labelled |
| `CrashBeforeConfirm` | 1 worker, 1 fault | `DuplicateWasConfirmed` fails |
| `ReplyRace` | 2 workers, 2 replies | `ReplyKept` fails |
| `TwoAttachments` | 1 email, two entries of index 0 | `EveryOrderFiled` fails |
| `UnmatchedLine` | as `ValidatorRouting` | `UnmatchedNotApproved` fails at 20 lines |

The last six rows check what the documentation or a comment says against what the code does; the
quotations are in `PROJECT.json` under `findings`.

**Bounds.** `MaxFaults` bounds crashes and abandoned runs together. One fault separates every pair of
consecutive steps, and after it the run is repeated whole; with two workers two faults let each of
them lose a run at any place, or one of them twice. The message of `IntakeTwoWorkers` carries an
In-Reply-To header and starts its own thread, so that both kinds of run, as an order and as the answer
to a pending exception, race on it. The emails, threads and sub-documents are the
fewest in which one document can interfere with another: two documents of one email (preflight,
self-exclusion, newest pending exception), two emails with the same content (`find_duplicate`), two
replies in one thread. The two race runs use symmetry in the workers and `OrderFilingWeeks` in the
tasks, which no property or definition names; no liveness run does. In
`OrderValidation`, `MaxLines` is 21 because a miss can be diluted from 20 lines on, and
`MaxFailures` is 3 because two failed checks already decide; price quotes are the edges of the
band around a catalog price and their neighbours. `Crash`, `RunFails` and the end of all work let
the system stop, so deadlock is not checked: a run in which every message is labelled has nothing to
do.

In `IngressDelivery` a page of one message out of two is full as soon as there is a backlog, and a
batch of two holds a readable notification and another; two requests are enough to meet in a cold
server. The watch may lapse and be renewed any number of times, and costs no fault.

In `IntakeOneWorker` a window of no days and one midnight put an order in the window, on its edge and past
it. In `ExtractionRuns` what is parsed may hold no orders or two, so that the second has a record id of its
own; a budget of 1 and calls of up to 2 let a job end before, at and after the deadline and within the last
call; three runs are two emails and the retry after the fault. In `OrderFilingWeeks` a sku gets dearer
and another is dropped from the second file, where a customer is renamed and its old name is another
one's, which means the dearer sku by the dropped one; three days make an order older than the window.
The properties relate two orders; the third run is a retry, or fills a cache in between.

**Fairness.** `FairSpec` adds weak fairness of `Step(w)` for every worker, never of a fault. It is
what `GmailPoller.run_forever` does: it ticks, sleeps thirty seconds and ticks again, whatever the
tick raised, and a tick takes its messages in turn. Within a run every await ends: Gmail and Firestore
calls carry the client's deadlines, LlamaCloud polling gives up at its own. The push and pull
workers scan only when a notification arrives. For them `GmailIngress` has its own `FairSpec`: weak fairness
of what a receiver does by itself, and strong fairness of the delivery of each notification with a
history, since Pub/Sub delivers again what is not acknowledged, for as long as it is (its retention
of seven days is not modelled) and a receiver may be busy in between. Nothing makes mail arrive, the
watch be renewed, or a message that failed succeed. `Extraction` has weak fairness of `Step(w)` for each
worker, which starts another run of an unlabelled message as the poller's next tick does; a call that
fails, an event that is lost and a crash are never required. `OrderFiling` has no liveness property:
its tasks end by themselves, and nothing obliges an email to arrive.

**Why `EveryMailLabelled` is not trivial.** A reply that finds its exception advanced between query and
guard raises and is left in the inbox. It gets through because the next run's query no longer
returns that exception; a query that did would bring the message back forever.

## Proofs

`tlapm` checks the proof modules from the following assumptions on the constants, and nothing
else: `NoneIsFresh` (an absent value is no worker, email, document or record),
`IndicesAreNaturals`, `EmailAssumptions` (replies are emails, threads are emails, extraction
returns sequences of entries), `SendAssumption`, `DayAssumption`, `FaultBound`, and for the validator `Bounds`,
`ScoreRange` and `Amounts`, and for the ingress `DeploymentAssumption`, `ServerAssumption`,
`PageAssumption`, `FaultBound` and `NoneIsFresh`; for the extraction `StageAssumption`,
`NoneAssumption`, `MailAssumptions`, `ServiceAssumptions`, `IngestFirst`, `StageOrder` (Classify comes
before Parse, once each) and `BoundAssumptions`; for
the filing `FileAssumptions`, `TaskAssumption`, `OrderAssumption` and `FilingBounds`. TLC evaluates
all of them in the runs. The sets of workers, emails, attachments, tasks and sub-documents are
arbitrary.

None of the invariants is inductive by itself, not even `TypeOK`: that an update hits a record,
and that `results[pos]` exists, depends on how the stages follow one another. The theorems rest on
the inductive invariant `IInv`: `TypeOK`, `VerifiedMail`, `TruthfulReceipt`, and of every worker

- `Aligned`: how far `decision` and `results` reach at each stage, so that the element at a
  position belongs to the entry at that position, and that there are no verdicts before Judge;
- `NoTwin`: of the entries of one document only the first has a result other than "duplicate".
  Verdicts are kept per document, so that a second entry of the document could be mailed on the
  verdict of the first; it is not, because the first one's record is on file when the second is
  looked up;
- `Backed`: every result names a record that exists (its collection, if it is no duplicate), and the
  exception a reply was matched to is pending until the reply has been written, or was answered by
  another worker;
- `Cleared`: where a run has a "pass", the judge passed the very body its result holds, in this run and
  for this document. It rests on `NoTwin`, and on Confirm being over when Judge begins;
- `Posted`: between `SendMail` and `WriteReceipt` the mail of the entry is in the outbox.

The steps of the other workers disturb none of this (lemma `Frame`) because records, passed drafts and
mail are never taken back (`Grows`). There is one lemma per action; those that touch nothing
shared go through `QuietPreserves`, the others through `StepPreserves`.

`VerifiedMail` follows from `Cleared` at `SendMail`; `TruthfulReceipt` from `Posted` at
`WriteReceipt`, since `RecordFailure` only takes `sent_at` away. `FirstWriterWins` is a fact
about each operator of `RecordStores` under `IInv` (`KeepsRecords`), the delicate one being `ReplyAdvance`,
whose record may not be pending any more. `LabelledIsRecorded` is `Aligned` and `Backed` at
`ApplyLabel`, the only step that labels.

The validator's theorems use linear arithmetic on `Tally`: the mean is at most 100, so one penalty
leaves at most 85 and two at most 70. `PenaltyDecides` states it once; the rest is a case split on
the actions.

The ingress invariant adds to the properties `InHand`: a notification in hand names only mail that has
arrived; once its page was read, what it names was dealt with or is on the page; what awaits
acknowledgement was dealt with. The step that carries it is `ScanStep`: what the query leaves out is
labelled, hence tried, and what the page leaves out is crowded. `Off` says that an absent receiver
does nothing, which `NoReprocessing` needs. `StepPreserves` and `QuietPreserves` reduce each action to
what it does to its own receiver.

The invariant of `Extraction` is about the events of each session: how many entered and exited events there
are, kept or lost, at each place of its run (`Due`, `OwnSession`), that none before the last is a failed exit
(`Tells`), that they carry the session's id once it is drawn (`NamedEvents`), and that no two sessions
share one (`UniqueEvents`, `OwnCorrelation`, `Apart`). An event of a stage after Parse is of the lifecycle,
under the run's id, about a record of its message (`LateFormed`); `LateStep` shows once that such an
event disturbs none of this, whatever outcome it tells, since it adds no position to `Boundary`.
`PatientPolling` adds what a job's last
reading means (`JobInv`): the time of the reading is less than one call before the time spent, and the
status read was the status then. `StageOf` being Ingest exactly at the first stage (`IngestFirst`)
is what ties "no id yet" to a place of the run.

`Accounted` is an equation between four counts, kept by every step for every file name (`DocCount`): of
the attachments Classify has passed, those skipped, those with orders and those still waiting for Parse
are as many as were passed. `Through` says how far the two loops are at each place of a run,
and nothing is counted before Classify (`StageOrder`). A turn of Classify adds one on each side; a turn of
Parse moves one from waiting to skipped or to the orders, where only the first order of an attachment
counts (`ParseCounts`). The counts are cardinalities of sets of positions, never recursive sums, so
that `DisjointCount` is all the arithmetic they need. `Numbered` is the other half.

The invariant of `OrderFiling` carries, for each task, from where each thing it holds was read:
`ReadInv` and `CustomerInv` (the roster, since the process started), `MatchInv` (a price that passed,
since the process started), `BuiltInv` (the snapshots, since the run began) and `QueriesInv`: once a
query is behind it, no order it has known of, of its customer and still in the window, has its number,
or its content. Days only make the window slide forward, orders are only added, and none is added
that the run had known: lemma `TaskInvStays` says once that the rest of the world disturbs none of it.
`FilingStep` shows that only an order's own task files it, and the three action properties are then the
conjuncts of that invariant at `CreateOrder`. `ProductsStay` rests on `GetProductType`: what was in
the catalog at one version is there at every later one. It needs the greatest version that names a
sku to exist, which `Positions` proves by well-founded descent. `DuplicateIsAlike` adds `FoundInv`, that the order
found is on file with the number or the content of the one in hand. The content is the bag of the
lines that name a sku, and the theorem is that equal bags mean equally many of each good: `SameFibres`
shows that two finite sets of positions are as large when each value is taken equally often on both,
hence the same number of lines, none of them unnamed. `QuotesHonoured` follows from where the price of a
match was read and where that of the snapshot: both are versions since the process started.

The theorems of `OneWorkerProofs` and the first of `OrderDeskProofs` have one more assumption, in their statements:
`Alone`, that any two workers are the same. `RedeliveryRace` and `ReplyRace` show what is lost without
it. They rest on `SInv`, which adds to `IInv` what nobody else changes while a run lasts:

- `Untouched`: the message in hand is not labelled, and is not on the list any more;
- `Unfiled`: what the preflight found absent is absent at the create, in both collections;
- `OwnPO`: where a decision is to approve, an order of another email with the number of the entry is older
  than the window, although `find_duplicate` looked many awaits, or days, ago: orders only get
  older. `KeysTell` then carries it from the entry that was decided to the one the decision is taken for;
- `Unmailed`: nothing was mailed about a document whose turn in Send is to come. It rests on the
  preflight, as a document mailed in an earlier run is on record and so a "duplicate" in this one, and on
  `NoTwin` for two entries of one document;
- `Copied`: the copy of a record in the session has the record's body, and a "pass" in the session is on
  the record, so that what is mailed is what the record says;
- `Waiting`: an exception that passed the status guard is pending still when its reply is written;

and `Books`, the properties themselves, with `OneLetter` (one mail per document, whichever collection
names it) and `Unanswered` (a pending exception has no reply yet). There is one lemma per action again;
what a write to a record does to the books is said once, in `AmendKeepsBooks`. For the refinement
`CreateOrder` and `CreateException` map to `Enter` (by `Unfiled` and `Untouched`), `SendMail` to `Send` (by
`Unmailed`), `ApplyLabel` to `Close`, and all other steps, faults included, to stutters:
an amended record was on file and stays there (`AmendedStaysFiled`).

The theorems of `OrderDeskProofs` about any number of workers rest on `MInv` instead, `IInv` with
`OneMailEach` and

- `MailIsFiled`: what was mailed about is on record, in one collection or the other;
- `Undone`: of the documents of its run, a worker has created none of those it is about to create and
  mailed about none whose turn in Send is to come. The preflight establishes it, from `MailIsFiled`; unlike
  `Unfiled`, it is kept when others act, because what they do is signed by them (`Authored`, `MailsOnly`;
  lemma `OthersUndone`).

A create maps to `Enter`, by `Undone`, or to a stutter, when another worker's record is there and `save`
keeps it; `SendMail` maps to `Send`; no other step changes what is filed or mails (`SameFiled`).

Every invariant and every action property a passing run checks is thus also proved, but for `HandledOnce`
and `ReceiptsLostToRaces`, and so are the refinements of `OrderDesk` and `SharedDesk`. Only model-checked:
these two; the liveness properties `EveryMailLabelled`, `EveryMailGetsThrough` and `MailIsTried`, which rest
on fairness and ENABLED, beyond the prover; and the findings, each a counterexample of one run.

## Where the code and its words differ

Beyond the findings that a run shows, the modules state what the code does where a text says otherwise:

- `my_agent/README.md:117` speaks of "one `correlation_id` per Gmail message". Ingest draws one per run
  (`ingest.py:91`), so a retried message has several; `CorrelationOfOneRun` is about runs.
- `classifier.py:148` and `parser.py:139` call `timeout_s` the "wall-clock budget for the whole submit +
  poll cycle". The deadline is set after the job was created, so upload and create do not count, and
  the last sleep and call may exceed it; `PatientPolling` is about what is left.
- `parse.py:3` promises a result "for every purchase-order attachment". Of attachments with one file
  name only the last one's bytes are parsed; `Accounted` says no more than that the bytes are of that name.
- `order_record.py:40` calls the customer on an order a "frozen copy of the customer as it existed when
  the order was written". It is the one of the cached roster; `SnapshotsAreDated` says how old.
- `duplicate_check.py:30` says lines without a sku are skipped as they "would otherwise collapse all
  degenerate orders to the same hash". Orders that name no sku at all do hash the same.
- `duplicate_check.py:4` escalates "when the same basket (by PO# OR content hash)" has landed. The hash
  leaves the unit of measure out, so that ten boxes are taken for ten pieces; `DuplicateIsAlike`
  promises skus and quantities only.
- `my_agent/README.md:333` says "Payloads are SHA-256-suffixed so re-uploads are idempotent". The code draws
  a `uuid4`, and must: LlamaCloud would refuse the upload of a retry under the suffix of the first
  (`HashSuffix`, the mutant of `EveryMailGetsThrough`).
- `audit/models.py:24` calls a field `source_message_id`; in the events of `SendStage` it holds the id of
  the record, which from the second document of an email on is not the message's. A query of the trail by
  message id misses those events, one by correlation id does not.
- `persist.py:150` speaks of one precomputed validation "per sub-doc", keyed by file name and index "to
  match parsed_docs". Entries that share a key share the last one's decision, which is what `Validated` says.
- `parser.py:40` leaves out statuses that the comment in `classifier.py:43` wants treated as final, so
  that a job ending in one is reported as a timeout.

## Not modelled

Prompts and the wording of drafts, MIME and base64, document formats, credentials, logging and the
exception classes, Firestore's and Gmail's own internals, the inside of a LlamaCloud job, the dashboard,
and the scripts but for the loader. The action names and payloads of audit events. `get_products`,
`get_customer` and `get_meta` of the repository, and the meta document of the loader, have no caller or no
reader. Numbers of orders per email in `OrderFiling` are one; a list of unprocessed
messages that goes stale is in `IntakePipeline` and `GmailIngress`, not in `Extraction`. The reasons,
component by component, are in `PROJECT.json`.

## Plan

1. Done: `RecordStores`, `IntakePipeline`, `OrderDesk`, `OrderValidation`, their runs and the theorems above.
2. Done: `GmailIngress`, its run and theorems. Open: a run in which `Process` is the pipeline itself.
3. Done: `MasterData` and `OrderFiling`, the window, the hash, caches and loads, and their theorems.
4. Done: `AuditTrail` and `Extraction`, jobs, attachments, events, and their theorems.
5. Done: the theorems for one worker, and that `IntakePipeline` implements `OrderDesk`.
6. Done: what any number of workers still promise, `SharedDesk`, and that `IntakePipeline` implements it.
