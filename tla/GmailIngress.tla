---------------------------- MODULE GmailIngress ----------------------------
(***************************************************************************)
(* How mail reaches the intake pipeline: a Gmail watch publishes a         *)
(* notification when the mailbox changes, Pub/Sub delivers it at least     *)
(* once to a pull worker or to the push server, and each delivery is a     *)
(* kick to scan the mailbox for messages without the processed label.  A   *)
(* poller scans on a timer instead.  What the pipeline does with a message *)
(* is the module IntakePipeline; here it is one step that labels the       *)
(* message or fails.                                                       *)
(***************************************************************************)
EXTENDS Naturals, FiniteSets

CONSTANTS
  Emails,       \* messages that may arrive in the inbox
  Receivers,    \* pollers, pull workers, and request slots of the push server
  Deployments,  \* what each receiver may be: "poll", "pull", "push" or "off"
  PageSize,     \* max_results of list_unprocessed
  MaxMessages,  \* max_messages_per_pull
  MaxFaults,    \* bound on crashes and failing calls
  None

ASSUME DeploymentAssumption ==
  Deployments \subseteq [Receivers -> {"poll", "pull", "push", "off"}]

ASSUME ServerAssumption == "server" \notin Receivers

ASSUME PageAssumption == PageSize \in Nat \ {0} /\ MaxMessages \in Nat \ {0}

ASSUME FaultBound == MaxFaults \in Nat

VARIABLES
  deployment,  \* the mode of each receiver
  inbox,       \* messages that have arrived
  labelled,    \* messages with the processed label
  watching,    \* whether the Gmail watch is alive
  kicks,       \* notifications Pub/Sub has not seen acknowledged
  cursor,      \* gmail_sync_state: the mailbox history it names
  ready,       \* processes whose user email and label id are resolved
  at,          \* what each receiver is doing
  faults,      \* crashes and failing calls so far
  acked,       \* history: the notifications acknowledged after a scan
  tried,       \* history: messages taken through the pipeline
  crowded      \* history: messages that a full page left out

vars == <<deployment, inbox, labelled, watching, kicks, cursor, ready, at, faults,
          acked, tried, crowded>>

mailbox == <<inbox, watching>>

histories == <<acked, tried, crowded>>

(* A notification names a history id, which stands for the messages that    *)
(* had arrived when it was published; its data may be empty.                *)
Kick == [history: SUBSET Emails, data: {"json", "empty"}]

ASSUME NoneIsFresh == None \notin Kick

(* Mutant: the data is not parsed.                                          *)
ReadableAlways(k) == TRUE

(* json.loads of the data: it raises on an empty notification.              *)
Readable(k) == k.data = "json"

Readables == {k \in Kick : k.data = "json"}

(* next is the rest of a pulled batch, handled its acknowledgements so far. *)
Activity ==
  [pc: {"idle", "init", "initing", "next", "scan", "page"},
   next: SUBSET Kick, handled: SUBSET Readables, kick: Readables \cup {None},
   page: SUBSET Emails]

Idle == [pc |-> "idle", next |-> {}, handled |-> {}, kick |-> None, page |-> {}]

Processes == Receivers \cup {"server"}

(* Pollers and pull workers are processes of their own; all push requests   *)
(* run in the one server process.                                           *)
Host(r) == IF deployment[r] = "push" THEN "server" ELSE r

TypeOK ==
  /\ deployment \in Deployments
  /\ inbox \subseteq Emails
  /\ labelled \subseteq Emails
  /\ watching \in BOOLEAN
  /\ kicks \subseteq Kick
  /\ cursor \subseteq Emails
  /\ ready \subseteq Processes
  /\ at \in [Receivers -> Activity]
  /\ faults \in 0..MaxFaults
  /\ acked \subseteq Readables
  /\ tried \subseteq Emails
  /\ crowded \subseteq Emails

Init ==
  /\ deployment \in Deployments
  /\ inbox = {}
  /\ labelled = {}
  /\ watching = FALSE
  /\ kicks = {}
  /\ cursor = {}
  /\ ready = {}
  /\ at = [r \in Receivers |-> Idle]
  /\ faults = 0
  /\ acked = {}
  /\ tried = {}
  /\ crowded = {}

Fault == faults < MaxFaults /\ faults' = faults + 1

(* Receiver r goes on as activity a.                                        *)
Goes(r, a) == at' = [at EXCEPT ![r] = a]
-----------------------------------------------------------------------------
(* Gmail and Pub/Sub.                                                       *)

Published(history, data) == [history |-> history, data |-> data]

(* A message arrives; a living watch publishes a notification of it.        *)
Arrive(e) ==
  /\ e \notin inbox
  /\ inbox' = inbox \cup {e}
  /\ kicks' = IF watching THEN kicks \cup {Published(inbox', "json")} ELSE kicks
  /\ UNCHANGED <<deployment, labelled, watching, cursor, ready, at, faults, histories>>

(* "Empty Gmail history notifications happen": they name no history.         *)
EmptyNotice ==
  /\ watching
  /\ kicks' = kicks \cup {Published({}, "empty")}
  /\ UNCHANGED <<deployment, mailbox, labelled, cursor, ready, at, faults, histories>>

(* The watch expires: its renewal failed or was not run for seven days.     *)
WatchLapses ==
  /\ watching
  /\ watching' = FALSE
  /\ UNCHANGED <<deployment, inbox, labelled, kicks, cursor, ready, at, faults, histories>>

(* The renewal loop of a pull worker that is up, or the job beside the push *)
(* server, asserts the watch again.                                         *)
WatchRenewed ==
  /\ ~watching
  /\ \E r \in Receivers : \/ deployment[r] = "push"
                          \/ deployment[r] = "pull" /\ r \in ready
  /\ watching' = TRUE
  /\ UNCHANGED <<deployment, inbox, labelled, kicks, cursor, ready, at, faults, histories>>
-----------------------------------------------------------------------------
(* What sets a receiver off.                                                *)

(* A tick of the poller: the label id is resolved once, then it scans.      *)
Tick(r) ==
  /\ deployment[r] = "poll"
  /\ at[r].pc = "idle"
  /\ Goes(r, [Idle EXCEPT !.pc = IF r \in ready THEN "scan" ELSE "initing"])
  /\ UNCHANGED <<deployment, mailbox, labelled, kicks, cursor, ready, faults, histories>>

(* A pull worker that was started, or started again.                        *)
StartPull(r) ==
  /\ deployment[r] = "pull"
  /\ at[r].pc = "idle" /\ r \notin ready
  /\ Goes(r, [Idle EXCEPT !.pc = "initing"])
  /\ UNCHANGED <<deployment, mailbox, labelled, kicks, cursor, ready, faults, histories>>

(* Some notifications, never all for certain, in one pull.  They stay       *)
(* outstanding, so that another pull may see them too.                      *)
PullBatch(r, batch) ==
  /\ deployment[r] = "pull"
  /\ at[r].pc = "idle" /\ r \in ready
  /\ batch # {} /\ Cardinality(batch) <= MaxMessages
  /\ Goes(r, [Idle EXCEPT !.pc = "next", !.next = batch])
  /\ UNCHANGED <<deployment, mailbox, labelled, kicks, cursor, ready, faults, histories>>

(* A push request; no data is answered 204 at once.                         *)
PushRequest(r, k) ==
  /\ deployment[r] = "push"
  /\ at[r].pc = "idle"
  /\ IF k.data = "empty"
     THEN kicks' = kicks \ {k} /\ UNCHANGED at
     ELSE Goes(r, [Idle EXCEPT !.pc = "init", !.kick = k]) /\ UNCHANGED kicks
  /\ UNCHANGED <<deployment, mailbox, labelled, cursor, ready, faults, histories>>

(* Mutant: the ack id is collected before the notification is handled.      *)
NextKickAckFirst(r, k) ==
  /\ at[r].pc = "next"
  /\ Goes(r, IF Readable(k)
             THEN [at[r] EXCEPT !.next = @ \ {k}, !.pc = "scan", !.kick = k,
                                !.handled = @ \cup {k}]
             ELSE [at[r] EXCEPT !.next = @ \ {k}])
  /\ UNCHANGED <<deployment, mailbox, labelled, kicks, cursor, ready, faults, histories>>

(* The next notification of a batch; one that cannot be read raises, and is *)
(* skipped and not acknowledged.                                            *)
NextKick(r, k) ==
  /\ at[r].pc = "next"
  /\ Goes(r, IF Readable(k)
             THEN [at[r] EXCEPT !.next = @ \ {k}, !.pc = "scan", !.kick = k]
             ELSE [at[r] EXCEPT !.next = @ \ {k}])
  /\ UNCHANGED <<deployment, mailbox, labelled, kicks, cursor, ready, faults, histories>>
-----------------------------------------------------------------------------
(* Initialisation.                                                          *)

(* Mutant: no lock.                                                         *)
LockAlwaysFree(r) == TRUE

(* _init_lock: one request of a process is inside at a time.                *)
LockFree(r) == \A q \in Receivers : Host(q) = Host(r) => at[q].pc # "initing"

(* A push request passes, or takes the lock and looks again.                *)
EnsureInit(r) ==
  /\ at[r].pc = "init"
  /\ Host(r) \in ready \/ LockFree(r)
  /\ Goes(r, [at[r] EXCEPT !.pc = IF Host(r) \in ready THEN "scan" ELSE "initing"])
  /\ UNCHANGED <<deployment, mailbox, labelled, kicks, cursor, ready, faults, histories>>

(* Profile and label are resolved; a pull worker also starts the watch.     *)
InitDone(r) ==
  /\ at[r].pc = "initing"
  /\ ready' = ready \cup {Host(r)}
  /\ watching' = (watching \/ deployment[r] = "pull")
  /\ Goes(r, [at[r] EXCEPT !.pc = IF deployment[r] = "pull" THEN "idle" ELSE "scan"])
  /\ UNCHANGED <<deployment, inbox, labelled, kicks, cursor, faults, histories>>

(* A call of the initialisation raises: the tick fails, the worker exits,   *)
(* the request is answered 500.                                             *)
InitFails(r) ==
  /\ at[r].pc = "initing"
  /\ Fault
  /\ Goes(r, Idle)
  /\ UNCHANGED <<deployment, mailbox, labelled, kicks, cursor, ready, histories>>
-----------------------------------------------------------------------------
(* A scan.                                                                  *)

(* Mutant: the query leaves the label out.                                  *)
UnprocessedOrNot == inbox

(* list_unprocessed asks for what the label does not cover.                 *)
Unprocessed == inbox \ labelled

(* One page of the answer: everything, or as much as a page holds.          *)
Pages == {page \in SUBSET Unprocessed :
            /\ Cardinality(page) <= PageSize
            /\ page = Unprocessed \/ Cardinality(page) = PageSize}

Scan(r) ==
  /\ at[r].pc = "scan"
  /\ \E page \in Pages :
       /\ Goes(r, [at[r] EXCEPT !.pc = "page", !.page = page])
       /\ crowded' = crowded \cup (Unprocessed \ page)
  /\ UNCHANGED <<deployment, mailbox, labelled, kicks, cursor, ready, faults, acked, tried>>

(* A message of the page goes through the pipeline and is labelled; an      *)
(* exception anywhere is logged and swallowed, and the message left as is.  *)
Process(r, e) ==
  /\ at[r].pc = "page"
  /\ tried' = tried \cup {e}
  /\ labelled' \in {labelled, labelled \cup {e}}
  /\ Goes(r, [at[r] EXCEPT !.page = @ \ {e}])
  /\ UNCHANGED <<deployment, mailbox, kicks, cursor, ready, faults, acked, crowded>>

(* The poller's tick is over.                                               *)
TickDone(r) ==
  /\ deployment[r] = "poll"
  /\ at[r].pc = "page" /\ at[r].page = {}
  /\ Goes(r, Idle)
  /\ UNCHANGED <<deployment, mailbox, labelled, kicks, cursor, ready, faults, histories>>

(* Mutant: the pipeline runs are started and not awaited.                   *)
KickDoneAtOnce(r) ==
  /\ deployment[r] # "poll"
  /\ at[r].pc = "page"
  /\ cursor' = at[r].kick.history
  /\ Goes(r, [at[r] EXCEPT !.pc = "next", !.kick = None, !.handled = @ \cup {at[r].kick}])
  /\ UNCHANGED <<deployment, mailbox, labelled, kicks, ready, faults, histories>>

(* The page is done; the notification's history id is stored, whatever was  *)
(* there before.  A pull worker acknowledges later, with the batch; a push  *)
(* request goes on to its answer.                                           *)
KickDone(r) ==
  /\ deployment[r] # "poll"
  /\ at[r].pc = "page" /\ at[r].page = {}
  /\ cursor' = at[r].kick.history
  /\ Goes(r, [at[r] EXCEPT !.pc = "next", !.kick = None, !.handled = @ \cup {at[r].kick}])
  /\ UNCHANGED <<deployment, mailbox, labelled, kicks, ready, faults, histories>>

(* Mutant: a failing push request is answered 204.                          *)
ScanFailsSilently(r) ==
  /\ \/ at[r].pc = "scan"
     \/ at[r].pc = "page" /\ at[r].page = {} /\ deployment[r] # "poll"
  /\ Fault
  /\ kicks' = IF deployment[r] = "push" THEN kicks \ {at[r].kick} ELSE kicks
  /\ Goes(r, IF deployment[r] = "pull"
             THEN [at[r] EXCEPT !.pc = "next", !.kick = None]
             ELSE Idle)
  /\ UNCHANGED <<deployment, mailbox, labelled, cursor, ready, histories>>

(* list_unprocessed or set_cursor raises: a tick is over, a push answered   *)
(* 500, a pulled notification left out of the acknowledgement.              *)
ScanFails(r) ==
  /\ \/ at[r].pc = "scan"
     \/ at[r].pc = "page" /\ at[r].page = {} /\ deployment[r] # "poll"
  /\ Fault
  /\ Goes(r, IF deployment[r] = "pull"
             THEN [at[r] EXCEPT !.pc = "next", !.kick = None]
             ELSE Idle)
  /\ UNCHANGED <<deployment, mailbox, labelled, kicks, cursor, ready, histories>>

(* The acknowledgement of a batch, or the 204 of a push.                    *)
Acknowledge(r) ==
  /\ at[r].pc = "next" /\ at[r].next = {}
  /\ kicks' = kicks \ at[r].handled
  /\ acked' = acked \cup at[r].handled
  /\ Goes(r, Idle)
  /\ UNCHANGED <<deployment, mailbox, labelled, cursor, ready, faults, tried, crowded>>

(* The acknowledgement is lost or comes after its deadline.                 *)
AckLost(r) ==
  /\ at[r].pc = "next" /\ at[r].next = {} /\ at[r].handled # {}
  /\ Fault
  /\ Goes(r, Idle)
  /\ UNCHANGED <<deployment, mailbox, labelled, kicks, cursor, ready, histories>>

(* A process dies with every request it was serving.                        *)
Crash(h) ==
  /\ \E r \in Receivers : Host(r) = h /\ (at[r] # Idle \/ h \in ready)
  /\ Fault
  /\ ready' = ready \ {h}
  /\ at' = [r \in Receivers |-> IF Host(r) = h THEN Idle ELSE at[r]]
  /\ UNCHANGED <<deployment, mailbox, labelled, kicks, cursor, histories>>
-----------------------------------------------------------------------------
(* A step a running receiver takes by itself.                               *)
Step(r) ==
  \/ Tick(r)
  \/ StartPull(r)
  \/ \E k \in at[r].next : NextKick(r, k)
  \/ EnsureInit(r)
  \/ InitDone(r)
  \/ Scan(r)
  \/ \E e \in at[r].page : Process(r, e)
  \/ TickDone(r)
  \/ KickDone(r)
  \/ Acknowledge(r)

(* Pub/Sub hands notification k to receiver r.                              *)
Deliver(r, k) ==
  \/ \E batch \in SUBSET kicks : k \in batch /\ PullBatch(r, batch)
  \/ PushRequest(r, k)

Next ==
  \/ \E e \in Emails : Arrive(e)
  \/ EmptyNotice
  \/ WatchLapses
  \/ WatchRenewed
  \/ \E r \in Receivers :
       \/ Step(r)
       \/ \E k \in kicks : Deliver(r, k)
       \/ InitFails(r) \/ ScanFails(r) \/ AckLost(r)
  \/ \E h \in Processes : Crash(h)

Spec == Init /\ [][Next]_vars

(* Receivers run on, and Pub/Sub delivers what is not acknowledged again    *)
(* and again.  Nothing makes the watch be renewed or mail arrive.           *)
FairSpec ==
  /\ Spec
  /\ \A r \in Receivers : WF_vars(Step(r))
  /\ \A history \in SUBSET Emails :
       SF_vars(/\ Published(history, "json") \in kicks
               /\ \E r \in Receivers : Deliver(r, Published(history, "json")))
-----------------------------------------------------------------------------
(* process_message, the answer 204: a notification is acknowledged only when *)
(* every message that had arrived by then, one that no notification of its   *)
(* own survived for included, was taken through the pipeline or left out of  *)
(* a full page.                                                              *)
KickCoversBacklog ==
  \A k \in acked : k.history \subseteq tried \cup crowded

(* set_cursor: the stored history id never runs ahead of the work, whatever *)
(* the order in which notifications are handled.                            *)
CursorTrailsWork == cursor \subseteq tried \cup crowded

(* _ensure_init: requests that meet in a cold server initialise it one at a *)
(* time, and never again once it is initialised.                            *)
InitialisedOnce ==
  \A r \in Receivers : at[r].pc = "initing" =>
    /\ Host(r) \notin ready
    /\ \A q \in Receivers \ {r} : Host(q) = Host(r) => at[q].pc # "initing"

Sole(r) == \A q \in Receivers \ {r} : deployment[q] = "off"

(* "Dedup filter is always appended so the override can't cause              *)
(* re-processing of already-handled mail": where one receiver runs, no       *)
(* message is waiting in its page that has the label already.                *)
NoReprocessing == \A r \in Receivers : Sole(r) => at[r].page \cap labelled = {}

Polled == \E r \in Receivers : deployment[r] = "poll"

Notified(e) == \E k \in kicks : k.data = "json" /\ e \in k.history

(* Mail that a poller can see, or that an outstanding notification covers,   *)
(* is taken through the pipeline in the end, unless a full page left it out. *)
MailIsTried ==
  \A e \in Emails :
    (e \in inbox /\ (Polled \/ Notified(e))) ~> (e \in tried \cup crowded)
=============================================================================
