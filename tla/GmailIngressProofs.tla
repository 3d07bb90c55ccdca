------------------------- MODULE GmailIngressProofs -------------------------
(* Theorems about GmailIngress, for any mail, any mix of pollers, pull      *)
(* workers and push requests, any page and batch size.                      *)
EXTENDS GmailIngress, TLAPS

(* The messages that were dealt with: taken through the pipeline, or left   *)
(* out of a full page.                                                      *)
Covered == tried \cup crowded

(* Who has a notification in hand, and what it is known to cover.           *)
InHand(r) ==
  /\ at[r].pc = "init" => deployment[r] = "push"
  /\ at[r].pc \in {"init", "initing"} /\ deployment[r] = "push" => at[r].kick # None
  /\ at[r].pc \in {"scan", "page"} /\ deployment[r] # "poll" => at[r].kick # None
  /\ at[r].kick # None => at[r].kick.history \subseteq inbox
  /\ at[r].kick # None /\ at[r].pc = "page" =>
       at[r].kick.history \subseteq Covered \cup at[r].page
  /\ \A k \in at[r].handled : k.history \subseteq Covered

Off(r) == deployment[r] = "off" => at[r] = Idle

IInv ==
  /\ TypeOK
  /\ labelled \subseteq tried
  /\ \A k \in kicks : k.history \subseteq inbox
  /\ \A r \in Receivers : \A k \in at[r].next : k.history \subseteq inbox
  /\ \A r \in Receivers : InHand(r)
  /\ \A r \in Receivers : Off(r)
  /\ KickCoversBacklog
  /\ CursorTrailsWork
  /\ InitialisedOnce
  /\ NoReprocessing
-----------------------------------------------------------------------------
LEMMA IdleType == Idle \in Activity
BY DEF Idle, Activity

LEMMA InitIInv == Init => IInv
<1> SUFFICES ASSUME Init PROVE IInv
  OBVIOUS
<1>1. TypeOK
  <2>1. at \in [Receivers -> Activity]
    BY IdleType DEF Init
  <2>2. faults \in 0..MaxFaults
    BY FaultBound DEF Init
  <2> QED
    BY <2>1, <2>2 DEF Init, TypeOK
<1>2. \A r \in Receivers : at[r] = Idle
  BY DEF Init
<1> QED
  BY <1>1, <1>2 DEF Init, IInv, InHand, Off, KickCoversBacklog, CursorTrailsWork,
     InitialisedOnce, NoReprocessing, Idle

(* What a receiver is doing has the fields of an activity.                  *)
LEMMA Fields ==
  ASSUME TypeOK, NEW r \in Receivers
  PROVE  /\ at[r] \in Activity
         /\ at[r].next \subseteq Kick
         /\ at[r].handled \subseteq Readables
         /\ at[r].kick \in Readables \cup {None}
         /\ at[r].page \subseteq Emails
         /\ deployment[r] \in {"poll", "pull", "push", "off"}
BY DeploymentAssumption DEF TypeOK, Activity

(* How every step of one receiver is shown to preserve the invariant: what  *)
(* it turns its activity into, and what it does to the rest.                *)
LEMMA StepPreserves ==
  ASSUME IInv, NEW r \in Receivers, NEW a \in Activity, Goes(r, a),
         UNCHANGED <<deployment, inbox>>,
         TypeOK', Covered \subseteq Covered', labelled' \subseteq tried',
         kicks' \subseteq kicks, KickCoversBacklog', CursorTrailsWork',
         \A k \in a.next : k.history \subseteq inbox,
         InHand(r)', Off(r)', InitialisedOnce', NoReprocessing'
  PROVE  IInv'
<1>1. \A q \in Receivers : q # r => at'[q] = at[q]
  BY DEF Goes, IInv, TypeOK
<1>2. at'[r] = a
  BY DEF Goes, IInv, TypeOK
<1>3. \A q \in Receivers : InHand(q)'
  BY <1>1 DEF IInv, InHand
<1>4. \A q \in Receivers : Off(q)'
  BY <1>1 DEF IInv, Off
<1>5. \A q \in Receivers : \A k \in at'[q].next : k.history \subseteq inbox'
  BY <1>1, <1>2 DEF IInv
<1> QED
  BY <1>3, <1>4, <1>5 DEF IInv

(* Nobody else of a process that is not the server.                         *)
LEMMA OwnHost ==
  ASSUME TypeOK, NEW r \in Receivers, NEW q \in Receivers, Host(q) = Host(r), q # r
  PROVE  deployment[q] = "push" /\ deployment[r] = "push"
BY ServerAssumption DEF Host

(* A step that leaves everything but the activity of r as it is.            *)
LEMMA QuietPreserves ==
  ASSUME IInv, NEW r \in Receivers, NEW a \in Activity, Goes(r, a),
         UNCHANGED <<deployment, mailbox, labelled, kicks, cursor, ready, histories>>,
         faults' \in 0..MaxFaults,
         a.next \subseteq at[r].next \cup kicks,
         a.page \subseteq at[r].page,
         a.pc = "initing" => Host(r) \notin ready /\ LockFree(r),
         InHand(r)', deployment[r] # "off"
  PROVE  IInv'
<1>1. \A q \in Receivers : q # r => at'[q] = at[q]
  BY DEF Goes, IInv, TypeOK
<1>2. at'[r] = a
  BY DEF Goes, IInv, TypeOK
<1>3. TypeOK'
  BY DEF IInv, TypeOK, Goes, mailbox, histories
<1>4. \A q \in Receivers : Host(q)' = Host(q)
  BY DEF Host
<1>5. InitialisedOnce'
  BY <1>1, <1>2, <1>4 DEF IInv, InitialisedOnce, LockFree
<1>6. NoReprocessing'
  BY <1>1, <1>2 DEF IInv, NoReprocessing, Sole
<1>7. Off(r)'
  BY DEF Off
<1> QED
  BY <1>3, <1>5, <1>6, <1>7, StepPreserves
  DEF IInv, KickCoversBacklog, CursorTrailsWork, Covered, mailbox, histories
-----------------------------------------------------------------------------
(* The mailbox and Pub/Sub.                                                 *)
LEMMA OutsidePreserves ==
  ASSUME IInv, UNCHANGED <<deployment, labelled, cursor, ready, at, faults, histories>>,
         inbox \subseteq inbox', inbox' \subseteq Emails, watching' \in BOOLEAN,
         kicks' \subseteq Kick, \A k \in kicks' : k.history \subseteq inbox'
  PROVE  IInv'
<1>1. TypeOK'
  BY DEF IInv, TypeOK, histories
<1>2. \A r \in Receivers : InHand(r)' /\ Off(r)'
  BY DEF IInv, InHand, Off, Covered, histories
<1>3. /\ KickCoversBacklog' /\ CursorTrailsWork'
      /\ InitialisedOnce' /\ NoReprocessing'
  BY DEF IInv, KickCoversBacklog, CursorTrailsWork, InitialisedOnce, NoReprocessing,
     Sole, Host, histories
<1> QED
  BY <1>1, <1>2, <1>3 DEF IInv, histories

LEMMA OutsideSteps ==
  ASSUME IInv,
         (\E e \in Emails : Arrive(e)) \/ EmptyNotice \/ WatchLapses \/ WatchRenewed
  PROVE  IInv'
<1>1. ASSUME NEW e \in Emails, Arrive(e) PROVE IInv'
  <2>1. Published(inbox', "json") \in Kick /\ Published(inbox', "json").history = inbox'
    BY <1>1 DEF Arrive, Published, Kick, IInv, TypeOK
  <2> QED
    BY <1>1, <2>1, OutsidePreserves DEF Arrive, IInv, TypeOK
<1>2. CASE EmptyNotice
  <2>1. Published({}, "empty") \in Kick /\ Published({}, "empty").history = {}
    BY DEF Published, Kick
  <2> QED
    BY <1>2, <2>1, OutsidePreserves DEF EmptyNotice, mailbox, IInv, TypeOK
<1>3. CASE WatchLapses
  BY <1>3, OutsidePreserves DEF WatchLapses, IInv, TypeOK
<1>4. CASE WatchRenewed
  BY <1>4, OutsidePreserves DEF WatchRenewed, IInv, TypeOK
<1> QED
  BY <1>1, <1>2, <1>3, <1>4
-----------------------------------------------------------------------------
(* What sets a receiver off.                                                *)
LEMMA AtAfter ==
  ASSUME TypeOK, NEW r \in Receivers, NEW a, Goes(r, a)
  PROVE  at'[r] = a
BY DEF TypeOK, Goes

LEMMA FaultType == ASSUME TypeOK, Fault PROVE faults' \in 0..MaxFaults
BY FaultBound DEF TypeOK, Fault

LEMMA TickStep ==
  ASSUME IInv, NEW r \in Receivers, Tick(r) \/ StartPull(r)
  PROVE  IInv'
<1> DEFINE a == [Idle EXCEPT !.pc = IF r \in ready THEN "scan" ELSE "initing"]
<1>1. Goes(r, a) /\ deployment[r] \in {"poll", "pull"}
      /\ (r \in ready => deployment[r] = "poll")
  BY DEF Tick, StartPull
<1>2. /\ a \in Activity /\ a.next = {} /\ a.handled = {} /\ a.page = {} /\ a.kick = None
      /\ a.pc = IF r \in ready THEN "scan" ELSE "initing"
  BY DEF Idle, Activity
<1>3. Host(r) = r
  BY <1>1 DEF Host
<1>4. TypeOK /\ InitialisedOnce /\ at[r].pc = "idle"
  BY DEF IInv, Tick, StartPull
<1>5. a.pc = "initing" => Host(r) \notin ready /\ LockFree(r)
  <2> SUFFICES ASSUME NEW q \in Receivers, Host(q) = Host(r) PROVE at[q].pc # "initing"
    BY <1>2, <1>3 DEF LockFree
  <2>1. q = r
    BY <1>1, <1>4, OwnHost
  <2> QED
    BY <1>4, <2>1
<1>6. at'[r] = a
  BY <1>1, <1>4, AtAfter
<1>7. UNCHANGED <<deployment, mailbox, labelled, kicks, cursor, ready, faults, histories>>
  BY DEF Tick, StartPull
<1>8. InHand(r)'
  BY <1>1, <1>2, <1>6, <1>7 DEF InHand
<1>9. faults' \in 0..MaxFaults
  BY <1>4, <1>7 DEF TypeOK
<1> HIDE DEF a
<1> QED
  BY <1>1, <1>2, <1>5, <1>7, <1>8, <1>9, QuietPreserves

LEMMA PullStep ==
  ASSUME IInv, NEW r \in Receivers, NEW batch \in SUBSET kicks, PullBatch(r, batch)
  PROVE  IInv'
<1> DEFINE a == [Idle EXCEPT !.pc = "next", !.next = batch]
<1>1. /\ Goes(r, a) /\ deployment[r] = "pull" /\ TypeOK
      /\ UNCHANGED <<deployment, mailbox, labelled, kicks, cursor, ready, faults, histories>>
  BY DEF PullBatch, IInv
<1>2. /\ a \in Activity /\ a.next = batch /\ a.handled = {} /\ a.page = {} /\ a.kick = None
      /\ a.pc = "next"
  BY <1>1 DEF Idle, Activity, TypeOK
<1>3. at'[r] = a
  BY <1>1, AtAfter
<1>4. InHand(r)'
  BY <1>1, <1>2, <1>3 DEF InHand
<1>5. faults' \in 0..MaxFaults
  BY <1>1 DEF TypeOK
<1> HIDE DEF a
<1> QED
  BY <1>1, <1>2, <1>4, <1>5, QuietPreserves

LEMMA PushStep ==
  ASSUME IInv, NEW r \in Receivers, NEW k \in kicks, PushRequest(r, k)
  PROVE  IInv'
<1>1. CASE Readable(k)
  <2> DEFINE a == [Idle EXCEPT !.pc = "init", !.kick = k]
  <2>1. /\ Goes(r, a) /\ deployment[r] = "push" /\ TypeOK
        /\ UNCHANGED <<deployment, mailbox, labelled, kicks, cursor, ready, faults, histories>>
    BY <1>1 DEF PushRequest, IInv, Readable
  <2>2. k \in Readables /\ k # None /\ k.history \subseteq inbox
    BY <1>1, <2>1, NoneIsFresh DEF Readable, Readables, TypeOK, IInv
  <2>3. /\ a \in Activity /\ a.next = {} /\ a.handled = {} /\ a.page = {} /\ a.kick = k
        /\ a.pc = "init"
    BY <2>2 DEF Idle, Activity
  <2>4. at'[r] = a
    BY <2>1, AtAfter
  <2>5. InHand(r)'
    BY <2>1, <2>2, <2>3, <2>4 DEF InHand, mailbox
  <2>6. faults' \in 0..MaxFaults
    BY <2>1 DEF TypeOK
  <2> HIDE DEF a
  <2> QED
    BY <2>1, <2>3, <2>5, <2>6, QuietPreserves
<1>2. CASE ~Readable(k)
  <2>1. k.data = "empty"
    BY <1>2 DEF Readable, IInv, TypeOK, Kick
  <2>2. UNCHANGED <<deployment, mailbox, labelled, cursor, ready, at, faults, histories>>
        /\ kicks' = kicks \ {k}
    BY <2>1 DEF PushRequest
  <2> QED
    BY <2>2, OutsidePreserves DEF IInv, TypeOK, mailbox
<1> QED
  BY <1>1, <1>2

LEMMA NextKickStep ==
  ASSUME IInv, NEW r \in Receivers, NEW k \in at[r].next, NextKick(r, k)
  PROVE  IInv'
<1> DEFINE b == [at[r] EXCEPT !.next = @ \ {k}]
           c == [at[r] EXCEPT !.next = @ \ {k}, !.pc = "scan", !.kick = k]
           a == IF Readable(k) THEN c ELSE b
<1>1. /\ Goes(r, a) /\ TypeOK /\ InHand(r) /\ at[r].pc = "next" /\ at[r] \in Activity
      /\ UNCHANGED <<deployment, mailbox, labelled, kicks, cursor, ready, faults, histories>>
  BY Fields DEF NextKick, IInv
<1>2. /\ k \in Kick /\ k.history \subseteq inbox /\ k # None
      /\ Readable(k) => k \in Readables
  BY <1>1, Fields, NoneIsFresh DEF Readable, Readables, IInv
<1>3. /\ a.next \subseteq at[r].next /\ a.handled = at[r].handled /\ a.page = at[r].page
      /\ (a.pc = "scan" /\ a.kick = k) \/ (a.pc = "next" /\ a.kick = at[r].kick)
      /\ a \in Activity
  <2>1. Readable(k) => c \in Activity
    BY <1>1, <1>2 DEF Activity
  <2>2. b \in Activity
    BY <1>1 DEF Activity
  <2> QED
    BY <1>1, <2>1, <2>2 DEF Activity
<1>4. at'[r] = a
  BY <1>1, AtAfter
<1>5. InHand(r)'
  BY <1>1, <1>2, <1>3, <1>4 DEF InHand, mailbox, histories, Covered
<1>6. faults' \in 0..MaxFaults
  BY <1>1 DEF TypeOK
<1>7. deployment[r] # "off"
  BY <1>1 DEF IInv, Off, Idle
<1> HIDE DEF a, b, c
<1> QED
  BY <1>1, <1>3, <1>5, <1>6, <1>7, QuietPreserves
-----------------------------------------------------------------------------
(* Initialisation, and what fails.                                          *)
LEMMA EnsureInitStep ==
  ASSUME IInv, NEW r \in Receivers, EnsureInit(r)
  PROVE  IInv'
<1> DEFINE a == [at[r] EXCEPT !.pc = IF Host(r) \in ready THEN "scan" ELSE "initing"]
<1>1. /\ Goes(r, a) /\ TypeOK /\ InHand(r) /\ at[r].pc = "init" /\ at[r] \in Activity
      /\ UNCHANGED <<deployment, mailbox, labelled, kicks, cursor, ready, faults, histories>>
      /\ Host(r) \in ready \/ LockFree(r)
  BY Fields DEF EnsureInit, IInv
<1>2. /\ a \in Activity /\ a.next = at[r].next /\ a.handled = at[r].handled
      /\ a.page = at[r].page /\ a.kick = at[r].kick
      /\ a.pc = IF Host(r) \in ready THEN "scan" ELSE "initing"
  BY <1>1 DEF Activity
<1>3. at'[r] = a
  BY <1>1, AtAfter
<1>4. InHand(r)' /\ deployment[r] # "off"
  BY <1>1, <1>2, <1>3 DEF InHand, mailbox, histories, Covered
<1>5. faults' \in 0..MaxFaults
  BY <1>1 DEF TypeOK
<1> HIDE DEF a
<1> QED
  BY <1>1, <1>2, <1>4, <1>5, QuietPreserves

(* A step after which r is not initialising leaves the others as they were. *)
LEMMA NotInitialising ==
  ASSUME IInv, NEW r \in Receivers, at'[r].pc # "initing",
         \A q \in Receivers : Host(q)' = Host(q) /\ (q # r => at'[q] = at[q]),
         \/ UNCHANGED ready
         \/ at[r].pc = "initing" /\ ready' = ready \cup {Host(r)}
  PROVE  InitialisedOnce'
<1> SUFFICES ASSUME NEW p \in Receivers, at'[p].pc = "initing"
             PROVE  /\ Host(p)' \notin ready'
                    /\ \A q \in Receivers \ {p} : Host(q)' = Host(p)' => at'[q].pc # "initing"
  BY DEF InitialisedOnce
<1>1. p # r /\ at[p].pc = "initing" /\ InitialisedOnce /\ Host(p)' = Host(p)
  BY DEF IInv
<1>2. Host(p) \notin ready /\ (at[r].pc = "initing" => Host(p) # Host(r))
  BY <1>1 DEF InitialisedOnce
<1>3. ASSUME NEW q \in Receivers \ {p}, Host(q)' = Host(p)' PROVE at'[q].pc # "initing"
  <2>1. CASE q = r
    BY <2>1
  <2>2. CASE q # r
    BY <1>1, <1>3, <2>2 DEF InitialisedOnce
  <2> QED
    BY <2>1, <2>2
<1> QED
  BY <1>1, <1>2, <1>3

(* A receiver gives up what it is doing.                                    *)
LEMMA GivesUp ==
  ASSUME IInv, NEW r \in Receivers, Goes(r, Idle), faults' \in 0..MaxFaults,
         at[r] # Idle,
         UNCHANGED <<deployment, mailbox, labelled, kicks, cursor, ready, histories>>
  PROVE  IInv'
<1>1. /\ Idle.next = {} /\ Idle.handled = {} /\ Idle.page = {} /\ Idle.kick = None
      /\ Idle.pc = "idle"
  BY DEF Idle
<1>2. at'[r] = Idle
  BY AtAfter DEF IInv
<1>3. InHand(r)' /\ deployment[r] # "off"
  BY <1>1, <1>2 DEF InHand, IInv, Off
<1> QED
  BY <1>1, <1>3, IdleType, QuietPreserves

(* The notification in hand is left out of the acknowledgement.             *)
LEMMA FailureSteps ==
  ASSUME IInv, NEW r \in Receivers,
         InitFails(r) \/ ScanFails(r) \/ AckLost(r) \/ TickDone(r)
  PROVE  IInv'
<1>1. TypeOK /\ faults \in 0..MaxFaults /\ (Fault => faults' \in 0..MaxFaults)
  BY FaultType DEF IInv, TypeOK
<1>2. Idle.pc = "idle"
  BY DEF Idle
<1>3. CASE InitFails(r) \/ AckLost(r) \/ TickDone(r) \/ (ScanFails(r) /\ deployment[r] # "pull")
  BY <1>1, <1>2, <1>3, GivesUp DEF InitFails, AckLost, TickDone, ScanFails
<1>4. CASE ScanFails(r) /\ deployment[r] = "pull"
  <2> DEFINE a == [at[r] EXCEPT !.pc = "next", !.kick = None]
  <2>1. /\ Goes(r, a) /\ InHand(r) /\ at[r] \in Activity /\ faults' \in 0..MaxFaults
        /\ UNCHANGED <<deployment, mailbox, labelled, kicks, cursor, ready, histories>>
    BY <1>1, <1>4, Fields DEF ScanFails, IInv
  <2>2. /\ a \in Activity /\ a.next = at[r].next /\ a.handled = at[r].handled
        /\ a.page = at[r].page /\ a.kick = None /\ a.pc = "next"
    BY <2>1 DEF Activity
  <2>3. at'[r] = a
    BY <1>1, <2>1, AtAfter
  <2>4. InHand(r)'
    BY <2>1, <2>2, <2>3 DEF InHand, mailbox, histories, Covered
  <2> HIDE DEF a
  <2> QED
    BY <1>4, <2>1, <2>2, <2>4, QuietPreserves
<1> QED
  BY <1>3, <1>4

(* No page grows and no label is set: there is nothing to reprocess.        *)
LEMMA SameOrSmallerPage ==
  ASSUME IInv, UNCHANGED <<deployment, labelled>>,
         \A q \in Receivers : at'[q].page \subseteq at[q].page
  PROVE  NoReprocessing'
<1> SUFFICES ASSUME NEW q \in Receivers, Sole(q)'
             PROVE  at'[q].page \cap labelled' = {}
  BY DEF NoReprocessing
<1>1. Sole(q)
  BY DEF Sole
<1> QED
  BY <1>1 DEF IInv, NoReprocessing

LEMMA InitDoneStep ==
  ASSUME IInv, NEW r \in Receivers, InitDone(r)
  PROVE  IInv'
<1> DEFINE a == [at[r] EXCEPT !.pc = IF deployment[r] = "pull" THEN "idle" ELSE "scan"]
<1>1. /\ Goes(r, a) /\ TypeOK /\ InHand(r) /\ at[r].pc = "initing" /\ at[r] \in Activity
      /\ UNCHANGED <<deployment, inbox, labelled, kicks, cursor, faults, histories>>
      /\ ready' = ready \cup {Host(r)}
      /\ watching' = (watching \/ deployment[r] = "pull")
  BY Fields DEF InitDone, IInv
<1>2. /\ a \in Activity /\ a.next = at[r].next /\ a.handled = at[r].handled
      /\ a.page = at[r].page /\ a.kick = at[r].kick
      /\ a.pc = IF deployment[r] = "pull" THEN "idle" ELSE "scan"
  BY <1>1 DEF Activity
<1>3. at'[r] = a
  BY <1>1, AtAfter
<1>4. \A q \in Receivers : Host(q)' = Host(q) /\ (q # r => at'[q] = at[q])
  BY <1>1 DEF Host, Goes, TypeOK
<1>5. TypeOK'
  <2>1. Host(r) \in Processes
    BY DEF Host, Processes
  <2>2. watching' \in BOOLEAN
    BY <1>1 DEF TypeOK
  <2> QED
    BY <1>1, <1>2, <2>1, <2>2 DEF TypeOK, Goes, histories
<1>6. deployment[r] # "off"
  BY <1>1 DEF IInv, Off, Idle
<1>7. InHand(r)' /\ Off(r)'
  BY <1>1, <1>2, <1>3, <1>6, Fields DEF InHand, Off, histories, Covered
<1>8. InitialisedOnce'
  <2>1. at'[r].pc # "initing"
    BY <1>2, <1>3
  <2> QED
    BY <1>1, <1>4, <2>1, NotInitialising
<1>9. NoReprocessing'
  BY <1>1, <1>2, <1>3, <1>4, SameOrSmallerPage
<1> HIDE DEF a
<1> QED
  BY <1>1, <1>2, <1>5, <1>7, <1>8, <1>9, StepPreserves
  DEF IInv, KickCoversBacklog, CursorTrailsWork, Covered, histories
-----------------------------------------------------------------------------
(* A scan.                                                                  *)

(* What a page leaves out is crowded, and what the query leaves out is      *)
(* labelled: together with the page that is the whole inbox.                *)
LEMMA ScanStep ==
  ASSUME IInv, NEW r \in Receivers, Scan(r)
  PROVE  IInv'
<1>1. PICK page \in Pages :
        /\ Goes(r, [at[r] EXCEPT !.pc = "page", !.page = page])
        /\ crowded' = crowded \cup (Unprocessed \ page)
  BY DEF Scan
<1> DEFINE a == [at[r] EXCEPT !.pc = "page", !.page = page]
<1>2. /\ Goes(r, a) /\ TypeOK /\ InHand(r) /\ at[r].pc = "scan" /\ at[r] \in Activity
      /\ UNCHANGED <<deployment, mailbox, labelled, kicks, cursor, ready, faults, acked, tried>>
  BY <1>1, Fields DEF Scan, IInv
<1>3. page \subseteq Unprocessed /\ page \subseteq Emails /\ page \cap labelled = {}
  BY <1>2 DEF Pages, Unprocessed, TypeOK
<1>4. /\ a \in Activity /\ a.next = at[r].next /\ a.handled = at[r].handled
      /\ a.page = page /\ a.kick = at[r].kick /\ a.pc = "page"
  BY <1>2, <1>3 DEF Activity
<1>5. at'[r] = a
  BY <1>2, AtAfter
<1>6. \A q \in Receivers : Host(q)' = Host(q) /\ (q # r => at'[q] = at[q])
  BY <1>2 DEF Host, Goes, TypeOK
<1>7. TypeOK'
  BY <1>1, <1>2, <1>4 DEF TypeOK, Goes, mailbox, Unprocessed
<1>8. Covered \subseteq Covered' /\ inbox \subseteq Covered' \cup page
  BY <1>1, <1>2 DEF Covered, Unprocessed, IInv
<1>9. InHand(r)' /\ Off(r)'
  BY <1>2, <1>4, <1>5, <1>8 DEF InHand, Off, mailbox, IInv, Idle
<1>10. InitialisedOnce'
  BY <1>2, <1>4, <1>5, <1>6, NotInitialising
<1>11. NoReprocessing'
  BY <1>2, <1>3, <1>4, <1>5, <1>6 DEF IInv, NoReprocessing, Sole
<1> HIDE DEF a
<1> QED
  BY <1>2, <1>4, <1>7, <1>8, <1>9, <1>10, <1>11, StepPreserves
  DEF IInv, KickCoversBacklog, CursorTrailsWork, Covered, mailbox

LEMMA ProcessStep ==
  ASSUME IInv, NEW r \in Receivers, NEW e \in at[r].page, Process(r, e)
  PROVE  IInv'
<1> DEFINE a == [at[r] EXCEPT !.page = @ \ {e}]
<1>1. /\ Goes(r, a) /\ TypeOK /\ InHand(r) /\ at[r].pc = "page" /\ at[r] \in Activity
      /\ e \in Emails /\ tried' = tried \cup {e} /\ labelled' \subseteq labelled \cup {e}
      /\ UNCHANGED <<deployment, mailbox, kicks, cursor, ready, faults, acked, crowded>>
  BY Fields DEF Process, IInv
<1>2. /\ a \in Activity /\ a.next = at[r].next /\ a.handled = at[r].handled
      /\ a.page = at[r].page \ {e} /\ a.kick = at[r].kick /\ a.pc = "page"
  BY <1>1 DEF Activity
<1>3. at'[r] = a
  BY <1>1, AtAfter
<1>4. \A q \in Receivers : Host(q)' = Host(q) /\ (q # r => at'[q] = at[q])
  BY <1>1 DEF Host, Goes, TypeOK
<1>5. TypeOK' /\ labelled' \subseteq tried'
  BY <1>1, <1>2 DEF TypeOK, Goes, mailbox, IInv
<1>6. Covered' = Covered \cup {e}
  BY <1>1 DEF Covered
<1>7. InHand(r)' /\ Off(r)'
  BY <1>1, <1>2, <1>3, <1>6 DEF InHand, Off, mailbox, IInv, Idle
<1>8. InitialisedOnce'
  BY <1>1, <1>2, <1>3, <1>4, NotInitialising
<1>9. NoReprocessing'
  <2> SUFFICES ASSUME NEW q \in Receivers, Sole(q)'
               PROVE  at'[q].page \cap labelled' = {}
    BY DEF NoReprocessing
  <2>1. Sole(q) /\ at[q].page \cap labelled = {}
    BY <1>1 DEF Sole, IInv, NoReprocessing
  <2>2. q = r
    BY <1>1, <2>1 DEF Sole, IInv, Off, Idle
  <2> QED
    BY <1>1, <1>2, <1>3, <2>1, <2>2
<1> HIDE DEF a
<1> QED
  BY <1>1, <1>2, <1>5, <1>6, <1>7, <1>8, <1>9, StepPreserves
  DEF IInv, KickCoversBacklog, CursorTrailsWork, Covered, mailbox

LEMMA KickDoneStep ==
  ASSUME IInv, NEW r \in Receivers, KickDone(r)
  PROVE  IInv'
<1> DEFINE k == at[r].kick
           a == [at[r] EXCEPT !.pc = "next", !.kick = None, !.handled = @ \cup {k}]
<1>1. /\ Goes(r, a) /\ TypeOK /\ InHand(r) /\ at[r].pc = "page" /\ at[r].page = {}
      /\ at[r] \in Activity /\ deployment[r] # "poll" /\ cursor' = k.history
      /\ UNCHANGED <<deployment, mailbox, labelled, kicks, ready, faults, histories>>
  BY Fields DEF KickDone, IInv
<1>2. k \in Readables /\ k.history \subseteq Covered /\ k.history \subseteq Emails
  BY <1>1, Fields DEF InHand, Readables, Kick
<1>3. /\ a \in Activity /\ a.next = at[r].next /\ a.handled = at[r].handled \cup {k}
      /\ a.page = {} /\ a.kick = None /\ a.pc = "next"
  BY <1>1, <1>2 DEF Activity
<1>4. at'[r] = a
  BY <1>1, AtAfter
<1>5. \A q \in Receivers : Host(q)' = Host(q) /\ (q # r => at'[q] = at[q])
  BY <1>1 DEF Host, Goes, TypeOK
<1>6. TypeOK'
  BY <1>1, <1>2, <1>3 DEF TypeOK, Goes, mailbox, histories
<1>7. InHand(r)' /\ Off(r)'
  BY <1>1, <1>2, <1>3, <1>4 DEF InHand, Off, mailbox, histories, Covered, IInv, Idle
<1>8. InitialisedOnce'
  BY <1>1, <1>3, <1>4, <1>5, NotInitialising
<1>9. NoReprocessing'
  BY <1>1, <1>3, <1>4, <1>5 DEF IInv, NoReprocessing, Sole
<1>10. CursorTrailsWork'
  BY <1>1, <1>2 DEF CursorTrailsWork, Covered, histories
<1> HIDE DEF a
<1> QED
  BY <1>1, <1>3, <1>6, <1>7, <1>8, <1>9, <1>10, StepPreserves
  DEF IInv, KickCoversBacklog, Covered, mailbox, histories

LEMMA AcknowledgeStep ==
  ASSUME IInv, NEW r \in Receivers, Acknowledge(r)
  PROVE  IInv'
<1>1. /\ Goes(r, Idle) /\ TypeOK /\ InHand(r) /\ at[r].pc = "next"
      /\ at[r].handled \subseteq Readables
      /\ kicks' = kicks \ at[r].handled /\ acked' = acked \cup at[r].handled
      /\ UNCHANGED <<deployment, mailbox, labelled, cursor, ready, faults, tried, crowded>>
  BY Fields DEF Acknowledge, IInv
<1>2. /\ Idle.next = {} /\ Idle.handled = {} /\ Idle.page = {} /\ Idle.kick = None
      /\ Idle.pc = "idle" /\ Idle \in Activity
  BY IdleType DEF Idle
<1>3. at'[r] = Idle
  BY <1>1, AtAfter
<1>4. \A q \in Receivers : Host(q)' = Host(q) /\ (q # r => at'[q] = at[q])
  BY <1>1 DEF Host, Goes, TypeOK
<1>5. TypeOK'
  BY <1>1, <1>2 DEF TypeOK, Goes, mailbox
<1>6. InHand(r)' /\ Off(r)'
  BY <1>2, <1>3 DEF InHand, Off
<1>7. InitialisedOnce'
  BY <1>1, <1>2, <1>3, <1>4, NotInitialising
<1>8. NoReprocessing'
  BY <1>1, <1>2, <1>3, <1>4 DEF IInv, NoReprocessing, Sole
<1>9. KickCoversBacklog'
  BY <1>1 DEF IInv, KickCoversBacklog, InHand, Covered
<1> QED
  BY <1>1, <1>2, <1>5, <1>6, <1>7, <1>8, <1>9, StepPreserves
  DEF IInv, CursorTrailsWork, Covered, mailbox

LEMMA CrashStep ==
  ASSUME IInv, NEW h \in Processes, Crash(h)
  PROVE  IInv'
<1>1. /\ TypeOK /\ ready' = ready \ {h} /\ faults' \in 0..MaxFaults
      /\ at' = [r \in Receivers |-> IF Host(r) = h THEN Idle ELSE at[r]]
      /\ UNCHANGED <<deployment, mailbox, labelled, kicks, cursor, histories>>
  BY FaultType DEF Crash, IInv
<1>2. \A r \in Receivers : Host(r)' = Host(r) /\ at'[r] = IF Host(r) = h THEN Idle ELSE at[r]
  BY <1>1 DEF Host
<1>3. /\ Idle.next = {} /\ Idle.handled = {} /\ Idle.page = {} /\ Idle.kick = None
      /\ Idle.pc = "idle" /\ Idle \in Activity
  BY IdleType DEF Idle
<1>4. TypeOK'
  <2>1. at' \in [Receivers -> Activity]
    BY <1>1, <1>3 DEF TypeOK
  <2> QED
    BY <1>1, <2>1 DEF TypeOK, mailbox, histories
<1>5. \A r \in Receivers : InHand(r)' /\ Off(r)'
  BY <1>1, <1>2, <1>3 DEF IInv, InHand, Off, mailbox, histories, Covered
<1>6. \A r \in Receivers : \A k \in at'[r].next : k.history \subseteq inbox'
  BY <1>1, <1>2, <1>3 DEF IInv, mailbox
<1>7. InitialisedOnce'
  BY <1>1, <1>2, <1>3 DEF IInv, InitialisedOnce
<1>8. NoReprocessing'
  BY <1>1, <1>2, <1>3 DEF IInv, NoReprocessing, Sole
<1> QED
  BY <1>1, <1>4, <1>5, <1>6, <1>7, <1>8
  DEF IInv, KickCoversBacklog, CursorTrailsWork, mailbox, histories
-----------------------------------------------------------------------------
LEMMA StutterPreserves == IInv /\ UNCHANGED vars => IInv'
<1> SUFFICES ASSUME IInv, UNCHANGED vars PROVE IInv'
  OBVIOUS
<1> QED
  BY OutsidePreserves DEF IInv, TypeOK, vars, histories

LEMMA NextIInv == IInv /\ [Next]_vars => IInv'
<1> SUFFICES ASSUME IInv, [Next]_vars PROVE IInv'
  OBVIOUS
<1>1. ASSUME NEW r \in Receivers, Step(r) PROVE IInv'
  BY <1>1, TickStep, NextKickStep, EnsureInitStep, InitDoneStep, ScanStep, ProcessStep,
     FailureSteps, KickDoneStep, AcknowledgeStep DEF Step
<1>2. ASSUME NEW r \in Receivers, NEW k \in kicks, Deliver(r, k) PROVE IInv'
  BY <1>2, PullStep, PushStep DEF Deliver
<1>3. ASSUME NEW r \in Receivers, InitFails(r) \/ ScanFails(r) \/ AckLost(r) PROVE IInv'
  BY <1>3, FailureSteps
<1> QED
  BY <1>1, <1>2, <1>3, OutsideSteps, CrashStep, StutterPreserves DEF Next

LEMMA AlwaysIInv == Spec => []IInv
BY InitIInv, NextIInv, PTL DEF Spec

(* Every variable keeps its type.                                           *)
THEOREM TypeCorrect == Spec => []TypeOK
BY AlwaysIInv, PTL DEF IInv

(* An acknowledged notification leaves no message behind that had arrived   *)
(* when it was published, whoever handled it, in whatever order, and        *)
(* whatever crashed in between.                                             *)
THEOREM KicksAlwaysCover == Spec => []KickCoversBacklog
BY AlwaysIInv, PTL DEF IInv

(* The stored cursor names no history beyond what was dealt with.           *)
THEOREM CursorAlwaysTrails == Spec => []CursorTrailsWork
BY AlwaysIInv, PTL DEF IInv

(* However many requests meet in a cold server, one initialises it.         *)
THEOREM AlwaysInitialisedOnce == Spec => []InitialisedOnce
BY AlwaysIInv, PTL DEF IInv

(* A receiver that runs alone never takes up a message it has labelled.     *)
THEOREM NeverReprocessed == Spec => []NoReprocessing
BY AlwaysIInv, PTL DEF IInv
=============================================================================
