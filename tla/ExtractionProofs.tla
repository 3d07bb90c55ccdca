-------------------------- MODULE ExtractionProofs --------------------------
(* Theorems about Extraction, for any mail, any number of workers, any      *)
(* stages that begin with Ingest, any time a job may take and any deadline. *)
EXTENDS Extraction, Positions

(* Each file name that goes on to Parse is that of an attachment.           *)
DocsInv(r) ==
  \A i \in DOMAIN r.classified :
    \E j \in DOMAIN r.envelope : NameOf[r.envelope[j]] = r.classified[i]

(* A job that is polled is that of an item of the stage's loop.             *)
LoopInv(r) ==
  r.pc = "poll" =>
    \/ Stages[r.at] = "classify_stage" /\ r.pos <= Len(r.envelope)
    \/ Stages[r.at] = "parse_stage" /\ r.pos <= Len(r.classified)

(* The last status was read within the last call.                           *)
JobInv(r) ==
  /\ r.job.spent <= Budget + MaxCall
  /\ r.job.spent < r.job.read + MaxCall
  /\ r.job.seen = StatusAt(r.job, r.job.read)
  /\ r.outcome = "timeout" =>
       /\ r.job.spent > Budget
       /\ r.job.end \in Terminal(Stages[r.at]) => Slow(r.job.due)

(* The envelope and the correlation id come together, from Ingest.          *)
IngestInv(r) ==
  /\ r.corr = 0 <=> r.envelope = <<>>
  /\ r.outcome # "ok" => r.pc = "exit"
  /\ r.pc # "idle" =>
       (r.corr = 0 <=> r.at = 1 /\ r.pc # "label" /\ (r.pc = "exit" => r.outcome # "ok"))

RunInv(r) == DocsInv(r) /\ LoopInv(r) /\ JobInv(r) /\ IngestInv(r)

(* The entered and exited events a run has emitted so far.                  *)
Due(r) ==
  CASE r.pc = "enter" -> 2 * r.at - 2
    [] r.pc \in {"body", "poll", "verdict", "exit"} -> 2 * r.at - 1
    [] r.pc = "label" -> 2 * Len(Stages)
    [] OTHER -> 0

(* n of them were written or lost; a lost one may have been another.        *)
Spans(s, n) ==
  LET left == Cardinality(Boundary(s.events))
  IN  left <= n /\ n <= left + s.lost

(* What a run under way and its session have to do with each other.         *)
OwnSession(r) ==
  r.pc # "idle" =>
    /\ r.msg \in Emails
    /\ r.session \in DOMAIN sessions
    /\ sessions[r.session].msg = r.msg
    /\ sessions[r.session].fate = "running"
    /\ Spans(sessions[r.session], Due(r))

(* The correlation id of run r is in no other session.                      *)
OwnCorrelation(r) ==
  /\ r.corr <= correlations
  /\ r.pc # "idle" /\ r.corr # 0 =>
       \A i \in DOMAIN sessions : \A k \in DOMAIN sessions[i].events :
         sessions[i].events[k].corr = r.corr => i = r.session

(* Two runs share neither.                                                  *)
Apart(w, v) ==
  w # v /\ run[w].pc # "idle" /\ run[v].pc # "idle" =>
    /\ run[w].session # run[v].session
    /\ run[w].corr # 0 => run[w].corr # run[v].corr

(* TrailTellsOutcome and CorrelationOfOneRun, of one session and one event. *)
Tells(s) ==
  /\ s.fate = "labelled" => Spans(s, 2 * Len(Stages))
  /\ IF s.fate = "raised"
     THEN \/ FailedExits(s.events) = {Len(s.events)}
          \/ s.lost > 0 /\ FailedExits(s.events) = {}
     ELSE FailedExits(s.events) = {}

Named(e, msg) ==
  /\ e.corr = 0 => /\ e.msg = None
                   /\ e.stage = "ingest_stage"
                   /\ e.phase = "entered" \/ e.outcome # "ok"
  /\ e.corr # 0 => /\ e.msg \in {msg} \X Nat
                   /\ e.phase # "lifecycle" => e.msg = MessageId(msg)

NamedEvents ==
  \A i \in DOMAIN sessions : \A k \in DOMAIN sessions[i].events :
    /\ Named(sessions[i].events[k], sessions[i].msg)
    /\ sessions[i].events[k].corr <= correlations

UniqueEvents ==
  \A i, j \in DOMAIN sessions :
    \A k \in DOMAIN sessions[i].events, l \in DOMAIN sessions[j].events :
      sessions[i].events[k].corr = sessions[j].events[l].corr =>
        i = j \/ sessions[i].events[k].corr = 0

IInv ==
  /\ TypeOK
  /\ \A w \in Workers : RunInv(run[w]) /\ OwnSession(run[w]) /\ OwnCorrelation(run[w])
  /\ \A w, v \in Workers : Apart(w, v)
  /\ \A i \in DOMAIN sessions : Tells(sessions[i])
  /\ NamedEvents
  /\ UniqueEvents
-----------------------------------------------------------------------------
LEMMA StagesType ==
  /\ Len(Stages) \in Nat \ {0}
  /\ DOMAIN Stages = 1..Len(Stages)
  /\ \A i \in DOMAIN Stages : Stages[i] \in STRING /\ Stages[i] \in StageNames
BY StageAssumption DEF StageNames

LEMMA NewRunType ==
  ASSUME NEW pc \in {"idle", "enter"}, NEW e \in Emails \cup {None}, NEW s \in Nat
  PROVE  /\ NewRun(pc, e, s) \in Run
         /\ RunInv(NewRun(pc, e, s))
<1> DEFINE r == NewRun(pc, e, s)
<1>1. NoJob \in Job
  BY DEF NoJob, Job, Pending
<1>2. r \in Run
  BY <1>1, StagesType DEF NewRun, Run, Outcomes
<1>3. DocsInv(r) /\ LoopInv(r) /\ IngestInv(r)
  BY DEF DocsInv, LoopInv, IngestInv, NewRun
<1>4. JobInv(r)
  BY ServiceAssumptions DEF JobInv, NewRun, NoJob, StatusAt
<1> QED
  BY <1>2, <1>3, <1>4 DEF RunInv

(* A run has the fields of one, and a run under way a session.              *)
LEMMA Fields ==
  ASSUME IInv, NEW w \in Workers
  PROVE  /\ run[w] \in Run
         /\ run[w].pc \in {"idle", "enter", "body", "poll", "verdict", "exit", "label"}
         /\ run[w].msg \in Emails \cup {None}
         /\ run[w].session \in Nat
         /\ run[w].at \in 1..Len(Stages)
         /\ run[w].corr \in Nat
         /\ run[w].envelope \in Seq(Attachments)
         /\ run[w].replied \in BOOLEAN
         /\ run[w].pos \in Nat \ {0}
         /\ run[w].job \in Job
         /\ run[w].classified \in Seq(FileNames)
         /\ run[w].skipped \in Seq(Skip)
         /\ run[w].parsed \in Seq(ParsedDoc)
         /\ run[w].results \in Seq(Result)
         /\ run[w].passed \in SUBSET Documents
         /\ run[w].outcome \in Outcomes
         /\ RunInv(run[w]) /\ OwnSession(run[w]) /\ OwnCorrelation(run[w])
BY StagesType DEF IInv, TypeOK, Run

LEMMA SessionFields ==
  ASSUME TypeOK, NEW i \in DOMAIN sessions
  PROVE  /\ DOMAIN sessions = 1..Len(sessions)
         /\ sessions[i] \in Session
         /\ sessions[i].msg \in Emails
         /\ sessions[i].events \in Seq(AuditEvent)
         /\ DOMAIN sessions[i].events = 1..Len(sessions[i].events)
         /\ \A k \in DOMAIN sessions[i].events :
              /\ sessions[i].events[k] \in AuditEvent
              /\ sessions[i].events[k].corr \in Nat
         /\ sessions[i].lost \in Nat
         /\ sessions[i].fate \in Fates
<1>1. sessions \in Seq(Session) /\ DOMAIN sessions = 1..Len(sessions)
  BY DEF TypeOK
<1>2. sessions[i] \in Session
  BY <1>1
<1>3. sessions[i].events \in Seq(AuditEvent)
  BY <1>2 DEF Session
<1>4. \A k \in DOMAIN sessions[i].events : sessions[i].events[k] \in AuditEvent
  BY <1>3
<1>5. \A e \in AuditEvent : e.corr \in Nat
  BY DEF AuditEvent
<1> QED
  BY <1>1, <1>2, <1>3, <1>4, <1>5 DEF Session

(* What a session becomes when an event of it is written, or lost.          *)
Grown(s, event, kept) ==
  IF kept THEN [s EXCEPT !.events = Append(@, event)] ELSE [s EXCEPT !.lost = @ + 1]

LEMMA FailuresGrow ==
  ASSUME NEW events \in Seq(AuditEvent), FailedExits(events) = {}, NEW e \in AuditEvent
  PROVE  FailedExits(Append(events, e)) =
           IF e.phase = "exited" /\ e.outcome # "ok" THEN {Len(events) + 1} ELSE {}
<1> DEFINE more == Append(events, e)
<1>1. /\ DOMAIN more = 1..Len(events) + 1
      /\ more[Len(events) + 1] = e
      /\ \A i \in 1..Len(events) : i \in DOMAIN events /\ more[i] = events[i]
  OBVIOUS
<1>2. \A i \in 1..Len(events) : more[i].phase # "exited" \/ more[i].outcome = "ok"
  BY <1>1 DEF FailedExits
<1> QED
  BY <1>1, <1>2 DEF FailedExits

LEMMA BoundaryCount ==
  ASSUME NEW events \in Seq(AuditEvent)
  PROVE  /\ Cardinality(Boundary(events)) \in Nat
         /\ IsFiniteSet(Boundary(events))
         /\ Boundary(events) \subseteq 1..Len(events)
<1>1. Len(events) \in Nat /\ DOMAIN events = 1..Len(events)
  OBVIOUS
<1>2. IsFiniteSet(1..Len(events))
  BY <1>1, FS_Interval
<1> QED
  BY <1>1, <1>2, FS_Subset, FS_CardinalityType DEF Boundary

(* One more event counts if it is that of a stage's boundary.               *)
LEMMA BoundaryGrows ==
  ASSUME NEW events \in Seq(AuditEvent), NEW e \in AuditEvent
  PROVE  Cardinality(Boundary(Append(events, e))) =
           Cardinality(Boundary(events)) + (IF e.phase = "lifecycle" THEN 0 ELSE 1)
<1> DEFINE more == Append(events, e)
           n == Len(events)
<1>1. /\ n \in Nat /\ DOMAIN events = 1..n /\ DOMAIN more = 1..n + 1
      /\ more[n + 1] = e
      /\ \A i \in 1..n : more[i] = events[i]
  OBVIOUS
<1> HIDE DEF more, n
<1>2. /\ n + 1 \notin 1..n /\ n + 1 \in 1..n + 1
      /\ \A i \in 1..n + 1 : i \in 1..n \/ i = n + 1
      /\ \A i \in 1..n : i \in 1..n + 1
  BY <1>1
<1>3. /\ IsFiniteSet(Boundary(events)) /\ Cardinality(Boundary(events)) \in Nat
      /\ n + 1 \notin Boundary(events)
  BY <1>1, <1>2, BoundaryCount DEF Boundary
<1>4. Boundary(more) =
        Boundary(events) \cup (IF e.phase = "lifecycle" THEN {} ELSE {n + 1})
  BY <1>1, <1>2 DEF Boundary
<1>5. Cardinality(Boundary(more)) =
        Cardinality(Boundary(events)) + (IF e.phase = "lifecycle" THEN 0 ELSE 1)
  <2>1. CASE e.phase = "lifecycle"
    BY <1>3, <1>4, <2>1
  <2>2. CASE e.phase # "lifecycle"
    BY <1>3, <1>4, <2>2, FS_AddElement
  <2> QED
    BY <2>1, <2>2
<1> QED
  BY <1>5 DEF more

(* A session under way that grows by an event still has the fields of one,   *)
(* and spans one more, unless the event is not one of a stage's boundary.    *)
LEMMA GrownSession ==
  ASSUME NEW s \in Session, NEW e \in AuditEvent, NEW kept \in BOOLEAN,
         FailedExits(s.events) = {}, NEW n \in Nat, Spans(s, n)
  PROVE  LET g == Grown(s, e, kept)
         IN  /\ g \in Session
             /\ g.msg = s.msg /\ g.fate = s.fate
             /\ Spans(g, n + (IF e.phase = "lifecycle" THEN 0 ELSE 1))
             /\ \A k \in DOMAIN g.events :
                  (k \in DOMAIN s.events /\ g.events[k] = s.events[k]) \/ g.events[k] = e
             /\ IF e.phase = "exited" /\ e.outcome # "ok"
                THEN \/ FailedExits(g.events) = {Len(g.events)}
                     \/ g.lost > 0 /\ FailedExits(g.events) = {}
                ELSE FailedExits(g.events) = {}
<1>1. s.events \in Seq(AuditEvent) /\ s.lost \in Nat
  BY DEF Session
<1>1a. Cardinality(Boundary(s.events)) \in Nat
  BY <1>1, BoundaryCount
<1>2. CASE kept
  <2> DEFINE more == Append(s.events, e)
  <2>1. more \in Seq(AuditEvent) /\ Len(more) = Len(s.events) + 1
    BY <1>1
  <2>2. \A k \in DOMAIN more :
          (k \in DOMAIN s.events /\ more[k] = s.events[k]) \/ more[k] = e
    BY <1>1
  <2>3. Grown(s, e, kept) = [s EXCEPT !.events = more]
    BY <1>2 DEF Grown
  <2>4. FailedExits(more) =
          IF e.phase = "exited" /\ e.outcome # "ok" THEN {Len(more)} ELSE {}
    BY <1>1, <2>1, FailuresGrow
  <2>5. Cardinality(Boundary(more)) =
          Cardinality(Boundary(s.events)) + (IF e.phase = "lifecycle" THEN 0 ELSE 1)
    BY <1>1, BoundaryGrows
  <2> HIDE DEF more
  <2>6. [s EXCEPT !.events = more] \in Session
    BY <2>1 DEF Session
  <2>7. [s EXCEPT !.events = more].events = more /\ [s EXCEPT !.events = more].lost = s.lost
    BY DEF Session
  <2>8. Spans([s EXCEPT !.events = more], n + (IF e.phase = "lifecycle" THEN 0 ELSE 1))
    BY <1>1, <1>1a, <2>5, <2>7 DEF Spans
  <2> QED
    BY <2>2, <2>3, <2>4, <2>6, <2>7, <2>8 DEF Session
<1>3. CASE ~kept
  <2> DEFINE g == [s EXCEPT !.lost = @ + 1]
  <2>1. Grown(s, e, kept) = g
    BY <1>3 DEF Grown
  <2>2. g \in Session
    BY <1>1 DEF Session
  <2>3. g.events = s.events /\ g.lost = s.lost + 1 /\ g.msg = s.msg /\ g.fate = s.fate
    BY DEF Session
  <2> HIDE DEF g
  <2>4. Spans(g, n + (IF e.phase = "lifecycle" THEN 0 ELSE 1))
    BY <1>1, <1>1a, <2>3 DEF Spans
  <2> QED
    BY <1>1, <2>1, <2>2, <2>3, <2>4
<1> QED
  BY <1>2, <1>3

LEMMA EmittedIsGrown ==
  ASSUME NEW s \in DOMAIN sessions, NEW e, NEW kept \in BOOLEAN
  PROVE  Emitted(sessions, s, e, kept) = [sessions EXCEPT ![s] = Grown(sessions[s], e, kept)]
BY DEF Emitted, Grown

LEMMA InitIInv == Init => IInv
<1> SUFFICES ASSUME Init PROVE IInv
  OBVIOUS
<1>1. \A w \in Workers : run[w] = NewRun("idle", None, 0)
  BY DEF Init
<1>2. \A w \in Workers : run[w] \in Run /\ RunInv(run[w])
  BY <1>1, NewRunType
<1>3. TypeOK
  BY <1>2, BoundAssumptions DEF Init, TypeOK
<1>4. \A w \in Workers : OwnSession(run[w]) /\ OwnCorrelation(run[w]) /\ run[w].pc = "idle"
  BY <1>1 DEF OwnSession, OwnCorrelation, NewRun, Init
<1> QED
  BY <1>2, <1>3, <1>4 DEF Init, IInv, Apart, NamedEvents, UniqueEvents
-----------------------------------------------------------------------------
(* A step of a run under way that emits nothing: only its own state changes, *)
(* and it stays in the same place of its session.                           *)
LEMMA QuietPreserves ==
  ASSUME IInv, NEW w \in Workers, NEW r \in Run,
         run' = [run EXCEPT ![w] = r],
         UNCHANGED <<labelled, sessions, correlations>>,
         uploads' \in [FileNames -> Nat], filed' \subseteq Documents,
         faults' \in 0..MaxFaults, run[w].pc # "idle", r.pc # "idle",
         r.msg = run[w].msg, r.session = run[w].session, r.corr = run[w].corr,
         RunInv(r), Due(r) = Due(run[w])
  PROVE  IInv'
<1>1. /\ run'[w] = r
      /\ \A v \in Workers : v # w => run'[v] = run[v]
  BY DEF IInv, TypeOK
<1>2. TypeOK'
  BY DEF IInv, TypeOK
<1>3. \A v \in Workers : RunInv(run'[v])
  BY <1>1 DEF IInv
<1>4. \A v \in Workers : OwnSession(run[v])'
  BY <1>1 DEF IInv, OwnSession
<1>5. \A v \in Workers : OwnCorrelation(run[v])'
  BY <1>1 DEF IInv, OwnCorrelation
<1>6. \A v, u \in Workers : Apart(v, u)'
  BY <1>1 DEF IInv, Apart
<1> QED
  BY <1>2, <1>3, <1>4, <1>5, <1>6 DEF IInv, NamedEvents, UniqueEvents, RunInv, DocsInv,
     LoopInv, JobInv, IngestInv

(* A step of a run under way that writes to its session: what becomes of    *)
(* the run and of its session, and the correlation id both go by.           *)
LEMMA SessionPreserves ==
  ASSUME IInv, NEW w \in Workers, run[w].pc # "idle",
         NEW r \in Run, run' = [run EXCEPT ![w] = r], RunInv(r),
         NEW x \in Session, sessions' = [sessions EXCEPT ![run[w].session] = x],
         NEW c \in Nat,
         \/ c = run[w].corr /\ correlations' = correlations
         \/ c = correlations + 1 /\ correlations' = correlations + 1,
         labelled' \subseteq Emails, UNCHANGED uploads, filed' \subseteq Documents,
         faults' \in 0..MaxFaults, x.msg = run[w].msg, Tells(x),
         \A k \in DOMAIN x.events :
           \/ /\ k \in DOMAIN sessions[run[w].session].events
              /\ x.events[k] = sessions[run[w].session].events[k]
           \/ x.events[k].corr \in {0, c} /\ Named(x.events[k], x.msg),
         \/ r.pc = "idle" /\ r.corr = 0
         \/ /\ r.msg = run[w].msg /\ r.session = run[w].session /\ r.corr = c
            /\ x.fate = "running" /\ Spans(x, Due(r))
  PROVE  IInv'
<1> DEFINE s == run[w].session
<1>1. /\ run'[w] = r
      /\ \A v \in Workers : v # w => run'[v] = run[v]
  BY DEF IInv, TypeOK
<1>2. s \in DOMAIN sessions /\ sessions[s].msg = run[w].msg /\ run[w].msg \in Emails
  BY Fields DEF OwnSession
<1>3. /\ DOMAIN sessions' = DOMAIN sessions
      /\ sessions'[s] = x
      /\ \A i \in DOMAIN sessions : i # s => sessions'[i] = sessions[i]
  BY <1>2 DEF IInv, TypeOK
<1>4. correlations \in Nat /\ correlations' \in Nat /\ correlations <= correlations'
  BY DEF IInv, TypeOK
<1>5. TypeOK'
  <2>1. sessions' \in Seq(Session)
    BY <1>2 DEF IInv, TypeOK
  <2> QED
    BY <2>1, <1>4 DEF IInv, TypeOK
<1>6. \A v \in Workers : RunInv(run'[v])
  BY <1>1 DEF IInv
<1>7. \A v \in Workers : v # w /\ run[v].pc # "idle" => run[v].session # s
  BY DEF IInv, Apart
<1>8. \A v \in Workers : OwnSession(run[v])'
  <2>1. OwnSession(run[w])'
    BY <1>1, <1>2, <1>3 DEF OwnSession, Due, Spans
  <2>2. ASSUME NEW v \in Workers, v # w
        PROVE  OwnSession(run[v])'
    BY <2>2, <1>1, <1>3, <1>7, Fields DEF OwnSession, Due, Spans
  <2> QED
    BY <2>1, <2>2
(* Whose event has which correlation id.                                    *)
<1>9. \A i \in DOMAIN sessions : \A k \in DOMAIN sessions[i].events :
        /\ sessions[i].events[k].corr \in Nat
        /\ sessions[i].events[k].corr <= correlations
        /\ sessions[i].events[k].corr = c => c = 0 \/ i = s
  <2> SUFFICES ASSUME NEW i \in DOMAIN sessions, NEW k \in DOMAIN sessions[i].events
               PROVE  /\ sessions[i].events[k].corr \in Nat
                      /\ sessions[i].events[k].corr <= correlations
                      /\ sessions[i].events[k].corr = c => c = 0 \/ i = s
    OBVIOUS
  <2>1. sessions[i].events[k].corr \in Nat
    BY SessionFields DEF IInv
  <2>2. sessions[i].events[k].corr <= correlations
    BY DEF IInv, NamedEvents
  <2>3. OwnCorrelation(run[w])
    BY DEF IInv
  <2> QED
    BY <2>1, <2>2, <2>3, <1>4 DEF OwnCorrelation
<1>10. \A k \in DOMAIN x.events :
         \/ /\ k \in DOMAIN sessions[s].events
            /\ x.events[k] = sessions[s].events[k]
         \/ x.events[k].corr \in {0, c}
  OBVIOUS
<1>11. ASSUME NEW v \in Workers, v # w, run[v].pc # "idle", run[v].corr # 0
       PROVE  run[v].corr # c /\ run[v].corr <= correlations
  <2>1. run[v].corr <= correlations /\ run[v].corr \in Nat
    BY <1>11, Fields DEF OwnCorrelation
  <2>2. Apart(v, w)
    BY DEF IInv
  <2> QED
    BY <1>11, <2>1, <2>2, <1>4 DEF Apart
<1>12. \A v \in Workers : OwnCorrelation(run[v])'
  <2>1. OwnCorrelation(run[w])'
    <3>1. CASE r.pc = "idle" /\ r.corr = 0
      BY <3>1, <1>1, <1>4 DEF OwnCorrelation
    <3>2. CASE r.session = s /\ r.corr = c
      <4>1. c <= correlations'
        BY <1>4, Fields DEF OwnCorrelation
      <4>2. ASSUME NEW i \in DOMAIN sessions', NEW k \in DOMAIN sessions'[i].events,
                   sessions'[i].events[k].corr = c, c # 0
            PROVE  i = s
        BY <4>2, <1>3, <1>9
      <4> QED
        BY <3>2, <4>1, <4>2, <1>1 DEF OwnCorrelation
    <3> QED
      BY <3>1, <3>2
  <2>2. ASSUME NEW v \in Workers, v # w
        PROVE  OwnCorrelation(run[v])'
    <3>1. run[v].corr <= correlations'
      BY <1>4, Fields DEF OwnCorrelation
    <3>2. ASSUME run[v].pc # "idle", run[v].corr # 0,
                 NEW i \in DOMAIN sessions', NEW k \in DOMAIN sessions'[i].events,
                 sessions'[i].events[k].corr = run[v].corr
          PROVE  i = run[v].session
      <4>1. OwnCorrelation(run[v]) /\ run[v].session # s
        BY <2>2, <3>2, <1>7 DEF IInv
      <4>2. run[v].corr # c
        BY <2>2, <3>2, <1>11
      <4> QED
        BY <3>2, <4>1, <4>2, <1>2, <1>3, <1>10 DEF OwnCorrelation
    <3> QED
      BY <2>2, <3>1, <3>2, <1>1 DEF OwnCorrelation
  <2> QED
    BY <2>1, <2>2
<1>13. \A v, u \in Workers : Apart(v, u)'
  BY <1>1, <1>7, <1>11 DEF IInv, Apart
<1>14. \A i \in DOMAIN sessions' : Tells(sessions'[i])
  BY <1>3 DEF IInv
<1>15. NamedEvents'
  <2> SUFFICES ASSUME NEW i \in DOMAIN sessions', NEW k \in DOMAIN sessions'[i].events
               PROVE  /\ Named(sessions'[i].events[k], sessions'[i].msg)
                      /\ sessions'[i].events[k].corr <= correlations'
    BY DEF NamedEvents, Named
  <2>1. CASE i \in DOMAIN sessions /\ k \in DOMAIN sessions[i].events
             /\ sessions'[i].events[k] = sessions[i].events[k]
    <3>1. sessions'[i].msg = sessions[i].msg
      BY <1>2, <1>3
    <3> QED
      BY <2>1, <3>1, <1>4, <1>9 DEF IInv, NamedEvents
  <2>2. CASE i = s /\ x.events[k].corr \in {0, c} /\ Named(x.events[k], x.msg)
    <3>1. c <= correlations'
      BY <1>4, Fields DEF OwnCorrelation
    <3> QED
      BY <2>2, <3>1, <1>3, <1>4
  <2> QED
    BY <2>1, <2>2, <1>2, <1>3
<1>16. UniqueEvents'
  <2> SUFFICES ASSUME NEW i \in DOMAIN sessions', NEW j \in DOMAIN sessions', i # j,
                      NEW k \in DOMAIN sessions'[i].events,
                      NEW l \in DOMAIN sessions'[j].events,
                      sessions'[i].events[k].corr = sessions'[j].events[l].corr
               PROVE  sessions'[i].events[k].corr = 0
    BY DEF UniqueEvents
  <2>1. CASE i # s /\ j # s
    BY <2>1, <1>3 DEF IInv, UniqueEvents
  <2>2. CASE i = s
    BY <2>2, <1>2, <1>3, <1>9, <1>10 DEF IInv, UniqueEvents
  <2>3. CASE j = s
    BY <2>3, <1>2, <1>3, <1>9, <1>10 DEF IInv, UniqueEvents
  <2> QED
    BY <2>1, <2>2, <2>3
<1> QED
  BY <1>5, <1>6, <1>8, <1>12, <1>13, <1>14, <1>15, <1>16
  DEF IInv, RunInv, DocsInv, LoopInv, JobInv, IngestInv, Tells
-----------------------------------------------------------------------------
LEMMA ExtractingStage ==
  ASSUME IInv, NEW w \in Workers, NEW pc, Extracting(w, pc)
  PROVE  /\ run[w].pc = pc
         /\ StageOf(w) \in {"classify_stage", "parse_stage"}
         /\ run[w].at # 1
BY Fields, IngestFirst, StagesType DEF Extracting, In, StageOf

(* What the loop of an extracting stage has in hand is an attachment.       *)
LEMMA ItemType ==
  ASSUME IInv, NEW w \in Workers,
         StageOf(w) \in {"classify_stage", "parse_stage"}, Remaining(w)
  PROVE  /\ Item(w) \in Attachments
         /\ NameOf[Item(w)] \in FileNames
         /\ StageOf(w) = "classify_stage" =>
              run[w].pos \in DOMAIN run[w].envelope /\ Item(w) = run[w].envelope[run[w].pos]
         /\ StageOf(w) = "parse_stage" => run[w].classified[run[w].pos] \in FileNames
<1> DEFINE r == run[w]
<1>1. /\ r.envelope \in Seq(Attachments) /\ r.classified \in Seq(FileNames)
      /\ r.pos \in Nat \ {0}
  BY Fields
<1>2. \A a \in Attachments : NameOf[a] \in FileNames
  BY MailAssumptions
<1>3. CASE StageOf(w) = "classify_stage"
  <2>1. r.pos \in DOMAIN r.envelope
    BY <1>1, <1>3 DEF Remaining
  <2>2. Item(w) = r.envelope[r.pos]
    BY <1>3 DEF Item
  <2> QED
    BY <1>1, <1>2, <1>3, <2>1, <2>2
<1>4. CASE StageOf(w) = "parse_stage"
  <2> DEFINE name == r.classified[r.pos]
             same == {i \in DOMAIN r.envelope : NameOf[r.envelope[i]] = name}
  <2>1. r.pos \in DOMAIN r.classified
    BY <1>1, <1>4 DEF Remaining
  <2>2. name \in FileNames
    BY <1>1, <2>1
  <2>3. DocsInv(r)
    BY Fields DEF RunInv
  <2>4. same # {}
    BY <2>1, <2>3 DEF DocsInv
  <2>5. Len(r.envelope) \in Nat /\ same \in SUBSET (1..Len(r.envelope))
    BY <1>1
  <2>6. Max(same) \in same
    BY <2>4, <2>5, MaxIsMember
  <2>7. Item(w) = r.envelope[Max(same)]
    BY <1>4 DEF Item, BytesNamed
  <2>8. Max(same) \in DOMAIN r.envelope
    BY <2>6
  <2>9. Item(w) \in Attachments
    <3> HIDE DEF same
    <3> QED
      BY <1>1, <2>7, <2>8
  <2> QED
    BY <1>2, <1>4, <2>2, <2>9
<1> QED
  BY <1>3, <1>4

(* A body that raises.                                                      *)
LEMMA RaisedPreserves ==
  ASSUME IInv, NEW w \in Workers, run[w].pc \in {"body", "poll", "verdict"},
         NEW outcome \in {"error", "timeout"}, Raised(w, outcome),
         UNCHANGED <<labelled, sessions, correlations>>,
         uploads' \in [FileNames -> Nat], filed' \subseteq Documents,
         faults' \in 0..MaxFaults,
         outcome = "timeout" =>
           /\ run[w].job.spent > Budget
           /\ run[w].job.end \in Terminal(StageOf(w)) => Slow(run[w].job.due)
  PROVE  IInv'
<1> DEFINE r == [run[w] EXCEPT !.pc = "exit", !.outcome = outcome]
<1>1. run[w] \in Run /\ RunInv(run[w])
  BY Fields
<1>2. r \in Run
  BY <1>1 DEF Run, Outcomes
<1>3. /\ r.pc = "exit" /\ r.outcome = outcome
      /\ r.msg = run[w].msg /\ r.session = run[w].session /\ r.corr = run[w].corr
      /\ r.at = run[w].at /\ r.envelope = run[w].envelope /\ r.pos = run[w].pos
      /\ r.classified = run[w].classified /\ r.job = run[w].job
  BY <1>1 DEF Run
<1>4. run' = [run EXCEPT ![w] = r]
  BY DEF Raised, IInv, TypeOK
<1> HIDE DEF r
<1>5. RunInv(r)
  BY <1>1, <1>3 DEF RunInv, DocsInv, LoopInv, JobInv, IngestInv, StageOf
<1>6. Due(r) = Due(run[w])
  BY <1>1, <1>3, Fields DEF Due
<1> QED
  BY <1>2, <1>3, <1>4, <1>5, <1>6, QuietPreserves

LEMMA FaultBound ==
  ASSUME IInv, Mishap \/ UNCHANGED faults
  PROVE  faults' \in 0..MaxFaults
BY BoundAssumptions DEF IInv, TypeOK, Mishap, Mishaps

(* The entry a later stage has in hand is one of its list.                   *)
LEMMA EntryType ==
  ASSUME IInv, NEW w \in Workers, Entries(w) # {}
  PROVE  /\ Entry(w) \in Nat \ {0} /\ Entry(w) + 1 \in Nat \ {0}
         /\ IF StageOf(w) \in {"validate_stage", "persist_stage"}
            THEN /\ run[w].parsed[Entry(w)] \in ParsedDoc
                 /\ RecordId(w, run[w].parsed[Entry(w)]) \in {run[w].msg} \X Nat
            ELSE /\ run[w].results[Entry(w)] \in Result
                 /\ RecordId(w, run[w].results[Entry(w)]) \in {run[w].msg} \X Nat
<1>1. /\ run[w].pos \in Nat \ {0}
      /\ run[w].parsed \in Seq(ParsedDoc) /\ run[w].results \in Seq(Result)
  BY Fields
<1>2. Entries(w) \in SUBSET Nat
  BY <1>1 DEF Entries
<1>3. Entry(w) \in Entries(w)
  BY <1>2, MinIsMember DEF Entry
<1>4. IF StageOf(w) \in {"validate_stage", "persist_stage"}
      THEN Entry(w) \in run[w].pos..Len(run[w].parsed)
      ELSE Entry(w) \in run[w].pos..Len(run[w].results)
  BY <1>3 DEF Entries
<1>5. Entry(w) \in Nat \ {0} /\ Entry(w) + 1 \in Nat \ {0}
  BY <1>1, <1>4
<1>6. CASE StageOf(w) \in {"validate_stage", "persist_stage"}
  <2>1. run[w].parsed[Entry(w)] \in ParsedDoc
    BY <1>1, <1>4, <1>6
  <2> QED
    BY <1>5, <1>6, <2>1 DEF RecordId, ParsedDoc
<1>7. CASE StageOf(w) \notin {"validate_stage", "persist_stage"}
  <2>1. run[w].results[Entry(w)] \in Result
    BY <1>1, <1>4, <1>7
  <2> QED
    BY <1>5, <1>7, <2>1 DEF RecordId, Result
<1> QED
  BY <1>6, <1>7

LEMMA RaisingSteps ==
  ASSUME IInv, NEW w \in Workers,
         \/ SubmitRefused(w) \/ CreateFails(w) \/ GiveUp(w) \/ JobFailed(w)
         \/ PersistFails(w) \/ BodyFails(w)
  PROVE  IInv'
<1>1. uploads \in [FileNames -> Nat] /\ filed \subseteq Documents
  BY DEF IInv, TypeOK
<1>2. CASE SubmitRefused(w)
  BY <1>1, <1>2, FaultBound, ExtractingStage, RaisedPreserves DEF SubmitRefused
<1>3. CASE CreateFails(w)
  <2>1. NameOf[Item(w)] \in FileNames
    BY <1>3, ExtractingStage, ItemType DEF CreateFails
  <2>2. uploads' \in [FileNames -> Nat]
    BY <1>1, <1>3, <2>1 DEF CreateFails
  <2> QED
    BY <1>1, <1>3, <2>2, FaultBound, ExtractingStage, RaisedPreserves DEF CreateFails
<1>4. CASE GiveUp(w)
  <2> DEFINE job == run[w].job
  <2>1. /\ job \in Job
        /\ job.spent < job.read + MaxCall /\ job.seen = StatusAt(job, job.read)
    BY Fields DEF RunInv, JobInv
  <2>2. job.seen \notin Terminal(StageOf(w)) /\ job.spent > Budget
    BY <1>4 DEF GiveUp, Seen
  <2>3. job.end \in Terminal(StageOf(w)) => Slow(job.due)
    <3>1. job.end \in Terminal(StageOf(w)) => job.read < job.due
      BY <2>1, <2>2 DEF StatusAt, Job
    <3>2. job.due \in Nat /\ job.read \in Nat /\ job.spent \in Nat
      BY <2>1 DEF Job
    <3> QED
      BY <2>1, <2>2, <3>1, <3>2, ServiceAssumptions DEF Slow
  <2> QED
    BY <1>1, <1>4, <2>2, <2>3, FaultBound, ExtractingStage, RaisedPreserves DEF GiveUp
<1>5. CASE JobFailed(w)
  BY <1>1, <1>5, FaultBound, ExtractingStage, RaisedPreserves DEF JobFailed
<1>6. CASE BodyFails(w)
  BY <1>1, <1>6, FaultBound, RaisedPreserves DEF BodyFails
<1>7. CASE PersistFails(w)
  <2> DEFINE doc == RecordId(w, run[w].parsed[Entry(w)])
  <2>1. /\ run[w].pc = "body" /\ StageOf(w) = "persist_stage" /\ Entries(w) # {}
        /\ filed' = filed \cup {doc} /\ UNCHANGED uploads
    BY <1>7 DEF PersistFails, In
  <2>2. run[w].msg \in Emails
    BY <2>1, Fields DEF OwnSession
  <2>3. doc \in Documents
    BY <2>1, <2>2, EntryType DEF Documents
  <2> HIDE DEF doc
  <2>4. filed' \subseteq Documents /\ uploads' \in [FileNames -> Nat]
    BY <1>1, <2>1, <2>3
  <2> QED
    BY <1>7, <2>1, <2>4, FaultBound, RaisedPreserves DEF PersistFails
<1> QED
  BY <1>2, <1>3, <1>4, <1>5, <1>6, <1>7

LEMMA SubmitStep ==
  ASSUME IInv, NEW w \in Workers, Submit(w)
  PROVE  IInv'
<1>1. /\ run[w].pc = "body" /\ Remaining(w) /\ run[w].at # 1
      /\ StageOf(w) \in {"classify_stage", "parse_stage"}
  BY ExtractingStage DEF Submit
<1>2. PICK due \in 0..MaxDue, end \in JobEnds :
        LET job == [NoJob EXCEPT !.due = due, !.end = end]
        IN  run' = [run EXCEPT ![w].pc = "poll",
                               ![w].job = [job EXCEPT !.seen = StatusAt(job, 0)]]
  BY DEF Submit
<1> DEFINE base == [NoJob EXCEPT !.due = due, !.end = end]
           job == [base EXCEPT !.seen = StatusAt(base, 0)]
           r == [run[w] EXCEPT !.pc = "poll", !.job = job]
<1>3. run[w] \in Run /\ RunInv(run[w])
  BY Fields
<1>4. /\ base \in Job
      /\ base.due = due /\ base.end = end /\ base.spent = 0 /\ base.read = 0
  <2>1. NoJob \in Job /\ NoJob.spent = 0 /\ NoJob.read = 0
    BY DEF NoJob, Job
  <2>2. due \in Nat
    BY ServiceAssumptions
  <2> QED
    BY <2>1, <2>2 DEF Job
<1>5. run' = [run EXCEPT ![w] = r]
  BY <1>2 DEF IInv, TypeOK
<1> HIDE DEF base
<1>6. /\ job \in Job
      /\ job.due = base.due /\ job.end = base.end /\ job.seen = StatusAt(base, 0)
      /\ job.spent = 0 /\ job.read = 0
  <2>1. StatusAt(base, 0) \in JobEnds \cup {Pending}
    BY <1>4 DEF StatusAt
  <2> QED
    BY <1>4, <2>1 DEF Job
<1>7. /\ job.spent <= Budget + MaxCall /\ job.spent < job.read + MaxCall
      /\ job.seen = StatusAt(job, job.read)
  BY <1>6, ServiceAssumptions DEF StatusAt
<1> HIDE DEF job
<1>8. r \in Run
  BY <1>3, <1>6 DEF Run
<1>9. /\ r.pc = "poll" /\ r.outcome = run[w].outcome /\ r.job = job
      /\ r.msg = run[w].msg /\ r.session = run[w].session /\ r.corr = run[w].corr
      /\ r.at = run[w].at /\ r.envelope = run[w].envelope /\ r.pos = run[w].pos
      /\ r.classified = run[w].classified
  BY <1>3 DEF Run
<1> HIDE DEF r
<1>10. run[w].outcome = "ok"
  BY <1>1, <1>3 DEF RunInv, IngestInv
<1>11. LoopInv(r)
  BY <1>1, <1>9 DEF LoopInv, Remaining, StageOf
<1>12. RunInv(r)
  BY <1>1, <1>3, <1>7, <1>9, <1>10, <1>11 DEF RunInv, DocsInv, JobInv, IngestInv
<1>13. Due(r) = Due(run[w])
  BY <1>1, <1>9 DEF Due
<1>14. uploads' \in [FileNames -> Nat]
  BY <1>1, ItemType DEF Submit, IInv, TypeOK
<1>15. faults' \in 0..MaxFaults
  BY FaultBound DEF Submit
<1>16. filed' \subseteq Documents
  BY DEF Submit, IInv, TypeOK
<1> QED
  BY <1>16, <1>1, <1>5, <1>8, <1>9, <1>12, <1>13, <1>14, <1>15, QuietPreserves DEF Submit

LEMMA PollStep ==
  ASSUME IInv, NEW w \in Workers, Poll(w)
  PROVE  IInv'
<1>1. run[w].pc = "poll" /\ run[w].job.spent <= Budget
  BY ExtractingStage DEF Poll
<1> DEFINE job == run[w].job
<1>2. PICK call \in 1..MaxCall :
        \E read \in 1..call :
          run' = [run EXCEPT ![w].job.spent = job.spent + call,
                             ![w].job.read = job.spent + read,
                             ![w].job.seen = StatusAt(job, job.spent + read)]
  BY DEF Poll
<1>3. PICK read \in 1..call :
        run' = [run EXCEPT ![w].job.spent = job.spent + call,
                           ![w].job.read = job.spent + read,
                           ![w].job.seen = StatusAt(job, job.spent + read)]
  BY <1>2
<1> DEFINE spent == job.spent + call
           asked == job.spent + read
           seen == StatusAt(job, asked)
           new == [job EXCEPT !.spent = spent, !.read = asked, !.seen = seen]
           r == [run[w] EXCEPT !.job = new]
<1>4. run[w] \in Run /\ RunInv(run[w]) /\ job \in Job
  BY Fields
<1>5. /\ spent \in Nat /\ asked \in Nat /\ seen \in JobEnds \cup {Pending}
      /\ spent <= Budget + MaxCall /\ spent < asked + MaxCall
  <2>1. job.spent \in Nat /\ MaxCall \in Nat /\ Budget \in Nat
    BY <1>4, ServiceAssumptions DEF Job
  <2> QED
    BY <1>1, <1>4, <2>1 DEF StatusAt, Job
<1>6. seen = StatusAt(job, asked)
  OBVIOUS
<1>7. run' = [run EXCEPT ![w] = r]
  BY <1>3, <1>4 DEF IInv, TypeOK, Run
<1> HIDE DEF spent, asked, seen
<1>8. /\ new \in Job
      /\ new.spent = spent /\ new.read = asked /\ new.seen = seen
      /\ new.due = job.due /\ new.end = job.end
  BY <1>4, <1>5 DEF Job
<1>8a. new.seen = StatusAt(new, new.read)
  BY <1>6, <1>8 DEF StatusAt
<1> HIDE DEF new
<1>9. r \in Run
  BY <1>4, <1>8 DEF Run
<1>10. /\ r.pc = "poll" /\ r.outcome = run[w].outcome /\ r.job = new
       /\ r.msg = run[w].msg /\ r.session = run[w].session /\ r.corr = run[w].corr
       /\ r.at = run[w].at /\ r.envelope = run[w].envelope /\ r.pos = run[w].pos
       /\ r.classified = run[w].classified
  BY <1>1, <1>4 DEF Run
<1> HIDE DEF r
<1>11. run[w].outcome = "ok"
  BY <1>1, <1>4 DEF RunInv, IngestInv
<1>12. JobInv(r)
  BY <1>5, <1>8, <1>10, <1>11, <1>8a DEF JobInv
<1>13. RunInv(r)
  BY <1>1, <1>4, <1>10, <1>11, <1>12 DEF RunInv, DocsInv, LoopInv, IngestInv
<1>14. Due(r) = Due(run[w])
  BY <1>1, <1>10 DEF Due
<1> QED
  BY <1>1, <1>7, <1>9, <1>10, <1>13, <1>14, FaultBound, QuietPreserves
  DEF Poll, IInv, TypeOK

(* An item of the loop of Classify or Parse is done: the body goes on.      *)
LEMMA ItemDonePreserves ==
  ASSUME IInv, NEW w \in Workers, run[w].pc = "poll", run[w].at # 1,
         NEW classified \in Seq(FileNames), NEW skipped \in Seq(Skip),
         NEW parsed \in Seq(ParsedDoc),
         \A i \in DOMAIN classified :
           \E j \in DOMAIN run[w].envelope : NameOf[run[w].envelope[j]] = classified[i],
         run' = [run EXCEPT ![w] = [run[w] EXCEPT
                   !.pc = "body", !.pos = @ + 1, !.job = NoJob,
                   !.classified = classified, !.skipped = skipped, !.parsed = parsed]],
         UNCHANGED <<labelled, sessions, correlations, uploads, filed, faults>>
  PROVE  IInv'
<1> DEFINE r == [run[w] EXCEPT !.pc = "body", !.pos = @ + 1, !.job = NoJob,
                   !.classified = classified, !.skipped = skipped, !.parsed = parsed]
<1>1. run[w] \in Run /\ RunInv(run[w]) /\ run[w].pos + 1 \in Nat \ {0}
  BY Fields
<1>2. NoJob \in Job
  BY DEF NoJob, Job
<1>3. r \in Run
  BY <1>1, <1>2 DEF Run
<1>4. /\ r.pc = "body" /\ r.outcome = run[w].outcome /\ r.job = NoJob
      /\ r.msg = run[w].msg /\ r.session = run[w].session /\ r.corr = run[w].corr
      /\ r.at = run[w].at /\ r.envelope = run[w].envelope /\ r.classified = classified
  BY <1>1 DEF Run
<1>5. run' = [run EXCEPT ![w] = r]
  OBVIOUS
<1> HIDE DEF r
<1>6. run[w].outcome = "ok"
  BY <1>1 DEF RunInv, IngestInv
<1>7. JobInv(r)
  BY <1>4, <1>6, ServiceAssumptions DEF JobInv, NoJob, StatusAt
<1>8. RunInv(r)
  BY <1>1, <1>4, <1>6, <1>7 DEF RunInv, DocsInv, LoopInv, IngestInv
<1>9. Due(r) = Due(run[w])
  BY <1>4 DEF Due
<1> QED
  BY <1>3, <1>4, <1>5, <1>8, <1>9, QuietPreserves DEF IInv, TypeOK

LEMMA ClassifyStep ==
  ASSUME IInv, NEW w \in Workers, Classify(w)
  PROVE  IInv'
<1> DEFINE name == NameOf[Item(w)]
           r == run[w]
<1>1. /\ r.pc = "poll" /\ StageOf(w) = "classify_stage" /\ r.at # 1
  BY ExtractingStage DEF Classify, Extracting, In
<1>2. Remaining(w)
  BY <1>1, Fields DEF RunInv, LoopInv, Remaining, StageOf
<1>3. /\ name \in FileNames
      /\ r.pos \in DOMAIN r.envelope /\ Item(w) = r.envelope[r.pos]
  BY <1>1, <1>2, ItemType
<1>4. PICK intent \in IntentsOf[Item(w)] :
        run' = [run EXCEPT
          ![w].pc = "body", ![w].pos = @ + 1, ![w].job = NoJob,
          ![w].classified = IF intent = "purchase_order" THEN Append(@, name) ELSE @,
          ![w].skipped = IF intent = "purchase_order" THEN @
                         ELSE Append(@, SkipOf(w, name))]
  BY DEF Classify
<1> DEFINE classified == IF intent = "purchase_order" THEN Append(r.classified, name)
                         ELSE r.classified
           skipped == IF intent = "purchase_order" THEN r.skipped
                      ELSE Append(r.skipped, SkipOf(w, name))
<1>5. /\ r \in Run /\ r.classified \in Seq(FileNames) /\ r.skipped \in Seq(Skip)
      /\ r.parsed \in Seq(ParsedDoc)
  BY Fields
<1>6. SkipOf(w, name) \in Skip
  BY <1>1, <1>3, Fields, StagesType DEF SkipOf, Skip, StageOf
<1>7. classified \in Seq(FileNames) /\ skipped \in Seq(Skip)
  BY <1>3, <1>5, <1>6
<1>8. ASSUME NEW i \in DOMAIN classified
      PROVE  \E j \in DOMAIN r.envelope : NameOf[r.envelope[j]] = classified[i]
  <2>1. DocsInv(r)
    BY Fields DEF RunInv
  <2>2. (i \in DOMAIN r.classified /\ classified[i] = r.classified[i]) \/ classified[i] = name
    BY <1>5
  <2> QED
    BY <1>3, <2>1, <2>2 DEF DocsInv
<1>9. run' = [run EXCEPT ![w] = [r EXCEPT
                !.pc = "body", !.pos = @ + 1, !.job = NoJob,
                !.classified = classified, !.skipped = skipped, !.parsed = r.parsed]]
  BY <1>4, <1>5 DEF IInv, TypeOK, Run
<1>10. UNCHANGED <<labelled, sessions, correlations, uploads, filed, faults>>
  BY DEF Classify
<1> HIDE DEF classified, skipped
<1> QED
  BY <1>1, <1>5, <1>7, <1>8, <1>9, <1>10, ItemDonePreserves

LEMMA ParseStep ==
  ASSUME IInv, NEW w \in Workers, Parse(w)
  PROVE  IInv'
<1> DEFINE r == run[w]
           name == r.classified[r.pos]
<1>1. /\ r.pc = "poll" /\ StageOf(w) = "parse_stage" /\ r.at # 1
  BY ExtractingStage DEF Parse, Extracting, In
<1>2. Remaining(w)
  BY <1>1, Fields DEF RunInv, LoopInv, Remaining, StageOf
<1>3. name \in FileNames /\ Item(w) \in Attachments
  BY <1>1, <1>2, ItemType
<1>4. PICK n \in OrdersIn[Item(w)] :
        run' = [run EXCEPT
          ![w].pc = "body", ![w].pos = @ + 1, ![w].job = NoJob,
          ![w].skipped = IF n = 0 THEN AppendSkip(w, name) ELSE @,
          ![w].parsed = @ \o [i \in 1..n |-> [name |-> name, idx |-> i - 1,
                                              bytes |-> Item(w)]]]
  BY DEF Parse
<1> DEFINE docs == [i \in 1..n |-> [name |-> name, idx |-> i - 1, bytes |-> Item(w)]]
           skipped == IF n = 0 THEN AppendSkip(w, name) ELSE r.skipped
<1>5. /\ r \in Run /\ r.classified \in Seq(FileNames) /\ r.skipped \in Seq(Skip)
      /\ r.parsed \in Seq(ParsedDoc)
  BY Fields
<1>6. SkipOf(w, name) \in Skip
  BY <1>1, <1>3, Fields, StagesType DEF SkipOf, Skip, StageOf
<1>7. skipped \in Seq(Skip)
  BY <1>5, <1>6 DEF AppendSkip
<1>8. n \in Nat
  BY <1>3, ServiceAssumptions
<1>9. docs \in Seq(ParsedDoc)
  <2>1. \A i \in 1..n : [name |-> name, idx |-> i - 1, bytes |-> Item(w)] \in ParsedDoc
    BY <1>3, <1>8 DEF ParsedDoc
  <2> QED
    BY <1>8, <2>1
<1>10. r.parsed \o docs \in Seq(ParsedDoc)
  <2> HIDE DEF docs
  <2> QED
    BY <1>5, <1>9
<1>11. run' = [run EXCEPT ![w] = [r EXCEPT
                 !.pc = "body", !.pos = @ + 1, !.job = NoJob,
                 !.classified = r.classified, !.skipped = skipped,
                 !.parsed = r.parsed \o docs]]
  BY <1>4, <1>5 DEF IInv, TypeOK, Run
<1>12. DocsInv(r)
  BY Fields DEF RunInv
<1>13. \A i \in DOMAIN r.classified :
         \E j \in DOMAIN r.envelope : NameOf[r.envelope[j]] = r.classified[i]
  BY <1>12 DEF DocsInv
<1>14. UNCHANGED <<labelled, sessions, correlations, uploads, filed, faults>>
  BY DEF Parse
<1> HIDE DEF docs, skipped, name
<1> QED
  BY <1>1, <1>5, <1>7, <1>10, <1>11, <1>13, <1>14, ItemDonePreserves

(* A body that comes to its end without an exception.                       *)
LEMMA BodyEndPreserves ==
  ASSUME IInv, NEW w \in Workers, run[w].pc = "body", run[w].at # 1,
         NEW replied \in BOOLEAN,
         run' = [run EXCEPT ![w] = [run[w] EXCEPT !.pc = "exit", !.replied = replied]],
         UNCHANGED <<labelled, sessions, correlations, uploads, filed, faults>>
  PROVE  IInv'
<1> DEFINE r == [run[w] EXCEPT !.pc = "exit", !.replied = replied]
<1>1. run[w] \in Run /\ RunInv(run[w])
  BY Fields
<1>2. r \in Run
  BY <1>1 DEF Run
<1>3. /\ r.pc = "exit" /\ r.outcome = run[w].outcome /\ r.job = run[w].job
      /\ r.msg = run[w].msg /\ r.session = run[w].session /\ r.corr = run[w].corr
      /\ r.at = run[w].at /\ r.envelope = run[w].envelope /\ r.pos = run[w].pos
      /\ r.classified = run[w].classified
  BY <1>1 DEF Run
<1>4. run' = [run EXCEPT ![w] = r]
  OBVIOUS
<1> HIDE DEF r
<1>5. run[w].outcome = "ok"
  BY <1>1 DEF RunInv, IngestInv
<1>6. RunInv(r)
  BY <1>1, <1>3, <1>5 DEF RunInv, DocsInv, LoopInv, JobInv, IngestInv
<1>7. Due(r) = Due(run[w])
  BY <1>3 DEF Due
<1> QED
  BY <1>2, <1>3, <1>4, <1>6, <1>7, QuietPreserves DEF IInv, TypeOK

LEMMA BodyEndSteps ==
  ASSUME IInv, NEW w \in Workers, ShortCircuit(w) \/ BodyDone(w)
  PROVE  IInv'
<1>1. run[w] \in Run /\ run[w].replied \in BOOLEAN /\ run[w].at \in DOMAIN Stages
  BY Fields, StagesType
<1>2. CASE ShortCircuit(w)
  <2>1. run[w].pc = "body" /\ run[w].at # 1
    BY <1>1, <1>2, IngestFirst DEF ShortCircuit, In, StageOf
  <2>2. PICK replied \in BOOLEAN :
          run' = [run EXCEPT ![w].pc = "exit", ![w].replied = replied]
    BY <1>2 DEF ShortCircuit
  <2>3. run' = [run EXCEPT ![w] = [run[w] EXCEPT !.pc = "exit", !.replied = replied]]
    BY <2>2 DEF IInv, TypeOK
  <2>4. UNCHANGED <<labelled, sessions, correlations, uploads, filed, faults>>
    BY <1>2 DEF ShortCircuit
  <2> QED
    BY <2>1, <2>3, <2>4, BodyEndPreserves
<1>3. CASE BodyDone(w)
  <2>1. run[w].pc = "body" /\ run[w].at # 1
    BY <1>1, <1>3, IngestFirst DEF BodyDone, StageOf
  <2>2. run' = [run EXCEPT ![w] = [run[w] EXCEPT !.pc = "exit",
                                                 !.replied = run[w].replied]]
    BY <1>1, <1>3 DEF BodyDone, IInv, TypeOK, Run
  <2>3. UNCHANGED <<labelled, sessions, correlations, uploads, filed, faults>>
    BY <1>3 DEF BodyDone
  <2> QED
    BY <1>1, <2>1, <2>2, <2>3, BodyEndPreserves
<1> QED
  BY <1>2, <1>3
-----------------------------------------------------------------------------
LEMMA StartStep ==
  ASSUME IInv, NEW w \in Workers, NEW e \in Emails, Start(w, e)
  PROVE  IInv'
<1> DEFINE n == Len(sessions) + 1
           r == NewRun("enter", e, n)
           x == NewSession(e)
<1>1. sessions \in Seq(Session) /\ DOMAIN sessions = 1..Len(sessions)
  BY DEF IInv, TypeOK
<1>2. r \in Run /\ RunInv(r)
  BY <1>1, NewRunType
<1>3. /\ r.pc = "enter" /\ r.msg = e /\ r.session = n /\ r.corr = 0 /\ Due(r) = 0
  BY DEF NewRun, Due
<1>4. /\ x \in Session /\ x.msg = e /\ x.fate = "running"
      /\ x.events = <<>> /\ x.lost = 0 /\ Spans(x, 0)
  <2>1. x \in Session /\ x.msg = e /\ x.fate = "running" /\ x.events = <<>> /\ x.lost = 0
    BY DEF NewSession, Session, Fates
  <2>2. Cardinality(Boundary(x.events)) = 0
    BY <2>1, FS_EmptySet DEF Boundary
  <2> QED
    BY <2>1, <2>2 DEF Spans
<1>5. run[w].pc = "idle" /\ run' = [run EXCEPT ![w] = r] /\ sessions' = Append(sessions, x)
  BY DEF Start
<1> HIDE DEF r, x
<1>6. /\ run'[w] = r
      /\ \A v \in Workers : v # w => run'[v] = run[v]
  BY <1>5 DEF IInv, TypeOK
<1>7. /\ DOMAIN sessions' = 1..n /\ sessions'[n] = x
      /\ \A i \in DOMAIN sessions : i \in DOMAIN sessions' /\ sessions'[i] = sessions[i]
      /\ \A i \in DOMAIN sessions' : i # n => i \in DOMAIN sessions
      /\ n \notin DOMAIN sessions
  BY <1>1, <1>5
<1> HIDE DEF n
<1>8. TypeOK'
  BY <1>1, <1>2, <1>4, <1>5 DEF IInv, TypeOK, Start
<1>9. \A v \in Workers : OwnSession(run[v])'
  <2>1. OwnSession(run[w])'
    <3>1. n \in DOMAIN sessions' /\ sessions'[n] = x
      BY <1>1, <1>7 DEF n
    <3>2. Spans(sessions'[n], Due(run'[w]))
      BY <1>3, <1>4, <1>6, <3>1
    <3> QED
      BY <1>3, <1>4, <1>6, <3>1, <3>2 DEF OwnSession, Due, Spans
  <2>2. ASSUME NEW v \in Workers, v # w
        PROVE  OwnSession(run[v])'
    BY <2>2, <1>6, <1>7 DEF IInv, OwnSession
  <2> QED
    BY <2>1, <2>2
<1>10. correlations' = correlations /\ correlations \in Nat
  BY DEF Start, IInv, TypeOK
<1>11. \A v \in Workers : OwnCorrelation(run[v])'
  BY <1>3, <1>4, <1>6, <1>7, <1>10 DEF IInv, OwnCorrelation
<1>12. \A v, u \in Workers : Apart(v, u)'
  BY <1>3, <1>6, <1>7 DEF IInv, Apart, OwnSession
<1>13. Tells(x)
  BY <1>4 DEF Tells, FailedExits
<1>14. \A i \in DOMAIN sessions' : Tells(sessions'[i])
  BY <1>7, <1>13 DEF IInv
<1>15. NamedEvents' /\ UniqueEvents'
  BY <1>4, <1>7, <1>10 DEF IInv, NamedEvents, UniqueEvents, Named
<1>16. \A v \in Workers : RunInv(run'[v])
  BY <1>2, <1>6 DEF IInv
<1> QED
  BY <1>8, <1>9, <1>11, <1>12, <1>14, <1>15, <1>16
  DEF IInv, RunInv, DocsInv, LoopInv, JobInv, IngestInv, Tells

(* The events a stage emits are events, named as they should be.            *)
LEMMA EventOfType ==
  ASSUME IInv, NEW w \in Workers, run[w].pc # "idle",
         NEW phase \in {"entered", "exited"}, NEW outcome \in Outcomes \cup {None}
  PROVE  /\ EventOf(w, phase, outcome) \in AuditEvent
         /\ EventOf(w, phase, outcome).corr = run[w].corr
         /\ EventOf(w, phase, outcome).phase = phase
         /\ EventOf(w, phase, outcome).outcome = outcome
         /\ phase = "entered" \/ (run[w].pc = "exit" /\ outcome = run[w].outcome) =>
              Named(EventOf(w, phase, outcome), run[w].msg)
<1>1. /\ run[w].corr \in Nat /\ run[w].msg \in Emails
      /\ run[w].at \in DOMAIN Stages /\ StageOf(w) \in StageNames
      /\ IngestInv(run[w])
  BY Fields, StagesType DEF OwnSession, RunInv, StageOf
<1>2. SourceMessageId(w) = IF run[w].corr = 0 THEN None ELSE MessageId(run[w].msg)
  BY <1>1 DEF SourceMessageId, IngestInv
<1>3. run[w].corr = 0 => StageOf(w) = "ingest_stage"
  BY <1>1, IngestFirst DEF IngestInv, StageOf
<1>4. MessageId(run[w].msg) \in Documents /\ MessageId(run[w].msg) \in {run[w].msg} \X Nat
  BY <1>1 DEF MessageId, Documents
<1>5. EventOf(w, phase, outcome) \in AuditEvent
  BY <1>1, <1>2, <1>4 DEF EventOf, AuditEvent, Phases
<1>6. phase = "entered" \/ (run[w].pc = "exit" /\ outcome = run[w].outcome) =>
        Named(EventOf(w, phase, outcome), run[w].msg)
  BY <1>1, <1>2, <1>3, <1>4 DEF Named, EventOf, IngestInv
<1> QED
  BY <1>5, <1>6 DEF EventOf

(* So are those a body emits, if they are about a record of the message.     *)
LEMMA LifecycleType ==
  ASSUME NEW e \in Emails, NEW msg \in {e} \X Nat, NEW corr \in Nat \ {0},
         NEW outcome \in Told \cup {None}
  PROVE  /\ Lifecycle(corr, msg, outcome) \in AuditEvent
         /\ Lifecycle(corr, msg, outcome).corr = corr
         /\ Lifecycle(corr, msg, outcome).phase = "lifecycle"
         /\ Named(Lifecycle(corr, msg, outcome), e)
<1>1. msg \in Documents
  BY DEF Documents
<1>2. Lifecycle(corr, msg, outcome) \in AuditEvent
  BY <1>1 DEF Lifecycle, AuditEvent, Phases
<1>3. Named(Lifecycle(corr, msg, outcome), e)
  BY DEF Lifecycle, Named
<1> QED
  BY <1>2, <1>3 DEF Lifecycle

(* An event is kept or lost, and the mishaps are counted.                    *)
LEMMA EmitOutcome ==
  ASSUME IInv, NEW w \in Workers, NEW e, NEW n \in Nat, Emit(w, e, n)
  PROVE  /\ \E kept \in BOOLEAN : sessions' = Emitted(sessions, run[w].session, e, kept)
         /\ faults' \in 0..MaxFaults
<1> DEFINE after(kept) == Emitted(sessions, run[w].session, e, kept)
<1>1. PICK m \in {n, n + 1}, kept \in BOOLEAN : Mishaps(m) /\ sessions' = after(kept)
  BY DEF Emit
<1> HIDE DEF after
<1>2. faults \in 0..MaxFaults
  BY DEF IInv, TypeOK
<1>3. faults' \in 0..MaxFaults
  BY <1>1, <1>2, BoundAssumptions DEF Mishaps
<1> QED
  BY <1>1, <1>3 DEF after

LEMMA DueType ==
  ASSUME NEW r \in Run
  PROVE  Due(r) \in Nat
<1>1. r.at \in 1..Len(Stages) /\ Len(Stages) \in Nat
  BY StagesType DEF Run
<1>2. 2 * r.at - 2 \in Nat /\ 2 * r.at - 1 \in Nat /\ 2 * Len(Stages) \in Nat
  BY <1>1
<1> QED
  BY <1>2 DEF Due

(* The session of a run under way.                                          *)
LEMMA OpenSession ==
  ASSUME IInv, NEW w \in Workers, run[w].pc # "idle"
  PROVE  /\ run[w].session \in DOMAIN sessions
         /\ sessions[run[w].session] \in Session
         /\ sessions[run[w].session].events \in Seq(AuditEvent)
         /\ sessions[run[w].session].lost \in Nat
         /\ sessions[run[w].session].msg = run[w].msg
         /\ sessions[run[w].session].fate = "running"
         /\ FailedExits(sessions[run[w].session].events) = {}
         /\ Spans(sessions[run[w].session], Due(run[w]))
<1>1. OwnSession(run[w]) /\ TypeOK
  BY Fields DEF IInv
<1>2. run[w].session \in DOMAIN sessions
  BY <1>1 DEF OwnSession
<1>3. Tells(sessions[run[w].session])
  BY <1>2 DEF IInv
<1> QED
  BY <1>1, <1>2, <1>3, SessionFields DEF OwnSession, Tells

(* A run that emits an event, and then is where it is told to be.           *)
LEMMA EmitPreserves ==
  ASSUME IInv, NEW w \in Workers, run[w].pc # "idle",
         NEW e \in AuditEvent, NEW kept \in BOOLEAN,
         sessions' = Emitted(sessions, run[w].session, e, kept),
         NEW r \in Run, run' = [run EXCEPT ![w] = r], RunInv(r), r.pc # "idle",
         r.msg = run[w].msg, r.session = run[w].session,
         \/ r.corr = run[w].corr /\ correlations' = correlations
         \/ r.corr = correlations + 1 /\ correlations' = correlations + 1,
         e.corr \in {0, r.corr}, Named(e, run[w].msg),
         e.phase = "exited" => e.outcome = "ok",
         Due(r) = Due(run[w]) + (IF e.phase = "lifecycle" THEN 0 ELSE 1),
         UNCHANGED <<labelled, uploads>>, filed' \subseteq Documents,
         faults' \in 0..MaxFaults
  PROVE  IInv'
<1> DEFINE s == sessions[run[w].session]
           x == Grown(s, e, kept)
<1>1. /\ run[w].session \in DOMAIN sessions /\ s \in Session
      /\ s.msg = run[w].msg /\ s.fate = "running" /\ FailedExits(s.events) = {}
      /\ Spans(s, Due(run[w])) /\ Due(run[w]) \in Nat
  BY OpenSession, DueType, Fields
<1>2. sessions' = [sessions EXCEPT ![run[w].session] = x]
  BY <1>1, EmittedIsGrown
<1> HIDE DEF s
<1>3. /\ x \in Session
      /\ x.msg = s.msg /\ x.fate = s.fate
      /\ Spans(x, Due(run[w]) + (IF e.phase = "lifecycle" THEN 0 ELSE 1))
      /\ \A k \in DOMAIN x.events :
           (k \in DOMAIN s.events /\ x.events[k] = s.events[k]) \/ x.events[k] = e
      /\ FailedExits(x.events) = {}
  BY <1>1, GrownSession
<1> HIDE DEF x
<1>4. Tells(x)
  BY <1>1, <1>3 DEF Tells
<1>5. \A k \in DOMAIN x.events :
        \/ /\ k \in DOMAIN sessions[run[w].session].events
           /\ x.events[k] = sessions[run[w].session].events[k]
        \/ x.events[k].corr \in {0, r.corr} /\ Named(x.events[k], x.msg)
  BY <1>1, <1>3 DEF s
<1>6. x.msg = run[w].msg /\ x.fate = "running" /\ Spans(x, Due(r))
  BY <1>1, <1>3
<1>7. r.corr \in Nat /\ labelled' \subseteq Emails
  BY DEF Run, IInv, TypeOK
<1> QED
  BY <1>2, <1>3, <1>4, <1>5, <1>6, <1>7, SessionPreserves

(* A run that ends, the last event of its session having been emitted.      *)
LEMMA EndPreserves ==
  ASSUME IInv, NEW w \in Workers, run[w].pc # "idle",
         NEW x \in Session, sessions' = [sessions EXCEPT ![run[w].session] = x],
         run' = [run EXCEPT ![w] = NewRun("idle", None, 0)],
         x.msg = run[w].msg, Tells(x),
         \A k \in DOMAIN x.events :
           \/ /\ k \in DOMAIN sessions[run[w].session].events
              /\ x.events[k] = sessions[run[w].session].events[k]
           \/ x.events[k].corr \in {0, run[w].corr} /\ Named(x.events[k], x.msg),
         labelled' \subseteq Emails, UNCHANGED <<correlations, uploads, filed>>,
         faults' \in 0..MaxFaults
  PROVE  IInv'
<1> DEFINE r == NewRun("idle", None, 0)
<1>1. r \in Run /\ RunInv(r)
  BY NewRunType
<1>2. r.pc = "idle" /\ r.corr = 0
  BY DEF NewRun
<1>3. run[w].corr \in Nat
  BY Fields
<1> HIDE DEF r
<1>4. run' = [run EXCEPT ![w] = r]
  BY DEF r
<1>5. filed' \subseteq Documents
  BY DEF IInv, TypeOK
<1> QED
  BY <1>1, <1>2, <1>3, <1>4, <1>5, SessionPreserves

LEMMA EndRunSteps ==
  ASSUME IInv, NEW w \in Workers, ApplyLabel(w) \/ LabelFails(w) \/ Crash(w)
  PROVE  IInv'
<1> DEFINE s == sessions[run[w].session]
<1>1. run[w].pc # "idle"
  BY DEF ApplyLabel, LabelFails, Crash
<1>2. PICK fate \in {"labelled", "unlabelled", "killed"} :
        /\ EndRun(w, fate)
        /\ fate = "labelled" => run[w].pc = "label"
  BY DEF ApplyLabel, LabelFails, Crash
<1>3. labelled' \subseteq Emails
  BY Fields DEF ApplyLabel, LabelFails, Crash, IInv, TypeOK, OwnSession
<1>4. UNCHANGED <<correlations, uploads, filed>> /\ faults' \in 0..MaxFaults
  BY FaultBound DEF ApplyLabel, LabelFails, Crash
<1> DEFINE x == [s EXCEPT !.fate = fate]
<1>5. /\ s \in Session
      /\ s.msg = run[w].msg /\ FailedExits(s.events) = {}
      /\ Spans(s, Due(run[w]))
  BY <1>1, OpenSession
<1>6. /\ run' = [run EXCEPT ![w] = NewRun("idle", None, 0)]
      /\ sessions' = [sessions EXCEPT ![run[w].session] = x]
  BY <1>2 DEF EndRun, Ended
<1> HIDE DEF s
<1>7. /\ x \in Session
      /\ x.msg = s.msg /\ x.events = s.events /\ x.lost = s.lost /\ x.fate = fate
  BY <1>5 DEF Session, Fates
<1> HIDE DEF x
<1>8. Tells(x)
  BY <1>2, <1>5, <1>7 DEF Tells, Due, Spans
<1>9. \A k \in DOMAIN x.events :
        /\ k \in DOMAIN sessions[run[w].session].events
        /\ x.events[k] = sessions[run[w].session].events[k]
  BY <1>7 DEF s
<1> QED
  BY <1>1, <1>3, <1>4, <1>5, <1>6, <1>7, <1>8, <1>9, EndPreserves

LEMMA EnterStep ==
  ASSUME IInv, NEW w \in Workers, Enter(w)
  PROVE  IInv'
<1> DEFINE e == EventOf(w, "entered", None)
           r == [run[w] EXCEPT !.pc = "body", !.pos = 1]
<1>1. run[w].pc = "enter" /\ run[w] \in Run /\ RunInv(run[w])
  BY Fields DEF Enter
<1>2. /\ e \in AuditEvent /\ e.corr = run[w].corr /\ e.phase = "entered"
      /\ Named(e, run[w].msg)
  BY <1>1, EventOfType
<1>3. PICK kept \in BOOLEAN : sessions' = Emitted(sessions, run[w].session, e, kept)
  BY EmitOutcome DEF Enter
<1>4. r \in Run
  <2>1. 1 \in Nat \ {0}
    OBVIOUS
  <2> DEFINE one == 1
  <2> HIDE DEF one
  <2>2. one \in Nat \ {0} => [run[w] EXCEPT !.pc = "body", !.pos = one] \in Run
    BY <1>1 DEF Run
  <2> QED
    BY <2>1, <2>2 DEF one
<1>5. /\ r.pc = "body" /\ r.outcome = run[w].outcome /\ r.job = run[w].job
      /\ r.msg = run[w].msg /\ r.session = run[w].session /\ r.corr = run[w].corr
      /\ r.at = run[w].at /\ r.envelope = run[w].envelope
      /\ r.classified = run[w].classified
  BY <1>1 DEF Run
<1>6. run' = [run EXCEPT ![w] = r]
  BY DEF Enter, IInv, TypeOK
<1>7. /\ correlations' = correlations /\ UNCHANGED <<labelled, uploads>>
      /\ filed' \subseteq Documents
  BY DEF Enter, IInv, TypeOK
<1>8. faults' \in 0..MaxFaults
  BY EmitOutcome DEF Enter
<1> HIDE DEF e, r
<1>9. run[w].outcome = "ok"
  BY <1>1 DEF RunInv, IngestInv
<1>10. RunInv(r)
  BY <1>1, <1>5, <1>9 DEF RunInv, DocsInv, LoopInv, JobInv, IngestInv
<1>11. Due(r) = Due(run[w]) + 1
  BY <1>1, <1>5, Fields DEF Due
<1> QED
  BY <1>1, <1>2, <1>3, <1>4, <1>5, <1>6, <1>7, <1>8, <1>10, <1>11, EmitPreserves

LEMMA IngestStep ==
  ASSUME IInv, NEW w \in Workers, Ingest(w)
  PROVE  IInv'
<1> DEFINE m == run[w].msg
           c == correlations + 1
           e == Lifecycle(c, MessageId(m), None)
           envelope == EnvelopeOf(m)
           r == [run[w] EXCEPT !.pc = "exit", !.corr = c, !.envelope = envelope]
<1>1. /\ run[w].pc = "body" /\ run[w].at = 1 /\ run[w] \in Run /\ RunInv(run[w])
      /\ m \in Emails
  BY Fields, IngestFirst, StagesType DEF Ingest, In, StageOf, OwnSession
<1>2. c \in Nat /\ c # 0
  BY DEF IInv, TypeOK
<1>3. /\ e \in AuditEvent /\ e.corr = c /\ e.phase = "lifecycle"
      /\ Named(e, m)
  <2>1. MessageId(m) \in {m} \X Nat
    BY DEF MessageId
  <2> QED
    BY <1>1, <1>2, <2>1, LifecycleType
<1>4. PICK kept \in BOOLEAN : sessions' = Emitted(sessions, run[w].session, e, kept)
  BY EmitOutcome DEF Ingest
<1>5. envelope \in Seq(Attachments) /\ envelope # <<>>
  BY <1>1, MailAssumptions DEF EnvelopeOf
<1>6. r \in Run
  <2> HIDE DEF c, envelope
  <2> QED
    BY <1>1, <1>2, <1>5 DEF Run
<1>7. /\ r.pc = "exit" /\ r.outcome = run[w].outcome /\ r.job = run[w].job
      /\ r.msg = m /\ r.session = run[w].session /\ r.corr = c
      /\ r.at = run[w].at /\ r.envelope = envelope
      /\ r.classified = run[w].classified
  BY <1>1 DEF Run
<1>8. run' = [run EXCEPT ![w] = r]
  BY DEF Ingest, IInv, TypeOK
<1>9. /\ correlations' = correlations + 1 /\ UNCHANGED <<labelled, uploads>>
      /\ filed' \subseteq Documents
  BY DEF Ingest, IInv, TypeOK
<1>10. faults' \in 0..MaxFaults
  BY EmitOutcome DEF Ingest
<1> HIDE DEF e, r
<1>11. run[w].outcome = "ok"
  BY <1>1 DEF RunInv, IngestInv
<1>12. DocsInv(r)
  <2>1. run[w].envelope = <<>>
    BY <1>1 DEF RunInv, IngestInv
  <2>2. DOMAIN run[w].classified = {}
    BY <1>1, <2>1 DEF RunInv, DocsInv
  <2> QED
    BY <1>7, <2>2 DEF DocsInv
<1>13. RunInv(r)
  BY <1>1, <1>2, <1>5, <1>7, <1>11, <1>12 DEF RunInv, LoopInv, JobInv, IngestInv
<1>14. Due(r) = Due(run[w])
  BY <1>1, <1>7, <1>11 DEF Due
<1>15. Due(r) = Due(run[w]) + (IF e.phase = "lifecycle" THEN 0 ELSE 1)
  BY <1>1, <1>3, <1>14, DueType
<1> HIDE DEF c, m
<1>16. r.corr = correlations + 1 /\ e.corr \in {0, r.corr} /\ r.msg = run[w].msg
       /\ Named(e, run[w].msg) /\ r.session = run[w].session /\ r.pc # "idle"
  BY <1>3, <1>7 DEF c, m
<1> QED
  BY <1>1, <1>3, <1>4, <1>6, <1>8, <1>9, <1>10, <1>13, <1>14, <1>15, <1>16, EmitPreserves

(* The stages that tell of each document as they go through the list.        *)
Late(w) ==
  \/ Validate(w) \/ Persist(w) \/ Confirm(w) \/ Finalize(w)
  \/ JudgeUnavailable(w) \/ Judge(w) \/ Send(w)

LateStages == {"validate_stage", "persist_stage", "confirm_stage", "finalize_stage",
               "judge_stage", "send_stage"}

(* What they change of a run.                                                *)
Later(r, pc, pos, results, passed) ==
  [r EXCEPT !.pc = pc, !.pos = pos, !.results = results, !.passed = passed]

(* A run past Ingest has its ids.                                            *)
LEMMA HasIds ==
  ASSUME IInv, NEW w \in Workers, run[w].pc \in {"body", "verdict"},
         StageOf(w) \in LateStages
  PROVE  /\ run[w].msg \in Emails /\ run[w].at # 1
         /\ run[w].corr \in Nat \ {0} /\ run[w].outcome = "ok"
         /\ SourceMessageId(w) \in {run[w].msg} \X Nat
<1>1. /\ run[w].at \in DOMAIN Stages /\ run[w].corr \in Nat /\ IngestInv(run[w])
      /\ run[w].msg \in Emails
  BY Fields, StagesType DEF RunInv, OwnSession
<1>2. run[w].at # 1
  BY <1>1, IngestFirst DEF StageOf, LateStages
<1>3. run[w].corr # 0 /\ run[w].envelope # <<>> /\ run[w].outcome = "ok"
  BY <1>1, <1>2 DEF IngestInv
<1> QED
  BY <1>1, <1>2, <1>3 DEF SourceMessageId, MessageId

(* One such step: the run it leaves, the event it tells, the records.        *)
LateForm(w) ==
  /\ run[w].pc \in {"body", "verdict"} /\ StageOf(w) \in LateStages
  /\ \E pc \in {"body", "verdict", "exit"}, pos \in Nat \ {0},
        results \in Seq(Result), passed \in SUBSET Documents :
       run' = [run EXCEPT ![w] = Later(run[w], pc, pos, results, passed)]
  /\ \E msg \in {run[w].msg} \X Nat, outcome \in Told, n \in Nat : Tell(w, msg, outcome, n)
  /\ UNCHANGED <<labelled, correlations, uploads>>
  /\ filed' \subseteq Documents

LEMMA LateFormed ==
  ASSUME NEW w \in Workers,
         run[w].pc \in {"body", "verdict"}, StageOf(w) \in LateStages,
         NEW pc \in {"body", "verdict", "exit"}, NEW pos \in Nat \ {0},
         NEW results \in Seq(Result), NEW passed \in SUBSET Documents,
         run' = [run EXCEPT ![w] = Later(run[w], pc, pos, results, passed)],
         NEW msg \in {run[w].msg} \X Nat, NEW outcome \in Told, NEW n \in Nat,
         Tell(w, msg, outcome, n),
         UNCHANGED <<labelled, correlations, uploads>>, filed' \subseteq Documents
  PROVE  LateForm(w)
BY DEF LateForm

LEMMA LateIsForm ==
  ASSUME IInv, NEW w \in Workers, Late(w)
  PROVE  LateForm(w)
<1> DEFINE r == run[w]
           id == SourceMessageId(w)
           becomes(pc, pos, results, passed) ==
             run' = [run EXCEPT ![w] = Later(r, pc, pos, results, passed)]
<1>1. /\ run \in [Workers -> Run] /\ filed \subseteq Documents
      /\ r \in Run /\ r.pos \in Nat \ {0} /\ r.results \in Seq(Result)
      /\ r.passed \in SUBSET Documents
  BY Fields DEF IInv, TypeOK
<1>2. r.pc \in {"body", "verdict"} /\ StageOf(w) \in LateStages
  BY DEF Late, LateStages, Validate, Persist, Confirm, Finalize, JudgeUnavailable, Judge,
     Send, In
<1>3. id \in {r.msg} \X Nat /\ r.msg \in Emails
  BY <1>2, HasIds
<1>4. Entries(w) # {} => /\ Entry(w) + 1 \in Nat \ {0}
                         /\ IF StageOf(w) \in {"validate_stage", "persist_stage"}
                            THEN /\ r.parsed[Entry(w)] \in ParsedDoc
                                 /\ RecordId(w, r.parsed[Entry(w)]) \in {r.msg} \X Nat
                            ELSE RecordId(w, r.results[Entry(w)]) \in {r.msg} \X Nat
  BY EntryType
<1> HIDE DEF id
<1>5. CASE Validate(w) \/ Confirm(w)
  <2>1. becomes("body", Entry(w) + 1, r.results, r.passed)
    BY <1>1, <1>5 DEF Validate, Confirm, In, Later, Run
  <2>2. PICK outcome \in {"result", "ok"} : Tell(w, id, outcome, 0)
    BY <1>5 DEF Validate, Confirm, id
  <2>3. outcome \in Told /\ Entry(w) + 1 \in Nat \ {0}
    BY <1>4, <1>5 DEF Told, Validate, Confirm
  <2>4. UNCHANGED <<labelled, correlations, uploads, filed>>
    BY <1>5 DEF Validate, Confirm
  <2> QED
    BY <1>1, <1>2, <1>3, <2>1, <2>2, <2>3, <2>4, LateFormed
<1>6. CASE Persist(w)
  <2> DEFINE parsed == r.parsed[Entry(w)]
             doc == RecordId(w, parsed)
  <2>1. PICK kind \in KindsOf(w, doc) :
          run' = [run EXCEPT
            ![w].pos = Entry(w) + 1,
            ![w].results = Append(@, [idx |-> parsed.idx, kind |-> kind])]
    BY <1>6 DEF Persist
  <2>2. /\ StageOf(w) = "persist_stage" /\ Entries(w) # {} /\ r.pc = "body"
        /\ Tell(w, id, "result", 0) /\ filed' = filed \cup {doc}
        /\ UNCHANGED <<labelled, correlations, uploads>>
    BY <1>6 DEF Persist, In, id
  <2>3. parsed \in ParsedDoc /\ doc \in {r.msg} \X Nat /\ Entry(w) + 1 \in Nat \ {0}
    BY <1>4, <2>2
  <2>4. doc \in Documents
    BY <1>3, <2>3 DEF Documents
  <2>5. [idx |-> parsed.idx, kind |-> kind] \in Result
    BY <2>1, <2>3 DEF Result, ParsedDoc, KindsOf, Kinds
  <2> DEFINE results == Append(r.results, [idx |-> parsed.idx, kind |-> kind])
  <2>6. results \in Seq(Result)
    BY <1>1, <2>5
  <2>7. becomes("body", Entry(w) + 1, results, r.passed)
    BY <1>1, <2>1, <2>2 DEF Later, Run
  <2> HIDE DEF results, doc, parsed
  <2>8. filed' \subseteq Documents
    BY <1>1, <2>2, <2>4
  <2>9. "result" \in Told
    BY DEF Told
  <2> QED
    BY <1>1, <1>2, <1>3, <2>2, <2>3, <2>6, <2>7, <2>8, <2>9, LateFormed
<1>7. CASE Finalize(w) \/ JudgeUnavailable(w)
  <2>1. PICK pc \in {"exit", "verdict"} : becomes(pc, r.pos, r.results, r.passed)
    BY <1>1, <1>7 DEF Finalize, JudgeUnavailable, Later, Run
  <2>2. PICK outcome \in {"error", "ok"}, n \in {0, 1} : Tell(w, id, outcome, n)
    BY <1>7 DEF Finalize, JudgeUnavailable, id
  <2>3. outcome \in Told /\ n \in Nat
    BY DEF Told
  <2>4. UNCHANGED <<labelled, correlations, uploads, filed>>
    BY <1>7 DEF Finalize, JudgeUnavailable
  <2> QED
    BY <1>1, <1>2, <1>3, <2>1, <2>2, <2>3, <2>4, LateFormed
<1>8. CASE Judge(w)
  <2> DEFINE doc == RecordId(w, r.results[Entry(w)])
  <2>1. PICK pass \in BOOLEAN, outcome \in {"ok", "error"}, n \in {0, 1} :
          /\ Tell(w, id, outcome, n)
          /\ run' = [run EXCEPT ![w].pc = "body", ![w].pos = Entry(w) + 1,
                                ![w].passed = IF pass THEN @ \cup {doc} ELSE @ \ {doc}]
    BY <1>8 DEF Judge, id
  <2>2. StageOf(w) = "judge_stage" /\ Entries(w) # {}
    BY <1>8 DEF Judge
  <2>3. doc \in Documents /\ Entry(w) + 1 \in Nat \ {0}
    BY <1>3, <1>4, <2>2 DEF Documents
  <2> DEFINE passed == IF pass THEN r.passed \cup {doc} ELSE r.passed \ {doc}
  <2>4. passed \in SUBSET Documents
    BY <1>1, <2>3
  <2>5. becomes("body", Entry(w) + 1, r.results, passed)
    BY <1>1, <2>1 DEF Later, Run
  <2> HIDE DEF passed
  <2>6. UNCHANGED <<labelled, correlations, uploads, filed>>
    BY <1>8 DEF Judge
  <2>7. outcome \in Told /\ n \in Nat /\ Tell(w, id, outcome, n)
    BY <2>1 DEF Told
  <2> HIDE DEF doc
  <2> QED
    BY <1>1, <1>2, <1>3, <2>3, <2>4, <2>5, <2>6, <2>7, LateFormed
<1>9. CASE Send(w)
  <2>1. /\ StageOf(w) = "send_stage" /\ r.pc = "body" /\ Entries(w) # {}
        /\ UNCHANGED <<labelled, correlations, uploads, filed>>
        /\ run' = [run EXCEPT ![w].pos = Entry(w) + 1]
    BY <1>9 DEF Send, In
  <2>2. becomes("body", Entry(w) + 1, r.results, r.passed)
    BY <1>1, <2>1 DEF Later, Run
  <2> DEFINE doc == RecordId(w, r.results[Entry(w)])
  <2>3. PICK outcome \in {"skip", "error", "ok"}, n \in {0, 1} : Tell(w, doc, outcome, n)
    BY <1>9 DEF Send
  <2>4. outcome \in Told /\ n \in Nat
    BY DEF Told
  <2>5. doc \in {r.msg} \X Nat /\ Entry(w) + 1 \in Nat \ {0}
    BY <1>4, <2>1
  <2> HIDE DEF doc
  <2> QED
    BY <1>1, <1>2, <2>1, <2>2, <2>3, <2>4, <2>5, LateFormed
<1> QED
  BY <1>5, <1>6, <1>7, <1>8, <1>9 DEF Late

LEMMA LateFields ==
  ASSUME NEW r \in Run, NEW pc \in {"body", "verdict", "exit"}, NEW pos \in Nat \ {0},
         NEW results \in Seq(Result), NEW passed \in SUBSET Documents
  PROVE  LET q == Later(r, pc, pos, results, passed)
         IN  /\ q \in Run /\ q.pc = pc /\ q.outcome = r.outcome /\ q.job = r.job
             /\ q.msg = r.msg /\ q.session = r.session /\ q.corr = r.corr /\ q.at = r.at
             /\ q.envelope = r.envelope /\ q.replied = r.replied
             /\ q.classified = r.classified /\ q.skipped = r.skipped /\ q.parsed = r.parsed
BY DEF Later, Run

LEMMA LateStep ==
  ASSUME IInv, NEW w \in Workers, Late(w)
  PROVE  IInv'
<1>1. LateForm(w) /\ run[w] \in Run /\ RunInv(run[w])
  BY LateIsForm, Fields
<1>2. PICK pc \in {"body", "verdict", "exit"}, pos \in Nat \ {0},
           results \in Seq(Result), passed \in SUBSET Documents :
        run' = [run EXCEPT ![w] = Later(run[w], pc, pos, results, passed)]
  BY <1>1 DEF LateForm
<1>3. PICK msg \in {run[w].msg} \X Nat, outcome \in Told, n \in Nat :
        Tell(w, msg, outcome, n)
  BY <1>1 DEF LateForm
<1> DEFINE r == Later(run[w], pc, pos, results, passed)
           e == Lifecycle(run[w].corr, msg, outcome)
<1>4. /\ run[w].pc \in {"body", "verdict"} /\ run[w].msg \in Emails /\ run[w].at # 1
      /\ run[w].corr \in Nat \ {0} /\ run[w].outcome = "ok"
      /\ UNCHANGED <<labelled, correlations, uploads>> /\ filed' \subseteq Documents
  BY <1>1, HasIds DEF LateForm
<1>5. /\ e \in AuditEvent /\ e.corr = run[w].corr /\ e.phase = "lifecycle"
      /\ Named(e, run[w].msg)
  BY <1>4, LifecycleType
<1>6. /\ \E kept \in BOOLEAN : sessions' = Emitted(sessions, run[w].session, e, kept)
      /\ faults' \in 0..MaxFaults
  <2>1. Emit(w, e, n)
    BY <1>3 DEF Tell
  <2> HIDE DEF e
  <2> QED
    BY <2>1, EmitOutcome
<1>7. PICK kept \in BOOLEAN : sessions' = Emitted(sessions, run[w].session, e, kept)
  BY <1>6
<1>8. /\ r \in Run /\ r.pc = pc /\ r.outcome = run[w].outcome /\ r.job = run[w].job
      /\ r.msg = run[w].msg /\ r.session = run[w].session /\ r.corr = run[w].corr
      /\ r.at = run[w].at /\ r.envelope = run[w].envelope
      /\ r.classified = run[w].classified
  BY <1>1, LateFields
<1>9. run' = [run EXCEPT ![w] = r]
  BY <1>2
<1> HIDE DEF r, e
<1>10. RunInv(r)
  BY <1>1, <1>4, <1>8 DEF RunInv, DocsInv, LoopInv, JobInv, IngestInv
<1>11. Due(r) = Due(run[w])
  BY <1>4, <1>8 DEF Due
<1>12. Due(r) = Due(run[w]) + (IF e.phase = "lifecycle" THEN 0 ELSE 1)
  BY <1>1, <1>5, <1>11, DueType
<1>13. r.pc # "idle" /\ run[w].pc # "idle"
  BY <1>4, <1>8
<1> QED
  BY <1>4, <1>5, <1>6, <1>7, <1>8, <1>9, <1>10, <1>12, <1>13, EmitPreserves

LEMMA ExitStep ==
  ASSUME IInv, NEW w \in Workers, Exit(w)
  PROVE  IInv'
<1> DEFINE s == run[w].session
           e == ExitEvent(w)
<1>1. run[w].pc = "exit" /\ run[w] \in Run /\ RunInv(run[w]) /\ run[w].outcome \in Outcomes
  BY Fields DEF Exit
<1>2. /\ e \in AuditEvent /\ e.corr = run[w].corr /\ e.outcome = run[w].outcome
      /\ e.phase = "exited" /\ Named(e, run[w].msg)
  BY <1>1, EventOfType DEF ExitEvent
<1>3. PICK kept \in BOOLEAN :
        LET after == Emitted(sessions, s, e, kept)
        IN  /\ IF kept THEN UNCHANGED faults ELSE Mishap
            /\ IF GoesUp(w)
               THEN /\ sessions' = Ended(after, s, "raised")
                    /\ run' = [run EXCEPT ![w] = NewRun("idle", None, 0)]
               ELSE /\ sessions' = after
                    /\ run' = IF run[w].at = Len(Stages)
                              THEN [run EXCEPT ![w].pc = "label"]
                              ELSE [run EXCEPT ![w].pc = "enter", ![w].at = @ + 1]
  BY DEF Exit
<1>4. UNCHANGED <<labelled, correlations, uploads, filed>>
  BY DEF Exit
<1>4a. filed' \subseteq Documents
  BY <1>4 DEF IInv, TypeOK
<1>5. faults' \in 0..MaxFaults
  BY <1>3, FaultBound
<1> HIDE DEF e
<1>6. CASE GoesUp(w)
  <2> DEFINE old == sessions[s]
             g == Grown(old, e, kept)
             x == [g EXCEPT !.fate = "raised"]
  <2>1. /\ s \in DOMAIN sessions /\ sessions[s] \in Session
        /\ sessions[s].msg = run[w].msg /\ FailedExits(sessions[s].events) = {}
        /\ Spans(sessions[s], Due(run[w])) /\ Due(run[w]) \in Nat
    BY <1>1, OpenSession, DueType
  <2>2. Emitted(sessions, s, e, kept) = [sessions EXCEPT ![s] = g]
    BY <2>1, EmittedIsGrown
  <2>3. /\ run' = [run EXCEPT ![w] = NewRun("idle", None, 0)]
        /\ sessions' = Ended(Emitted(sessions, s, e, kept), s, "raised")
    BY <1>3, <1>6
  <2>4. sessions' = [sessions EXCEPT ![s] = x]
    <3> HIDE DEF g
    <3> QED
      BY <2>1, <2>2, <2>3 DEF Ended, IInv, TypeOK
  <2>5. run[w].outcome \in {"error", "timeout"}
    BY <1>1, <1>6 DEF GoesUp, Outcomes
  <2>6. /\ g \in Session /\ g.msg = run[w].msg
        /\ \A k \in DOMAIN g.events :
             \/ k \in DOMAIN sessions[s].events /\ g.events[k] = sessions[s].events[k]
             \/ g.events[k] = e
        /\ \/ FailedExits(g.events) = {Len(g.events)}
           \/ g.lost > 0 /\ FailedExits(g.events) = {}
    <3>1. /\ old \in Session /\ old.msg = run[w].msg /\ FailedExits(old.events) = {}
          /\ Spans(old, Due(run[w])) /\ Due(run[w]) \in Nat
      BY <2>1
    <3> DEFINE n == Due(run[w])
    <3> HIDE DEF old, n
    <3>1a. Spans(old, n) /\ n \in Nat
      BY <3>1 DEF n
    <3>1b. e \in AuditEvent /\ e.phase = "exited" /\ e.outcome # "ok"
      BY <1>2, <2>5
    <3>2. /\ g \in Session /\ g.msg = old.msg
          /\ \A k \in DOMAIN g.events :
               (k \in DOMAIN old.events /\ g.events[k] = old.events[k]) \/ g.events[k] = e
          /\ \/ FailedExits(g.events) = {Len(g.events)}
             \/ g.lost > 0 /\ FailedExits(g.events) = {}
      BY <3>1, <3>1a, <3>1b, GrownSession
    <3> QED
      BY <3>1, <3>2 DEF old
  <2> HIDE DEF g
  <2>7. /\ x \in Session
        /\ x.msg = g.msg /\ x.events = g.events /\ x.lost = g.lost /\ x.fate = "raised"
    BY <2>6 DEF Session, Fates
  <2> HIDE DEF x
  <2>8. Tells(x)
    BY <2>6, <2>7 DEF Tells
  <2>9. \A k \in DOMAIN x.events :
          \/ k \in DOMAIN sessions[s].events /\ x.events[k] = sessions[s].events[k]
          \/ x.events[k].corr \in {0, run[w].corr} /\ Named(x.events[k], x.msg)
    BY <1>2, <2>6, <2>7
  <2>10. labelled' \subseteq Emails
    BY <1>4 DEF IInv, TypeOK
  <2> QED
    BY <1>1, <1>4, <1>5, <2>3, <2>4, <2>6, <2>7, <2>8, <2>9, <2>10, EndPreserves
<1>7. CASE ~GoesUp(w)
  <2> DEFINE r == IF run[w].at = Len(Stages) THEN [run[w] EXCEPT !.pc = "label"]
                  ELSE [run[w] EXCEPT !.pc = "enter", !.at = @ + 1]
  <2>1. run[w].outcome = "ok"
    BY <1>7 DEF GoesUp
  <2>2. run' = [run EXCEPT ![w] = r] /\ sessions' = Emitted(sessions, s, e, kept)
    BY <1>3, <1>7 DEF IInv, TypeOK
  <2>3. run[w].at \in 1..Len(Stages) /\ Len(Stages) \in Nat
    BY Fields, StagesType
  <2>4. r \in Run
    <3>1. CASE run[w].at = Len(Stages)
      BY <1>1, <3>1 DEF Run
    <3>2. CASE run[w].at # Len(Stages)
      <4> DEFINE next == run[w].at + 1
      <4>1. next \in DOMAIN Stages
        BY <2>3, <3>2, StagesType
      <4> HIDE DEF next
      <4>2. [run[w] EXCEPT !.pc = "enter", !.at = next] \in Run
        BY <1>1, <4>1 DEF Run
      <4> QED
        BY <1>1, <3>2, <4>2 DEF next
    <3> QED
      BY <3>1, <3>2
  <2>5. /\ r.outcome = "ok" /\ r.job = run[w].job
        /\ r.msg = run[w].msg /\ r.session = run[w].session /\ r.corr = run[w].corr
        /\ r.envelope = run[w].envelope /\ r.classified = run[w].classified
        /\ \/ r.pc = "label" /\ r.at = run[w].at /\ run[w].at = Len(Stages)
           \/ r.pc = "enter" /\ r.at = run[w].at + 1
    BY <1>1, <2>1 DEF Run
  <2> HIDE DEF r
  <2>6. RunInv(r)
    BY <1>1, <2>1, <2>3, <2>5 DEF RunInv, DocsInv, LoopInv, JobInv, IngestInv
  <2>7. Due(r) = Due(run[w]) + 1
    BY <1>1, <2>1, <2>3, <2>5 DEF Due
  <2> QED
    BY <1>1, <1>2, <1>4, <1>4a, <1>5, <2>1, <2>2, <2>4, <2>5, <2>6, <2>7, EmitPreserves
<1> QED
  BY <1>6, <1>7
-----------------------------------------------------------------------------
LEMMA NextIInv == IInv /\ [Next]_vars => IInv'
<1> SUFFICES ASSUME IInv, [Next]_vars PROVE IInv'
  OBVIOUS
<1>1. CASE UNCHANGED vars
  <2>1. /\ sessions' = sessions /\ run' = run /\ correlations' = correlations
        /\ labelled' = labelled /\ uploads' = uploads /\ filed' = filed
        /\ faults' = faults
    BY <1>1 DEF vars
  <2>2. TypeOK' /\ NamedEvents' /\ UniqueEvents'
    BY <2>1 DEF IInv, TypeOK, NamedEvents, UniqueEvents, Named
  <2>3. ASSUME NEW w \in Workers
        PROVE  RunInv(run'[w]) /\ OwnSession(run[w])' /\ OwnCorrelation(run[w])'
    <3>1. RunInv(run[w]) /\ OwnSession(run[w]) /\ OwnCorrelation(run[w])
      BY DEF IInv
    <3> QED
      BY <2>1, <3>1 DEF OwnSession, OwnCorrelation
  <2>4. \A w, v \in Workers : Apart(w, v)'
    BY <2>1 DEF IInv, Apart
  <2>5. \A i \in DOMAIN sessions' : Tells(sessions'[i])
    BY <2>1 DEF IInv
  <2> QED
    BY <2>2, <2>3, <2>4, <2>5 DEF IInv, RunInv, DocsInv, LoopInv, JobInv, IngestInv, Tells
<1>2. ASSUME NEW w \in Workers, Step(w) \/ Fault(w)
      PROVE  IInv'
  BY <1>2, StartStep, EnterStep, IngestStep, BodyEndSteps, SubmitStep, RaisingSteps,
     PollStep, ClassifyStep, ParseStep, LateStep, ExitStep, EndRunSteps
  DEF Step, Fault, Late
<1> QED
  BY <1>1, <1>2 DEF Next

LEMMA Invariance == Spec => []IInv
BY InitIInv, NextIInv, PTL DEF Spec

(* Every variable keeps its type, whatever is submitted, polled or skipped. *)
THEOREM TypeCorrect == Spec => []TypeOK
<1>1. IInv => TypeOK
  BY DEF IInv
<1> QED
  BY <1>1, Invariance, PTL

(* No job is waited for past the deadline and one call, and none that had   *)
(* ended in time for the last call is given up.                             *)
THEOREM PollingIsPatient == Spec => []PatientPolling
<1>1. IInv => PatientPolling
  BY DEF IInv, RunInv, JobInv, PatientPolling, StageOf
<1> QED
  BY <1>1, Invariance, PTL

(* What the audit trail of a session says of how its run ended is true.     *)
THEOREM TrailIsTrue == Spec => []TrailTellsOutcome
<1>1. IInv => TrailTellsOutcome
  BY DEF IInv, Tells, Spans, TrailTellsOutcome
<1> QED
  BY <1>1, Invariance, PTL

(* A correlation id is that of one session, and on all its events but those  *)
(* of Ingest.                                                               *)
THEOREM CorrelationIsUnique == Spec => []CorrelationOfOneRun
<1>1. IInv => CorrelationOfOneRun
  BY DEF IInv, NamedEvents, UniqueEvents, Named, CorrelationOfOneRun
<1> QED
  BY <1>1, Invariance, PTL
-----------------------------------------------------------------------------
(* Every attachment is accounted for.                                      *)

(* The stages that count: what comes before each is blank to it.            *)
ClassifyAt == CHOOSE i \in DOMAIN Stages : Stages[i] = "classify_stage"

ParseAt == CHOOSE i \in DOMAIN Stages : Stages[i] = "parse_stage"

(* How many of the n items of the stage at s run r has gone through.         *)
Through(r, s, n) ==
  CASE r.at < s \/ (r.at = s /\ r.pc = "enter") -> 0
    [] r.at = s /\ (r.pc \in {"body", "poll", "verdict"} \/ r.outcome # "ok") -> r.pos - 1
    [] OTHER -> n

(* Of one file name: the attachments Classify has seen, those it left to     *)
(* Parse that still wait for it, those skipped, those with orders.          *)
SeenOf(r, name) ==
  {j \in DOMAIN r.envelope : /\ NameOf[r.envelope[j]] = name
                             /\ j <= Through(r, ClassifyAt, Len(r.envelope))}

WaitingOf(r, name) ==
  {i \in DOMAIN r.classified : /\ r.classified[i] = name
                               /\ i > Through(r, ParseAt, Len(r.classified))}

SkippedOf(r, name) == {i \in DOMAIN r.skipped : r.skipped[i].name = name}

FirstsOf(parsed, name) == {i \in DOMAIN parsed : parsed[i].name = name /\ parsed[i].idx = 0}

ParsedOf(r, name) == FirstsOf(r.parsed, name)

Tally(r) ==
  \A name \in FileNames :
    Cardinality(SkippedOf(r, name)) + Cardinality(ParsedOf(r, name))
      + Cardinality(WaitingOf(r, name)) = Cardinality(SeenOf(r, name))

(* Orders of one attachment follow each other from 0.                       *)
InPlace(parsed, envelope, i) ==
  /\ parsed[i].idx > 0 =>
       i - 1 \in DOMAIN parsed /\ parsed[i - 1] = [parsed[i] EXCEPT !.idx = @ - 1]
  /\ \E j \in DOMAIN envelope : /\ parsed[i].bytes = envelope[j]
                                /\ parsed[i].name = NameOf[envelope[j]]

Numbered(parsed, envelope) == \A i \in DOMAIN parsed : InPlace(parsed, envelope, i)

DocCount(r) ==
  /\ r.at < ClassifyAt => r.classified = <<>> /\ r.skipped = <<>> /\ r.parsed = <<>>
  /\ ~r.replied => Tally(r)
  /\ Numbered(r.parsed, r.envelope)

DocCounts == \A w \in Workers : DocCount(run[w])

LEMMA StagePlaces ==
  /\ ClassifyAt \in 1..Len(Stages) /\ ParseAt \in 1..Len(Stages)
  /\ 1 < ClassifyAt /\ ClassifyAt < ParseAt
  /\ \A i \in DOMAIN Stages : /\ Stages[i] = "classify_stage" <=> i = ClassifyAt
                              /\ Stages[i] = "parse_stage" <=> i = ParseAt
                              /\ Stages[i] = "reply_shortcircuit_stage" => i < ClassifyAt
<1>1. PICK s, c, p \in DOMAIN Stages :
        /\ s < c /\ c < p
        /\ \A i \in DOMAIN Stages : /\ Stages[i] = "reply_shortcircuit_stage" <=> i = s
                                    /\ Stages[i] = "classify_stage" <=> i = c
                                    /\ Stages[i] = "parse_stage" <=> i = p
  BY StageOrder
<1>2. ClassifyAt = c
  BY <1>1 DEF ClassifyAt
<1>3. ParseAt = p
  BY <1>1 DEF ParseAt
<1>4. s \in 1..Len(Stages) /\ c \in 1..Len(Stages) /\ p \in 1..Len(Stages)
  BY <1>1, StagesType
<1> QED
  BY <1>1, <1>2, <1>3, <1>4, StagesType

LEMMA RunFields ==
  ASSUME NEW r \in Run
  PROVE  /\ r.at \in 1..Len(Stages) /\ r.at \in DOMAIN Stages /\ r.pos \in Nat \ {0}
         /\ r.replied \in BOOLEAN
         /\ r.envelope \in Seq(Attachments) /\ DOMAIN r.envelope = 1..Len(r.envelope)
         /\ r.classified \in Seq(FileNames) /\ DOMAIN r.classified = 1..Len(r.classified)
         /\ r.skipped \in Seq(Skip) /\ DOMAIN r.skipped = 1..Len(r.skipped)
         /\ r.parsed \in Seq(ParsedDoc) /\ DOMAIN r.parsed = 1..Len(r.parsed)
BY StagesType DEF Run

LEMMA FiniteCounts ==
  ASSUME NEW r \in Run, NEW name
  PROVE  /\ IsFiniteSet(SeenOf(r, name)) /\ Cardinality(SeenOf(r, name)) \in Nat
         /\ IsFiniteSet(WaitingOf(r, name)) /\ Cardinality(WaitingOf(r, name)) \in Nat
         /\ IsFiniteSet(SkippedOf(r, name)) /\ Cardinality(SkippedOf(r, name)) \in Nat
         /\ IsFiniteSet(ParsedOf(r, name)) /\ Cardinality(ParsedOf(r, name)) \in Nat
<1>1. /\ IsFiniteSet(DOMAIN r.envelope) /\ IsFiniteSet(DOMAIN r.classified)
      /\ IsFiniteSet(DOMAIN r.skipped) /\ IsFiniteSet(DOMAIN r.parsed)
  <2>1. \A n \in Nat : IsFiniteSet(1..n)
    BY FS_Interval
  <2> QED
    BY <2>1, RunFields
<1>2. /\ SeenOf(r, name) \subseteq DOMAIN r.envelope
      /\ WaitingOf(r, name) \subseteq DOMAIN r.classified
      /\ SkippedOf(r, name) \subseteq DOMAIN r.skipped
      /\ ParsedOf(r, name) \subseteq DOMAIN r.parsed
  BY DEF SeenOf, WaitingOf, SkippedOf, ParsedOf, FirstsOf
<1> QED
  BY <1>1, <1>2, FS_Subset, FS_CardinalityType

LEMMA AppendAt ==
  ASSUME NEW S, NEW seq \in Seq(S), NEW x
  PROVE  /\ Len(seq) \in Nat /\ DOMAIN seq = 1..Len(seq)
         /\ DOMAIN Append(seq, x) = 1..Len(seq) + 1
         /\ Append(seq, x)[Len(seq) + 1] = x
         /\ \A i \in 1..Len(seq) : Append(seq, x)[i] = seq[i]
OBVIOUS

LEMMA OneMore ==
  ASSUME NEW S, IsFiniteSet(S), NEW x, x \notin S
  PROVE  Cardinality(S \cup {x}) = Cardinality(S) + 1
BY FS_AddElement

(* One more skip, of a file name.                                           *)
LEMMA SkippedGrows ==
  ASSUME NEW r \in Run, NEW q, NEW skip, q.skipped = Append(r.skipped, skip), NEW nm
  PROVE  Cardinality(SkippedOf(q, nm)) =
           Cardinality(SkippedOf(r, nm)) + (IF nm = skip.name THEN 1 ELSE 0)
<1> DEFINE n == Len(r.skipped)
<1>1. /\ n \in Nat /\ DOMAIN r.skipped = 1..n /\ DOMAIN q.skipped = 1..n + 1
      /\ q.skipped[n + 1] = skip
      /\ \A i \in 1..n : q.skipped[i] = r.skipped[i]
  BY RunFields, AppendAt
<1> HIDE DEF n
<1>2. /\ SkippedOf(r, nm) = {i \in 1..n : r.skipped[i].name = nm}
      /\ SkippedOf(q, nm) = {i \in 1..n + 1 : q.skipped[i].name = nm}
  BY <1>1 DEF SkippedOf
<1>3. /\ n + 1 \notin 1..n /\ n + 1 \in 1..n + 1
      /\ \A i \in 1..n + 1 : i \in 1..n \/ i = n + 1
      /\ \A i \in 1..n : i \in 1..n + 1
  BY <1>1
<1>4. IsFiniteSet(SkippedOf(r, nm)) /\ Cardinality(SkippedOf(r, nm)) \in Nat
  BY FiniteCounts
<1>5. CASE nm = skip.name
  <2>1. n + 1 \notin SkippedOf(r, nm) /\ SkippedOf(q, nm) = SkippedOf(r, nm) \cup {n + 1}
    BY <1>1, <1>2, <1>3, <1>5
  <2> QED
    BY <1>4, <1>5, <2>1, OneMore
<1>6. CASE nm # skip.name
  <2>1. SkippedOf(q, nm) = SkippedOf(r, nm)
    BY <1>1, <1>2, <1>3, <1>6
  <2> QED
    BY <1>4, <1>6, <2>1
<1> QED
  BY <1>5, <1>6

(* Before Classify there is nothing to count.                               *)
LEMMA NothingCounted ==
  ASSUME NEW r \in Run, r.at < ClassifyAt,
         r.classified = <<>>, r.skipped = <<>>, r.parsed = <<>>
  PROVE  DocCount(r)
<1>1. \A name : /\ SkippedOf(r, name) = {} /\ ParsedOf(r, name) = {}
                /\ WaitingOf(r, name) = {}
  BY DEF SkippedOf, ParsedOf, FirstsOf, WaitingOf
<1>2. \A name : SeenOf(r, name) = {}
  BY RunFields DEF SeenOf, Through
<1>3. Tally(r)
  <2>1. Cardinality({}) = 0
    BY FS_EmptySet
  <2>2. \A name : /\ Cardinality(SkippedOf(r, name)) = 0 /\ Cardinality(ParsedOf(r, name)) = 0
                  /\ Cardinality(WaitingOf(r, name)) = 0 /\ Cardinality(SeenOf(r, name)) = 0
    BY <1>1, <1>2, <2>1
  <2> QED
    BY <2>2 DEF Tally
<1>4. Numbered(r.parsed, r.envelope)
  BY DEF Numbered
<1> QED
  BY <1>3, <1>4 DEF DocCount

(* A step that leaves the lists alone, and the place in them.               *)
LEMMA SameDocs ==
  ASSUME NEW r \in Run, NEW q \in Run, DocCount(r),
         q.envelope = r.envelope, q.classified = r.classified, q.skipped = r.skipped,
         q.parsed = r.parsed, q.replied = r.replied,
         q.at < ClassifyAt => r.at < ClassifyAt,
         ~r.replied =>
           /\ \A j \in 1..Len(r.envelope) :
                j <= Through(q, ClassifyAt, Len(r.envelope)) <=>
                j <= Through(r, ClassifyAt, Len(r.envelope))
           /\ \A i \in 1..Len(r.classified) :
                i > Through(q, ParseAt, Len(r.classified)) <=>
                i > Through(r, ParseAt, Len(r.classified))
  PROVE  DocCount(q)
<1>1. Numbered(q.parsed, q.envelope)
  BY DEF DocCount
<1>2. ASSUME ~q.replied PROVE Tally(q)
  <2>1. \A name : /\ SkippedOf(q, name) = SkippedOf(r, name)
                  /\ ParsedOf(q, name) = ParsedOf(r, name)
    BY DEF SkippedOf, ParsedOf
  <2>2. \A name : SeenOf(q, name) = SeenOf(r, name)
    BY <1>2, RunFields DEF SeenOf
  <2>3. \A name : WaitingOf(q, name) = WaitingOf(r, name)
    BY <1>2, RunFields DEF WaitingOf
  <2> QED
    BY <1>2, <2>1, <2>2, <2>3 DEF DocCount, Tally
<1> QED
  BY <1>1, <1>2 DEF DocCount

(* A step within the loop that handles no item, or raises.                  *)
LEMMA LoopGoesOn ==
  ASSUME NEW r \in Run, NEW q \in Run, DocCount(r),
         q.envelope = r.envelope, q.classified = r.classified, q.skipped = r.skipped,
         q.parsed = r.parsed, q.replied = r.replied, q.at = r.at, q.pos = r.pos,
         r.pc \in {"body", "poll", "verdict"}, q.pc # "enter",
         q.pc \in {"body", "poll", "verdict"} \/ q.outcome # "ok"
  PROVE  DocCount(q)
<1>1. \A s, n : Through(q, s, n) = Through(r, s, n)
  BY DEF Through
<1> QED
  BY <1>1, SameDocs

(* Classify is done with an attachment: it waits for Parse, or is skipped.   *)
LEMMA ClassifyCounts ==
  ASSUME NEW r \in Run, NEW q \in Run, DocCount(r), r.at = ClassifyAt, q.at = r.at,
         r.pc = "poll", q.pc = "body", r.pos \in DOMAIN r.envelope, q.pos = r.pos + 1,
         q.envelope = r.envelope, q.parsed = r.parsed, q.replied = r.replied,
         NEW name, name = NameOf[r.envelope[r.pos]],
         NEW skip, skip.name = name,
         \/ q.classified = Append(r.classified, name) /\ q.skipped = r.skipped
         \/ q.classified = r.classified /\ q.skipped = Append(r.skipped, skip)
  PROVE  DocCount(q)
<1>1. \A n : /\ Through(r, ClassifyAt, n) = r.pos - 1
             /\ Through(q, ClassifyAt, n) = r.pos
             /\ Through(r, ParseAt, n) = 0 /\ Through(q, ParseAt, n) = 0
  BY StagePlaces, RunFields DEF Through
<1>2. Numbered(q.parsed, q.envelope)
  BY DEF DocCount
<1>3. ASSUME ~q.replied, NEW nm \in FileNames
      PROVE  Cardinality(SkippedOf(q, nm)) + Cardinality(ParsedOf(q, nm))
               + Cardinality(WaitingOf(q, nm)) = Cardinality(SeenOf(q, nm))
  <2>1. Cardinality(SkippedOf(r, nm)) + Cardinality(ParsedOf(r, nm))
          + Cardinality(WaitingOf(r, nm)) = Cardinality(SeenOf(r, nm))
    BY <1>3 DEF DocCount, Tally
  <2>2. /\ r.pos \notin SeenOf(r, nm)
        /\ SeenOf(q, nm) = SeenOf(r, nm) \cup (IF nm = name THEN {r.pos} ELSE {})
    BY <1>1, RunFields DEF SeenOf
  <2>3. ParsedOf(q, nm) = ParsedOf(r, nm)
    BY DEF ParsedOf
  <2>4. ASSUME q.classified = Append(r.classified, name)
        PROVE  /\ Len(r.classified) + 1 \notin WaitingOf(r, nm)
               /\ WaitingOf(q, nm) = WaitingOf(r, nm) \cup
                    (IF nm = name THEN {Len(r.classified) + 1} ELSE {})
    BY <1>1, <2>4, RunFields DEF WaitingOf
  <2>5. q.classified = r.classified => WaitingOf(q, nm) = WaitingOf(r, nm)
    BY <1>1 DEF WaitingOf
  <2>6. ASSUME q.skipped = Append(r.skipped, skip)
        PROVE  Cardinality(SkippedOf(q, nm)) =
                 Cardinality(SkippedOf(r, nm)) + (IF nm = name THEN 1 ELSE 0)
    BY <2>6, SkippedGrows
  <2>7. q.skipped = r.skipped => SkippedOf(q, nm) = SkippedOf(r, nm)
    BY DEF SkippedOf
  <2>8. CASE nm # name
    BY <2>1, <2>2, <2>3, <2>4, <2>5, <2>6, <2>7, <2>8, FiniteCounts
  <2>9. CASE nm = name
    <3>1. Cardinality(SeenOf(q, nm)) = Cardinality(SeenOf(r, nm)) + 1
      BY <2>2, <2>9, FiniteCounts, OneMore
    <3>2. CASE q.classified = Append(r.classified, name) /\ q.skipped = r.skipped
      <4>1. Cardinality(WaitingOf(q, nm)) = Cardinality(WaitingOf(r, nm)) + 1
        BY <2>4, <2>9, <3>2, FiniteCounts, OneMore
      <4> QED
        BY <2>1, <2>3, <2>7, <3>1, <3>2, <4>1, FiniteCounts
    <3>3. CASE q.classified = r.classified /\ q.skipped = Append(r.skipped, skip)
      <4>1. Cardinality(SkippedOf(q, nm)) = Cardinality(SkippedOf(r, nm)) + 1
        BY <2>6, <2>9, <3>3
      <4> QED
        BY <2>1, <2>3, <2>5, <3>1, <3>3, <4>1, FiniteCounts
    <3> QED
      BY <3>2, <3>3
  <2> QED
    BY <2>8, <2>9
<1> QED
  BY <1>2, <1>3, StagePlaces DEF DocCount, Tally

DocAt(name, idx, item) == [name |-> name, idx |-> idx, bytes |-> item]

LEMMA DocFields ==
  ASSUME NEW name, NEW idx, NEW item
  PROVE  /\ DocAt(name, idx, item).name = name
         /\ DocAt(name, idx, item).idx = idx
         /\ DocAt(name, idx, item).bytes = item
         /\ [DocAt(name, idx, item) EXCEPT !.idx = @ - 1] = DocAt(name, idx - 1, item)
         /\ name \in FileNames /\ idx \in Nat /\ item \in Attachments =>
              DocAt(name, idx, item) \in ParsedDoc
BY DEF DocAt, ParsedDoc

(* What the orders of a document add to parsed_docs.                        *)
Added(old, new, n, name, item) ==
  /\ DOMAIN new = 1..Len(old) + n
  /\ \A i \in 1..Len(old) : new[i] = old[i]
  /\ \A i \in 1..n : new[Len(old) + i] = DocAt(name, i - 1, item)

LEMMA DocsAdded ==
  ASSUME NEW old \in Seq(ParsedDoc), NEW name \in FileNames, NEW item \in Attachments,
         NEW n \in Nat
  PROVE  Added(old, old \o [i \in 1..n |-> DocAt(name, i - 1, item)], n, name, item)
<1> DEFINE docs == [i \in 1..n |-> DocAt(name, i - 1, item)]
<1>1. \A i \in 1..n : docs[i] = DocAt(name, i - 1, item) /\ DocAt(name, i - 1, item) \in ParsedDoc
  <2>1. \A i \in 1..n : i - 1 \in Nat
    OBVIOUS
  <2> QED
    BY <2>1, DocFields
<1>2. docs \in Seq(ParsedDoc) /\ Len(docs) = n
  BY <1>1
<1> HIDE DEF docs
<1>3. /\ DOMAIN (old \o docs) = 1..Len(old) + Len(docs)
      /\ \A i \in 1..Len(old) : (old \o docs)[i] = old[i]
      /\ \A i \in 1..Len(docs) : (old \o docs)[Len(old) + i] = docs[i]
  BY <1>2
<1>4. Added(old, old \o docs, n, name, item)
  BY <1>1, <1>2, <1>3 DEF Added
<1> QED
  BY <1>4 DEF docs

LEMMA NumberedOn ==
  ASSUME NEW old \in Seq(ParsedDoc), NEW new, NEW envelope, NEW n \in Nat, NEW name, NEW item,
         Numbered(old, envelope), Added(old, new, n, name, item),
         \E j \in DOMAIN envelope : item = envelope[j] /\ name = NameOf[envelope[j]]
  PROVE  Numbered(new, envelope)
<1> DEFINE m == Len(old)
<1>1. m \in Nat /\ DOMAIN old = 1..m
  OBVIOUS
<1> HIDE DEF m
<1>2. /\ DOMAIN new = 1..m + n
      /\ \A i \in 1..m : new[i] = old[i]
      /\ \A i \in 1..n : new[m + i] = DocAt(name, i - 1, item)
  BY DEF Added, m
<1>3. ASSUME NEW i \in 1..m PROVE InPlace(new, envelope, i)
  <2>1. /\ old[i].idx > 0 =>
             i - 1 \in 1..m /\ old[i - 1] = [old[i] EXCEPT !.idx = @ - 1]
        /\ \E j \in DOMAIN envelope : /\ old[i].bytes = envelope[j]
                                      /\ old[i].name = NameOf[envelope[j]]
    BY <1>1 DEF Numbered, InPlace
  <2>2. i - 1 \in 1..m => i - 1 \in 1..m + n
    BY <1>1
  <2> QED
    BY <1>2, <2>1, <2>2 DEF InPlace
<1>4. ASSUME NEW i \in 1..n, NEW k, k = m + i PROVE InPlace(new, envelope, k)
  <2>1. new[k] = DocAt(name, i - 1, item)
    BY <1>2, <1>4
  <2>2. ASSUME i - 1 > 0
        PROVE  k - 1 \in DOMAIN new /\ new[k - 1] = DocAt(name, i - 1 - 1, item)
    <3>1. i - 1 \in 1..n /\ m + (i - 1) = k - 1 /\ k - 1 \in 1..m + n
      BY <1>1, <1>4, <2>2
    <3> QED
      BY <1>2, <3>1
  <2>3. /\ new[k].idx = i - 1 /\ new[k].bytes = item /\ new[k].name = name
        /\ [new[k] EXCEPT !.idx = @ - 1] = DocAt(name, i - 1 - 1, item)
    BY <2>1, DocFields
  <2> QED
    BY <2>2, <2>3 DEF InPlace
<1>5. \A i \in 1..m + n : i \in 1..m \/ (i - m \in 1..n /\ m + (i - m) = i)
  BY <1>1
<1>6. ASSUME NEW i \in 1..m + n PROVE InPlace(new, envelope, i)
  <2>1. CASE i \in 1..m
    BY <1>3, <2>1
  <2>2. CASE i - m \in 1..n /\ m + (i - m) = i
    <3>1. InPlace(new, envelope, m + (i - m))
      BY <1>4, <2>2
    <3> QED
      BY <2>2, <3>1
  <2> QED
    BY <1>5, <2>1, <2>2
<1> QED
  BY <1>2, <1>6 DEF Numbered

(* Of the orders of a document one is the first.                            *)
LEMMA OneIsFirst ==
  ASSUME NEW old \in Seq(ParsedDoc), NEW new, NEW n \in Nat, NEW name, NEW item, NEW nm,
         Added(old, new, n, name, item)
  PROVE  Cardinality(FirstsOf(new, nm)) =
           Cardinality(FirstsOf(old, nm)) + (IF nm = name /\ n # 0 THEN 1 ELSE 0)
<1> DEFINE m == Len(old)
<1>1. m \in Nat /\ DOMAIN old = 1..m
  OBVIOUS
<1> HIDE DEF m
<1>2. /\ DOMAIN new = 1..m + n
      /\ \A i \in 1..m : new[i] = old[i]
      /\ \A i \in 1..n : new[m + i] = DocAt(name, i - 1, item)
  BY DEF Added, m
<1>3. /\ FirstsOf(old, nm) = {i \in 1..m : old[i].name = nm /\ old[i].idx = 0}
      /\ FirstsOf(new, nm) = {i \in 1..m + n : new[i].name = nm /\ new[i].idx = 0}
  BY <1>1, <1>2 DEF FirstsOf
<1>4. \A i \in 1..n : new[m + i].name = name /\ new[m + i].idx = i - 1
  <2> SUFFICES ASSUME NEW i \in 1..n
               PROVE  new[m + i].name = name /\ new[m + i].idx = i - 1
    OBVIOUS
  <2>1. new[m + i] = DocAt(name, i - 1, item)
    BY <1>2
  <2>2. DocAt(name, i - 1, item).name = name /\ DocAt(name, i - 1, item).idx = i - 1
    BY DEF DocAt
  <2> QED
    BY <2>1, <2>2
<1>5. ASSUME NEW i \in 1..m + n
      PROVE  i \in FirstsOf(new, nm) <=>
               i \in FirstsOf(old, nm) \/ (nm = name /\ n # 0 /\ i = m + 1)
  <2>1. CASE i \in 1..m
    <3>1. i # m + 1
      BY <1>1, <2>1
    <3> QED
      BY <1>2, <1>3, <2>1, <3>1
  <2>2. CASE i \notin 1..m
    <3>1. i - m \in 1..n /\ m + (i - m) = i
      BY <1>1, <2>2
    <3>2. new[i].name = name /\ new[i].idx = i - m - 1
      BY <1>4, <3>1
    <3>3. i - m - 1 = 0 <=> n # 0 /\ i = m + 1
      BY <1>1, <3>1
    <3> QED
      BY <1>3, <2>2, <3>2, <3>3
  <2> QED
    BY <2>1, <2>2
<1>6. /\ FirstsOf(new, nm) \subseteq 1..m + n
      /\ FirstsOf(old, nm) \subseteq 1..m + n /\ m + 1 \notin FirstsOf(old, nm)
      /\ n # 0 => m + 1 \in 1..m + n
  BY <1>1, <1>3
<1>7. IsFiniteSet(FirstsOf(old, nm)) /\ Cardinality(FirstsOf(old, nm)) \in Nat
  <2>1. IsFiniteSet(1..m)
    BY <1>1, FS_Interval
  <2> QED
    BY <1>3, <2>1, FS_Subset, FS_CardinalityType
<1>8. CASE nm = name /\ n # 0
  <2>1. FirstsOf(new, nm) = FirstsOf(old, nm) \cup {m + 1}
    BY <1>5, <1>6, <1>8
  <2> QED
    BY <1>6, <1>7, <1>8, <2>1, OneMore
<1>9. CASE nm # name \/ n = 0
  <2>1. FirstsOf(new, nm) = FirstsOf(old, nm)
    BY <1>5, <1>6, <1>9
  <2> QED
    BY <1>7, <1>9, <2>1
<1> QED
  BY <1>8, <1>9

(* What one more document, with n orders, adds to the counts of each name.   *)
OneParsed(r, q, name, n) ==
  \A nm \in FileNames :
    /\ Cardinality(SkippedOf(q, nm)) =
         Cardinality(SkippedOf(r, nm)) + (IF nm = name /\ n = 0 THEN 1 ELSE 0)
    /\ Cardinality(ParsedOf(q, nm)) =
         Cardinality(ParsedOf(r, nm)) + (IF nm = name /\ n # 0 THEN 1 ELSE 0)

LEMMA OneParsedCounts ==
  ASSUME NEW r \in Run, NEW q, NEW n \in Nat, NEW name, NEW item, NEW skip, skip.name = name,
         Added(r.parsed, q.parsed, n, name, item),
         q.skipped = IF n = 0 THEN Append(r.skipped, skip) ELSE r.skipped
  PROVE  OneParsed(r, q, name, n)
<1> SUFFICES ASSUME NEW nm \in FileNames
             PROVE  /\ Cardinality(SkippedOf(q, nm)) = Cardinality(SkippedOf(r, nm))
                                                   + (IF nm = name /\ n = 0 THEN 1 ELSE 0)
                    /\ Cardinality(ParsedOf(q, nm)) = Cardinality(ParsedOf(r, nm))
                                                   + (IF nm = name /\ n # 0 THEN 1 ELSE 0)
  BY DEF OneParsed
<1>1. Cardinality(ParsedOf(q, nm)) =
        Cardinality(ParsedOf(r, nm)) + (IF nm = name /\ n # 0 THEN 1 ELSE 0)
  <2>1. r.parsed \in Seq(ParsedDoc)
    BY RunFields
  <2>2. Cardinality(FirstsOf(q.parsed, nm)) =
          Cardinality(FirstsOf(r.parsed, nm)) + (IF nm = name /\ n # 0 THEN 1 ELSE 0)
    BY OneIsFirst, <2>1
  <2> QED
    BY <2>2 DEF ParsedOf
<1>2. CASE n = 0
  <2>1. q.skipped = Append(r.skipped, skip)
    BY <1>2
  <2>2. Cardinality(SkippedOf(q, nm)) =
          Cardinality(SkippedOf(r, nm)) + (IF nm = skip.name THEN 1 ELSE 0)
    BY <2>1, SkippedGrows
  <2> QED
    BY <1>1, <1>2, <2>2
<1>3. CASE n # 0
  <2>1. SkippedOf(q, nm) = SkippedOf(r, nm)
    BY <1>3 DEF SkippedOf
  <2>2. Cardinality(SkippedOf(r, nm)) \in Nat
    BY FiniteCounts
  <2> QED
    BY <1>1, <1>3, <2>1, <2>2
<1> QED
  BY <1>2, <1>3

(* Parse is done with a document: its orders join parsed_docs, or it has     *)
(* none and is skipped.                                                     *)
LEMMA ParseCounts ==
  ASSUME NEW r \in Run, NEW q \in Run, DocCount(r), r.at = ParseAt, q.at = r.at,
         r.pc = "poll", q.pc = "body",
         r.pos \in DOMAIN r.classified, q.pos = r.pos + 1,
         q.envelope = r.envelope, q.classified = r.classified, q.replied = r.replied,
         r.outcome = "ok", q.outcome = "ok", Numbered(q.parsed, q.envelope),
         NEW n \in Nat, OneParsed(r, q, r.classified[r.pos], n)
  PROVE  DocCount(q)
<1> DEFINE name == r.classified[r.pos]
<1>1. \A k : /\ Through(r, ParseAt, k) = r.pos - 1
             /\ Through(q, ParseAt, k) = r.pos
             /\ Through(r, ClassifyAt, k) = k /\ Through(q, ClassifyAt, k) = k
  BY StagePlaces, RunFields DEF Through
<1>2. ASSUME ~q.replied, NEW nm \in FileNames
      PROVE  Cardinality(SkippedOf(q, nm)) + Cardinality(ParsedOf(q, nm))
               + Cardinality(WaitingOf(q, nm)) = Cardinality(SeenOf(q, nm))
  <2>1. Cardinality(SkippedOf(r, nm)) + Cardinality(ParsedOf(r, nm))
          + Cardinality(WaitingOf(r, nm)) = Cardinality(SeenOf(r, nm))
    BY <1>2 DEF DocCount, Tally
  <2>2. SeenOf(q, nm) = SeenOf(r, nm)
    BY <1>1 DEF SeenOf
  <2>3. /\ r.pos \notin WaitingOf(q, nm)
        /\ WaitingOf(r, nm) = WaitingOf(q, nm) \cup (IF nm = name THEN {r.pos} ELSE {})
    BY <1>1, RunFields DEF WaitingOf
  <2>4. /\ Cardinality(SkippedOf(q, nm)) =
             Cardinality(SkippedOf(r, nm)) + (IF nm = name /\ n = 0 THEN 1 ELSE 0)
        /\ Cardinality(ParsedOf(q, nm)) =
             Cardinality(ParsedOf(r, nm)) + (IF nm = name /\ n # 0 THEN 1 ELSE 0)
    BY DEF OneParsed
  <2>5. Cardinality(WaitingOf(r, nm)) =
          Cardinality(WaitingOf(q, nm)) + (IF nm = name THEN 1 ELSE 0)
    <3>1. CASE nm = name
      BY <2>3, <3>1, FiniteCounts, OneMore
    <3>2. CASE nm # name
      BY <2>3, <3>2, FiniteCounts
    <3> QED
      BY <3>1, <3>2
  <2>6. /\ Cardinality(SkippedOf(r, nm)) \in Nat /\ Cardinality(ParsedOf(r, nm)) \in Nat
        /\ Cardinality(WaitingOf(q, nm)) \in Nat
    BY FiniteCounts
  <2> HIDE DEF name
  <2> QED
    BY <2>1, <2>2, <2>4, <2>5, <2>6
<1> QED
  BY <1>2, StagePlaces DEF DocCount, Tally

(* The run of one worker changes.                                           *)
LEMMA DocCountsKept ==
  ASSUME IInv, DocCounts, NEW w \in Workers, NEW q, DocCount(q),
         run' = [run EXCEPT ![w] = q]
  PROVE  DocCounts'
<1>1. \A v \in Workers : DocCount(run'[v])
  BY DEF DocCounts, IInv, TypeOK
<1> QED
  BY <1>1 DEF DocCounts

LEMMA DocRun ==
  ASSUME IInv, IInv', DocCounts, NEW w \in Workers
  PROVE  /\ run \in [Workers -> Run] /\ run' \in [Workers -> Run]
         /\ run[w] \in Run /\ run'[w] \in Run /\ DocCount(run[w])
BY DEF IInv, TypeOK, DocCounts

(* Within the loop of a stage: a job is submitted or polled, or what the     *)
(* body does raises.                                                        *)
LEMMA RaisedCounts ==
  ASSUME IInv, IInv', DocCounts, NEW w \in Workers, run[w].pc \in {"body", "poll", "verdict"},
         NEW outcome \in {"error", "timeout"}, Raised(w, outcome)
  PROVE  DocCounts'
<1> PICK r : r = run[w]
  OBVIOUS
<1> PICK q : q = [r EXCEPT !.pc = "exit", !.outcome = outcome]
  OBVIOUS
<1>1. run' = [run EXCEPT ![w] = q]
  BY DocRun DEF Raised
<1>2. r \in Run /\ q \in Run /\ DocCount(r)
  BY <1>1, DocRun
<1>3. /\ q.envelope = r.envelope /\ q.classified = r.classified /\ q.skipped = r.skipped
      /\ q.parsed = r.parsed /\ q.replied = r.replied /\ q.at = r.at /\ q.pos = r.pos
      /\ q.pc = "exit" /\ q.outcome # "ok"
      /\ r.pc \in {"body", "poll", "verdict"} /\ q.pc # "enter"
  BY <1>2 DEF Run
<1>4. DocCount(q)
  BY <1>2, <1>3, LoopGoesOn
<1> QED
  BY <1>1, <1>4, DocCountsKept

LEMMA JobCounts ==
  ASSUME IInv, IInv', DocCounts, NEW w \in Workers, run[w].pc \in {"body", "poll", "verdict"},
         NEW job, run' = [run EXCEPT ![w] = [run[w] EXCEPT !.pc = "poll", !.job = job]]
  PROVE  DocCounts'
<1> PICK r : r = run[w]
  OBVIOUS
<1> PICK q : q = [r EXCEPT !.pc = "poll", !.job = job]
  OBVIOUS
<1>1. run' = [run EXCEPT ![w] = q]
  OBVIOUS
<1>2. r \in Run /\ q \in Run /\ DocCount(r)
  BY <1>1, DocRun
<1>3. /\ q.envelope = r.envelope /\ q.classified = r.classified /\ q.skipped = r.skipped
      /\ q.parsed = r.parsed /\ q.replied = r.replied /\ q.at = r.at /\ q.pos = r.pos
      /\ q.pc = "poll" /\ r.pc \in {"body", "poll", "verdict"} /\ q.pc # "enter"
  BY <1>2 DEF Run
<1>4. DocCount(q)
  BY <1>2, <1>3, LoopGoesOn
<1> QED
  BY <1>1, <1>4, DocCountsKept

LEMMA LoopSteps ==
  ASSUME IInv, IInv', DocCounts, NEW w \in Workers,
         \/ Submit(w) \/ Poll(w)
         \/ SubmitRefused(w) \/ CreateFails(w) \/ GiveUp(w) \/ JobFailed(w)
         \/ PersistFails(w) \/ BodyFails(w)
  PROVE  DocCounts'
<1>1. run[w].pc \in {"body", "poll", "verdict"}
  BY ExtractingStage DEF Submit, Poll, SubmitRefused, CreateFails, GiveUp, JobFailed,
     PersistFails, BodyFails, In
<1>2. CASE Submit(w)
  <2>1. PICK due \in 0..MaxDue, end \in JobEnds :
          LET job == [NoJob EXCEPT !.due = due, !.end = end]
          IN  run' = [run EXCEPT ![w].pc = "poll",
                                 ![w].job = [job EXCEPT !.seen = StatusAt(job, 0)]]
    BY <1>2 DEF Submit
  <2> DEFINE job == [NoJob EXCEPT !.due = due, !.end = end]
  <2>2. run' = [run EXCEPT ![w] = [run[w] EXCEPT
                  !.pc = "poll", !.job = [job EXCEPT !.seen = StatusAt(job, 0)]]]
    BY <2>1, DocRun
  <2> QED
    BY <1>1, <2>2, JobCounts
<1>3. CASE Poll(w)
  <2> DEFINE job == run[w].job
  <2>1. PICK call \in 1..MaxCall :
          \E read \in 1..call :
            run' = [run EXCEPT ![w].job.spent = job.spent + call,
                               ![w].job.read = job.spent + read,
                               ![w].job.seen = StatusAt(job, job.spent + read)]
    BY <1>3 DEF Poll
  <2>2. PICK read \in 1..call :
          run' = [run EXCEPT ![w].job.spent = job.spent + call,
                             ![w].job.read = job.spent + read,
                             ![w].job.seen = StatusAt(job, job.spent + read)]
    BY <2>1
  <2>3. /\ run[w] \in Run /\ job \in Job /\ run[w].pc = "poll"
        /\ run \in [Workers -> Run]
    BY <1>3, DocRun, Fields, ExtractingStage DEF Poll
  <2> DEFINE spent == job.spent + call
             asked == job.spent + read
             seen == StatusAt(job, asked)
             new == [job EXCEPT !.spent = spent, !.read = asked, !.seen = seen]
             q == [run[w] EXCEPT !.job = new]
  <2>4. run' = [run EXCEPT ![w] = q]
    BY <2>2, <2>3 DEF Run
  <2> HIDE DEF new
  <2>5. q = [run[w] EXCEPT !.pc = "poll", !.job = new]
    BY <2>3 DEF Run
  <2> QED
    BY <1>1, <2>4, <2>5, JobCounts
<1>4. CASE \/ SubmitRefused(w) \/ CreateFails(w) \/ GiveUp(w) \/ JobFailed(w)
           \/ PersistFails(w) \/ BodyFails(w)
  <2>1. Raised(w, "error") \/ Raised(w, "timeout")
    BY <1>4 DEF SubmitRefused, CreateFails, GiveUp, JobFailed, PersistFails, BodyFails
  <2> QED
    BY <1>1, <2>1, RaisedCounts
<1> QED
  BY <1>2, <1>3, <1>4

(* An item of the loop is done.                                             *)
Done(r, classified, skipped, parsed) ==
  [r EXCEPT !.pc = "body", !.pos = @ + 1, !.job = NoJob,
            !.classified = classified, !.skipped = skipped, !.parsed = parsed]

LEMMA DoneFields ==
  ASSUME NEW r \in Run, NEW c, NEW s, NEW p
  PROVE  /\ Done(r, c, s, p).pc = "body" /\ Done(r, c, s, p).pos = r.pos + 1
         /\ Done(r, c, s, p).at = r.at /\ Done(r, c, s, p).envelope = r.envelope
         /\ Done(r, c, s, p).replied = r.replied /\ Done(r, c, s, p).outcome = r.outcome
         /\ Done(r, c, s, p).classified = c /\ Done(r, c, s, p).skipped = s
         /\ Done(r, c, s, p).parsed = p
BY DEF Done, Run

LEMMA ClassifyDone ==
  ASSUME NEW r \in Run, DocCount(r), r.at = ClassifyAt, r.pc = "poll",
         r.pos \in DOMAIN r.envelope,
         NEW skip, skip.name = NameOf[r.envelope[r.pos]], NEW c, NEW s,
         \/ c = Append(r.classified, skip.name) /\ s = r.skipped
         \/ c = r.classified /\ s = Append(r.skipped, skip),
         Done(r, c, s, r.parsed) \in Run
  PROVE  DocCount(Done(r, c, s, r.parsed))
<1> PICK q : q = Done(r, c, s, r.parsed)
  OBVIOUS
<1>1. /\ q \in Run /\ q.at = r.at /\ q.pc = "body" /\ q.pos = r.pos + 1
      /\ q.envelope = r.envelope /\ q.parsed = r.parsed /\ q.replied = r.replied
      /\ q.classified = c /\ q.skipped = s
  BY DoneFields
<1>2. CASE c = Append(r.classified, skip.name) /\ s = r.skipped
  <2>1. q.classified = Append(r.classified, skip.name) /\ q.skipped = r.skipped
    BY <1>1, <1>2
  <2>2. DocCount(q)
    BY <1>1, <2>1, ClassifyCounts
  <2> QED
    BY <2>2
<1>3. CASE c = r.classified /\ s = Append(r.skipped, skip)
  <2>1. q.classified = r.classified /\ q.skipped = Append(r.skipped, skip)
    BY <1>1, <1>3
  <2>2. DocCount(q)
    BY <1>1, <2>1, ClassifyCounts
  <2> QED
    BY <2>2
<1> QED
  BY <1>2, <1>3

(* What Classify makes of its run.                                          *)
LEMMA ClassifyRun ==
  ASSUME run \in [Workers -> Run], NEW w \in Workers, Classify(w),
         NEW name, name = NameOf[Item(w)]
  PROVE  \/ run' = [run EXCEPT ![w] =
                      Done(run[w], Append(run[w].classified, name), run[w].skipped,
                           run[w].parsed)]
         \/ run' = [run EXCEPT ![w] =
                      Done(run[w], run[w].classified,
                           Append(run[w].skipped, SkipOf(w, name)), run[w].parsed)]
<1>1. PICK intent \in IntentsOf[Item(w)] :
        run' = [run EXCEPT
          ![w].pc = "body", ![w].pos = @ + 1, ![w].job = NoJob,
          ![w].classified = IF intent = "purchase_order" THEN Append(@, name) ELSE @,
          ![w].skipped = IF intent = "purchase_order" THEN @
                         ELSE Append(@, SkipOf(w, name))]
  BY DEF Classify
<1>2. run[w] \in Run
  OBVIOUS
<1>3. CASE intent = "purchase_order"
  <2>1. run' = [run EXCEPT ![w] =
                 Done(run[w], Append(run[w].classified, name), run[w].skipped,
                      run[w].parsed)]
    BY <1>1, <1>2, <1>3 DEF Done, Run
  <2> QED
    BY <2>1
<1>4. CASE intent # "purchase_order"
  <2>1. run' = [run EXCEPT ![w] =
                 Done(run[w], run[w].classified,
                      Append(run[w].skipped, SkipOf(w, name)), run[w].parsed)]
    BY <1>1, <1>2, <1>4 DEF Done, Run
  <2> QED
    BY <2>1
<1> QED
  BY <1>3, <1>4

LEMMA ClassifyKeepsCount ==
  ASSUME IInv, IInv', DocCounts, NEW w \in Workers, Classify(w)
  PROVE  DocCounts'
<1> DEFINE r == run[w]
           name == NameOf[Item(w)]
           skip == SkipOf(w, name)
<1>1. /\ r \in Run /\ DocCount(r) /\ r.pc = "poll" /\ StageOf(w) = "classify_stage"
      /\ run \in [Workers -> Run] /\ run' \in [Workers -> Run]
  BY DocRun DEF Classify, In
<1>2. r.at = ClassifyAt
  BY <1>1, StagePlaces, RunFields DEF StageOf
<1>3. Remaining(w)
  BY <1>1, Fields DEF RunInv, LoopInv, Remaining, StageOf
<1>4. r.pos \in DOMAIN r.envelope /\ name = NameOf[r.envelope[r.pos]]
  BY <1>1, <1>3, ItemType
<1>5. skip.name = name
  BY DEF SkipOf
<1>6. PICK c, s : /\ run' = [run EXCEPT ![w] = Done(r, c, s, r.parsed)]
                  /\ \/ c = Append(r.classified, name) /\ s = r.skipped
                     \/ c = r.classified /\ s = Append(r.skipped, skip)
  BY <1>1, ClassifyRun
<1> HIDE DEF r, name, skip
<1>7. Done(r, c, s, r.parsed) \in Run
  BY <1>1, <1>6
<1>8. DocCount(Done(r, c, s, r.parsed))
  BY <1>1, <1>2, <1>4, <1>5, <1>6, <1>7, ClassifyDone
<1> QED
  BY <1>6, <1>8, DocCountsKept

LEMMA ParseDone ==
  ASSUME NEW r \in Run, DocCount(r), r.at = ParseAt, r.pc = "poll", r.outcome = "ok",
         r.pos \in DOMAIN r.classified, NEW item, NEW j \in DOMAIN r.envelope,
         item = r.envelope[j], NameOf[item] = r.classified[r.pos],
         NEW skip, skip.name = r.classified[r.pos], NEW n \in Nat, NEW s,
         s = IF n = 0 THEN Append(r.skipped, skip) ELSE r.skipped,
         NEW p, Added(r.parsed, p, n, skip.name, item),
         Done(r, r.classified, s, p) \in Run
  PROVE  DocCount(Done(r, r.classified, s, p))
<1> PICK q : q = Done(r, r.classified, s, p)
  OBVIOUS
<1>1. /\ q \in Run /\ q.at = r.at /\ q.pc = "body" /\ q.pos = r.pos + 1
      /\ q.envelope = r.envelope /\ q.parsed = p /\ q.replied = r.replied
      /\ q.classified = r.classified /\ q.skipped = s /\ q.outcome = r.outcome
  BY DoneFields
<1>2. r.parsed \in Seq(ParsedDoc) /\ Numbered(r.parsed, r.envelope)
  BY RunFields DEF DocCount
<1>3. \E i \in DOMAIN r.envelope : item = r.envelope[i] /\ skip.name = NameOf[r.envelope[i]]
  OBVIOUS
<1>4. Numbered(p, r.envelope)
  BY <1>2, <1>3, NumberedOn
<1>5. OneParsed(r, q, skip.name, n)
  BY <1>1, OneParsedCounts
<1>6. DocCount(q)
  BY <1>1, <1>4, <1>5, ParseCounts
<1> QED
  BY <1>6

(* What Parse makes of its run.                                             *)
LEMMA ParseRun ==
  ASSUME run \in [Workers -> Run], NEW w \in Workers, Parse(w),
         NEW name, name = run[w].classified[run[w].pos]
  PROVE  \E n \in OrdersIn[Item(w)] :
           run' = [run EXCEPT ![w] =
                    Done(run[w], run[w].classified,
                         IF n = 0 THEN Append(run[w].skipped, SkipOf(w, name))
                         ELSE run[w].skipped,
                         run[w].parsed \o [i \in 1..n |-> DocAt(name, i - 1, Item(w))])]
<1>1. PICK n \in OrdersIn[Item(w)] :
        run' = [run EXCEPT
          ![w].pc = "body", ![w].pos = @ + 1, ![w].job = NoJob,
          ![w].skipped = IF n = 0 THEN AppendSkip(w, run[w].classified[run[w].pos]) ELSE @,
          ![w].parsed = @ \o [i \in 1..n |->
                                [name |-> run[w].classified[run[w].pos], idx |-> i - 1,
                                 bytes |-> Item(w)]]]
  BY DEF Parse
<1> DEFINE docs == [i \in 1..n |-> [name |-> run[w].classified[run[w].pos], idx |-> i - 1,
                                    bytes |-> Item(w)]]
           s == IF n = 0 THEN AppendSkip(w, run[w].classified[run[w].pos])
                ELSE run[w].skipped
<1>2. run[w] \in Run
  OBVIOUS
<1>3. run' = [run EXCEPT ![w].pc = "body", ![w].pos = @ + 1, ![w].job = NoJob,
                         ![w].skipped = s, ![w].parsed = @ \o docs]
  BY <1>1
<1>4. docs = [i \in 1..n |-> DocAt(name, i - 1, Item(w))]
  BY DEF DocAt
<1>5. s = IF n = 0 THEN Append(run[w].skipped, SkipOf(w, name)) ELSE run[w].skipped
  BY DEF AppendSkip
<1> HIDE DEF docs, s
<1>6. run' = [run EXCEPT ![w] = Done(run[w], run[w].classified, s, run[w].parsed \o docs)]
  BY <1>2, <1>3 DEF Done, Run
<1> QED
  BY <1>4, <1>5, <1>6

LEMMA ParseKeepsCount ==
  ASSUME IInv, IInv', DocCounts, NEW w \in Workers, Parse(w)
  PROVE  DocCounts'
<1> DEFINE r == run[w]
           name == r.classified[r.pos]
           skip == SkipOf(w, name)
           item == Item(w)
<1>1. /\ r \in Run /\ DocCount(r) /\ r.pc = "poll" /\ StageOf(w) = "parse_stage"
      /\ run \in [Workers -> Run] /\ run' \in [Workers -> Run]
  BY DocRun DEF Parse, In
<1>2. r.at = ParseAt
  BY <1>1, StagePlaces, RunFields DEF StageOf
<1>3. Remaining(w) /\ r.outcome = "ok"
  BY <1>1, Fields DEF RunInv, LoopInv, IngestInv, Remaining, StageOf
<1>4. r.pos \in DOMAIN r.classified
  BY <1>1, <1>3, RunFields DEF Remaining
(* The bytes Parse reads are those of an attachment of that name.            *)
<1>5. PICK j \in DOMAIN r.envelope : item = r.envelope[j] /\ NameOf[item] = name
  <2> DEFINE same == {i \in DOMAIN r.envelope : NameOf[r.envelope[i]] = name}
  <2>1. same # {}
    BY <1>4, Fields DEF RunInv, DocsInv
  <2>2. Len(r.envelope) \in Nat /\ same \in SUBSET (1..Len(r.envelope))
    BY <1>1, RunFields
  <2>3. Max(same) \in same
    BY <2>1, <2>2, MaxIsMember
  <2>4. item = r.envelope[Max(same)]
    BY <1>1 DEF Item, BytesNamed
  <2> QED
    BY <2>3, <2>4
<1>6. item \in Attachments /\ skip.name = name
  BY <1>1, <1>5, RunFields DEF SkipOf
<1>7. PICK n \in OrdersIn[item] :
        run' = [run EXCEPT ![w] =
                 Done(r, r.classified,
                      IF n = 0 THEN Append(r.skipped, skip) ELSE r.skipped,
                      r.parsed \o [i \in 1..n |-> DocAt(name, i - 1, item)])]
  BY <1>1, ParseRun
<1>8. n \in Nat
  BY <1>6, ServiceAssumptions
<1> DEFINE s == IF n = 0 THEN Append(r.skipped, skip) ELSE r.skipped
           docs == [i \in 1..n |-> DocAt(name, i - 1, item)]
           q == Done(r, r.classified, s, r.parsed \o docs)
<1>9. run' = [run EXCEPT ![w] = q]
  BY <1>7
<1>10. docs = [i \in 1..n |-> DocAt(skip.name, i - 1, item)]
  BY <1>6
<1>11. s = IF n = 0 THEN Append(r.skipped, skip) ELSE r.skipped
  OBVIOUS
<1>12. q = Done(r, r.classified, s, r.parsed \o docs)
  OBVIOUS
<1> HIDE DEF q, s, docs, skip, item
<1>13. q \in Run
  BY <1>1, <1>9
<1>14. DocCount(q)
  <2>1. name \in FileNames /\ r.parsed \in Seq(ParsedDoc)
    BY <1>1, <1>4, RunFields
  <2>2. Added(r.parsed, r.parsed \o docs, n, skip.name, item)
    BY <1>6, <1>8, <1>10, <2>1, DocsAdded
  <2>3. Done(r, r.classified, s, r.parsed \o docs) \in Run
    BY <1>12, <1>13
  <2> DEFINE p == r.parsed \o docs
  <2>4. Added(r.parsed, p, n, skip.name, item) /\ q = Done(r, r.classified, s, p)
    BY <1>12, <2>2
  <2>5. Done(r, r.classified, s, p) \in Run
    BY <2>3
  <2> HIDE DEF p, r
  <2> QED
    BY <1>1, <1>2, <1>3, <1>4, <1>5, <1>6, <1>8, <1>11, <2>4, <2>5, ParseDone
<1> QED
  BY <1>9, <1>14, DocCountsKept

(* A new run, and any before Classify, has nothing to count.                *)
LEMMA NewRunCounts ==
  ASSUME NEW pc, NEW e, NEW n, NewRun(pc, e, n) \in Run
  PROVE  DocCount(NewRun(pc, e, n))
<1> DEFINE q == NewRun(pc, e, n)
<1>1. q.at = 1 /\ q.classified = <<>> /\ q.skipped = <<>> /\ q.parsed = <<>>
  BY DEF NewRun
<1> HIDE DEF q
<1>2. q \in Run
  BY DEF q
<1>3. DocCount(q)
  BY <1>1, <1>2, StagePlaces, NothingCounted
<1> QED
  BY <1>3 DEF q

LEMMA NewRunSteps ==
  ASSUME IInv, IInv', DocCounts, NEW w \in Workers,
         NEW pc, NEW e, NEW n, run' = [run EXCEPT ![w] = NewRun(pc, e, n)]
  PROVE  DocCounts'
<1>1. NewRun(pc, e, n) \in Run
  BY DocRun
<1> QED
  BY <1>1, NewRunCounts, DocCountsKept

(* A step that leaves the lists alone: where it takes the run from and to.    *)
Moved(r, q) ==
  /\ r.outcome = "ok" /\ q.outcome = "ok" /\ q.pc \notin {"poll", "idle"}
  /\ \/ r.pc = "enter" /\ q.pc = "body" /\ q.at = r.at /\ q.pos = 1
     \/ r.pc = "body" /\ q.pc = "exit" /\ q.at = r.at
     \/ r.pc = "exit" /\ q.pc = "label" /\ q.at = r.at
     \/ r.pc = "exit" /\ q.pc = "enter" /\ q.at = r.at + 1

LEMMA MovedCounts ==
  ASSUME NEW r \in Run, NEW q \in Run, DocCount(r), Moved(r, q),
         q.envelope = r.envelope, q.classified = r.classified, q.skipped = r.skipped,
         q.parsed = r.parsed, q.replied = r.replied,
         r.pc = "body" /\ ~r.replied =>
           /\ r.at = ClassifyAt => r.pos > Len(r.envelope)
           /\ r.at = ParseAt => r.pos > Len(r.classified)
  PROVE  DocCount(q)
<1>1. q.at < ClassifyAt => r.at < ClassifyAt
  BY RunFields, StagePlaces DEF Moved
<1>2. ASSUME ~r.replied, NEW j \in 1..Len(r.envelope)
      PROVE  j <= Through(q, ClassifyAt, Len(r.envelope)) <=>
             j <= Through(r, ClassifyAt, Len(r.envelope))
  <2>1. /\ r.at \in Nat /\ q.at \in Nat /\ r.pos \in Nat /\ Len(r.envelope) \in Nat
        /\ ClassifyAt \in Nat
    BY RunFields, StagePlaces
  <2> QED
    BY <1>2, <2>1 DEF Moved, Through
<1>3. ASSUME ~r.replied, NEW i \in 1..Len(r.classified)
      PROVE  i > Through(q, ParseAt, Len(r.classified)) <=>
             i > Through(r, ParseAt, Len(r.classified))
  <2>1. /\ r.at \in Nat /\ q.at \in Nat /\ r.pos \in Nat /\ Len(r.classified) \in Nat
        /\ ParseAt \in Nat
    BY RunFields, StagePlaces
  <2> QED
    BY <1>3, <2>1 DEF Moved, Through
<1> QED
  BY <1>1, <1>2, <1>3, SameDocs

LEMMA EnterKeepsCount ==
  ASSUME IInv, IInv', DocCounts, NEW w \in Workers, Enter(w)
  PROVE  DocCounts'
<1> DEFINE r == run[w]
           q == [r EXCEPT !.pc = "body", !.pos = 1]
<1>1. r \in Run /\ DocCount(r) /\ r.pc = "enter" /\ r.outcome = "ok"
  BY DocRun, Fields DEF Enter, RunInv, IngestInv
<1>2. run' = [run EXCEPT ![w] = q]
  BY DocRun DEF Enter
<1>3. /\ q.envelope = r.envelope /\ q.classified = r.classified /\ q.skipped = r.skipped
      /\ q.parsed = r.parsed /\ q.replied = r.replied /\ q.at = r.at /\ q.pos = 1
      /\ q.pc = "body" /\ q.outcome = r.outcome
  BY <1>1 DEF Run
<1> HIDE DEF r, q
<1>4. q \in Run
  BY <1>2, DocRun
<1>5. Moved(r, q)
  BY <1>1, <1>3 DEF Moved
<1>6. DocCount(q)
  BY <1>1, <1>3, <1>4, <1>5, MovedCounts
<1> QED
  BY <1>2, <1>6, DocCountsKept

(* Ingest and ReplyShortCircuit come before there is anything to count.      *)
LEMMA BlankCounts ==
  ASSUME NEW r \in Run, NEW q \in Run, DocCount(r), r.at < ClassifyAt, q.at = r.at,
         q.classified = r.classified, q.skipped = r.skipped, q.parsed = r.parsed
  PROVE  DocCount(q)
BY NothingCounted DEF DocCount

LEMMA FirstStepsKeepCount ==
  ASSUME IInv, IInv', DocCounts, NEW w \in Workers, Ingest(w) \/ ShortCircuit(w)
  PROVE  DocCounts'
<1> DEFINE r == run[w]
<1>1. r \in Run /\ DocCount(r) /\ r.at \in DOMAIN Stages
  BY DocRun, RunFields
<1>2. r.at < ClassifyAt
  BY <1>1, StagePlaces, IngestFirst DEF Ingest, ShortCircuit, In, StageOf
<1>3. CASE Ingest(w)
  <2> DEFINE q == [r EXCEPT !.pc = "exit", !.corr = correlations + 1,
                            !.envelope = EnvelopeOf(r.msg)]
  <2>1. run' = [run EXCEPT ![w] = q]
    BY <1>3, DocRun DEF Ingest
  <2>2. /\ q.classified = r.classified /\ q.skipped = r.skipped
        /\ q.parsed = r.parsed /\ q.at = r.at
    BY <1>1 DEF Run
  <2> HIDE DEF r, q
  <2>3. q \in Run
    BY <2>1, DocRun
  <2>4. DocCount(q)
    BY <1>1, <1>2, <2>2, <2>3, BlankCounts
  <2> QED
    BY <2>1, <2>4, DocCountsKept
<1>4. CASE ShortCircuit(w)
  <2>1. PICK replied \in BOOLEAN :
          run' = [run EXCEPT ![w].pc = "exit", ![w].replied = replied]
    BY <1>4 DEF ShortCircuit
  <2> DEFINE q == [r EXCEPT !.pc = "exit", !.replied = replied]
  <2>2. run' = [run EXCEPT ![w] = q]
    BY <2>1, DocRun
  <2>3. /\ q.classified = r.classified /\ q.skipped = r.skipped
        /\ q.parsed = r.parsed /\ q.at = r.at
    BY <1>1 DEF Run
  <2> HIDE DEF r, q
  <2>4. q \in Run
    BY <2>2, DocRun
  <2>5. DocCount(q)
    BY <1>1, <1>2, <2>3, <2>4, BlankCounts
  <2> QED
    BY <2>2, <2>5, DocCountsKept
<1> QED
  BY <1>3, <1>4

LEMMA BodyDoneKeepsCount ==
  ASSUME IInv, IInv', DocCounts, NEW w \in Workers, BodyDone(w)
  PROVE  DocCounts'
<1> DEFINE r == run[w]
           q == [r EXCEPT !.pc = "exit"]
<1>1. r \in Run /\ DocCount(r) /\ r.pc = "body" /\ r.outcome = "ok"
  BY DocRun, Fields DEF BodyDone, RunInv, IngestInv
<1>2. run' = [run EXCEPT ![w] = q]
  BY DocRun DEF BodyDone
<1>3. /\ q.envelope = r.envelope /\ q.classified = r.classified /\ q.skipped = r.skipped
      /\ q.parsed = r.parsed /\ q.replied = r.replied /\ q.at = r.at
      /\ q.pc = "exit" /\ q.outcome = r.outcome
  BY <1>1 DEF Run
<1>4. ~r.replied => /\ r.at = ClassifyAt => r.pos > Len(r.envelope)
                    /\ r.at = ParseAt => r.pos > Len(r.classified)
  <2>1. /\ r.at \in DOMAIN Stages /\ r.pos \in Nat
        /\ Len(r.envelope) \in Nat /\ Len(r.classified) \in Nat
    BY <1>1, RunFields
  <2>2. /\ r.at = ClassifyAt => StageOf(w) = "classify_stage"
        /\ r.at = ParseAt => StageOf(w) = "parse_stage"
    BY <2>1, StagePlaces DEF StageOf
  <2>3. StageOf(w) \in {"classify_stage", "parse_stage"} => r.replied \/ ~Remaining(w)
    BY <1>1 DEF BodyDone, Extracting, In
  <2> QED
    BY <2>1, <2>2, <2>3 DEF Remaining
<1> HIDE DEF r, q
<1>5. q \in Run
  BY <1>2, DocRun
<1>6. Moved(r, q)
  BY <1>1, <1>3 DEF Moved
<1>7. DocCount(q)
  BY <1>1, <1>3, <1>4, <1>5, <1>6, MovedCounts
<1> QED
  BY <1>2, <1>7, DocCountsKept

LEMMA LateKeepsCount ==
  ASSUME IInv, IInv', DocCounts, NEW w \in Workers, Late(w)
  PROVE  DocCounts'
<1> DEFINE r == run[w]
<1>1. LateForm(w) /\ r \in Run /\ DocCount(r)
  BY LateIsForm, DocRun
<1>2. PICK pc \in {"body", "verdict", "exit"}, pos \in Nat \ {0},
           results \in Seq(Result), passed \in SUBSET Documents :
        run' = [run EXCEPT ![w] = Later(r, pc, pos, results, passed)]
  BY <1>1 DEF LateForm
<1>3. r.at # ClassifyAt /\ r.at # ParseAt
  BY <1>1, RunFields, StagePlaces DEF LateForm, LateStages, StageOf
<1> DEFINE q == Later(r, pc, pos, results, passed)
<1>4. /\ q \in Run /\ q.at = r.at /\ q.envelope = r.envelope /\ q.replied = r.replied
      /\ q.classified = r.classified /\ q.skipped = r.skipped /\ q.parsed = r.parsed
  BY <1>1 DEF Later, Run
<1>5. run' = [run EXCEPT ![w] = q]
  BY <1>2
<1> HIDE DEF q, r
<1>6. \A n : /\ Through(q, ClassifyAt, n) = Through(r, ClassifyAt, n)
             /\ Through(q, ParseAt, n) = Through(r, ParseAt, n)
  BY <1>3, <1>4 DEF Through
<1>7. DocCount(q)
  BY <1>1, <1>4, <1>6, SameDocs
<1> QED
  BY <1>5, <1>7, DocCountsKept

LEMMA ExitKeepsCount ==
  ASSUME IInv, IInv', DocCounts, NEW w \in Workers, Exit(w)
  PROVE  DocCounts'
<1> DEFINE r == run[w]
<1>1. r \in Run /\ DocCount(r) /\ r.pc = "exit"
  BY DocRun DEF Exit
<1>2. CASE GoesUp(w)
  <2>1. run' = [run EXCEPT ![w] = NewRun("idle", None, 0)]
    BY <1>2 DEF Exit
  <2> QED
    BY <2>1, NewRunSteps
<1>3. CASE ~GoesUp(w)
  <2> DEFINE q == IF r.at = Len(Stages) THEN [r EXCEPT !.pc = "label"]
                  ELSE [r EXCEPT !.pc = "enter", !.at = @ + 1]
  <2>1. run' = IF run[w].at = Len(Stages) THEN [run EXCEPT ![w].pc = "label"]
               ELSE [run EXCEPT ![w].pc = "enter", ![w].at = @ + 1]
    BY <1>3 DEF Exit
  <2>2. run' = [run EXCEPT ![w] = q]
    BY <2>1, DocRun
  <2>3. r.outcome = "ok"
    BY <1>3 DEF GoesUp
  <2>4. /\ q.envelope = r.envelope /\ q.classified = r.classified /\ q.skipped = r.skipped
        /\ q.parsed = r.parsed /\ q.replied = r.replied /\ q.outcome = r.outcome
        /\ (q.pc = "label" /\ q.at = r.at) \/ (q.pc = "enter" /\ q.at = r.at + 1)
    <3>1. CASE r.at = Len(Stages)
      BY <1>1, <3>1 DEF Run
    <3>2. CASE r.at # Len(Stages)
      BY <1>1, <3>2 DEF Run
    <3> QED
      BY <3>1, <3>2
  <2> HIDE DEF r, q
  <2>5. q \in Run
    BY <2>2, DocRun
  <2>6. Moved(r, q)
    BY <1>1, <2>3, <2>4 DEF Moved
  <2>7. DocCount(q)
    BY <1>1, <2>4, <2>5, <2>6, MovedCounts
  <2> QED
    BY <2>2, <2>7, DocCountsKept
<1> QED
  BY <1>2, <1>3

LEMMA NextDocCounts == IInv /\ DocCounts /\ [Next]_vars => DocCounts'
<1> SUFFICES ASSUME IInv, DocCounts, [Next]_vars PROVE DocCounts'
  OBVIOUS
<1>1. IInv'
  BY NextIInv
<1>2. CASE UNCHANGED vars
  BY <1>2 DEF vars, DocCounts
<1>3. ASSUME NEW w \in Workers, Step(w) \/ Fault(w)
      PROVE  DocCounts'
  <2>1. ASSUME NEW e \in Emails, Start(w, e)
        PROVE  DocCounts'
    BY <1>1, <2>1, NewRunSteps DEF Start
  <2>2. CASE ApplyLabel(w) \/ LabelFails(w) \/ Crash(w)
    BY <1>1, <2>2, NewRunSteps DEF ApplyLabel, LabelFails, Crash, EndRun
  <2> QED
    BY <1>1, <1>3, <2>1, <2>2, EnterKeepsCount, FirstStepsKeepCount, LoopSteps,
       ClassifyKeepsCount, ParseKeepsCount, LateKeepsCount, BodyDoneKeepsCount,
       ExitKeepsCount
    DEF Step, Fault, Late
<1> QED
  BY <1>2, <1>3 DEF Next

LEMMA InitDocCounts == Init => DocCounts
<1> SUFFICES ASSUME Init, NEW w \in Workers PROVE DocCount(run[w])
  BY DEF DocCounts
<1>1. run[w] = NewRun("idle", None, 0)
  BY DEF Init
<1>2. NewRun("idle", None, 0) \in Run
  BY NewRunType
<1> QED
  BY <1>1, <1>2, NewRunCounts

(* What the counts of a run say when Parse is through.                      *)
LEMMA AllCounted ==
  ASSUME NEW r \in Run, DocCount(r), ~r.replied,
         r.at > ParseAt \/ (r.at = ParseAt /\ r.pc = "exit" /\ r.outcome = "ok")
  PROVE  \A name \in FileNames :
           Cardinality(SkippedOf(r, name)) + Cardinality(ParsedOf(r, name)) =
             Cardinality({j \in DOMAIN r.envelope : NameOf[r.envelope[j]] = name})
<1>1. \A n : Through(r, ClassifyAt, n) = n /\ Through(r, ParseAt, n) = n
  BY RunFields, StagePlaces DEF Through
<1> SUFFICES ASSUME NEW name \in FileNames
             PROVE  Cardinality(SkippedOf(r, name)) + Cardinality(ParsedOf(r, name)) =
                      Cardinality({j \in DOMAIN r.envelope : NameOf[r.envelope[j]] = name})
  OBVIOUS
<1>2. WaitingOf(r, name) = {}
  BY <1>1, RunFields DEF WaitingOf
<1>3. SeenOf(r, name) = {j \in DOMAIN r.envelope : NameOf[r.envelope[j]] = name}
  BY <1>1, RunFields DEF SeenOf
<1>4. Cardinality(WaitingOf(r, name)) = 0
  BY <1>2, FS_EmptySet
<1>5. Cardinality(SkippedOf(r, name)) + Cardinality(ParsedOf(r, name))
        + Cardinality(WaitingOf(r, name)) = Cardinality(SeenOf(r, name))
  BY DEF DocCount, Tally
<1>6. Cardinality(SkippedOf(r, name)) \in Nat /\ Cardinality(ParsedOf(r, name)) \in Nat
  BY FiniteCounts
<1> QED
  BY <1>3, <1>4, <1>5, <1>6

(* No attachment is lost between Classify and Parse: each is skipped or its  *)
(* orders are there, numbered, and read from bytes of that name.            *)
THEOREM EveryAttachmentCounted == Spec => []Accounted
<1>1. IInv /\ DocCounts => Accounted
  <2> SUFFICES ASSUME IInv, DocCounts, NEW w \in Workers,
                      Past(w, "parse_stage"), ~run[w].replied
               PROVE  LET r == run[w]
                          Having(name) == Count(r.envelope, LAMBDA a : NameOf[a] = name)
                          Skipped(name) == Count(r.skipped, LAMBDA s : s.name = name)
                          Parsed(name) ==
                            Count(r.parsed, LAMBDA p : p.name = name /\ p.idx = 0)
                      IN  /\ \A name \in FileNames :
                               Skipped(name) + Parsed(name) = Having(name)
                          /\ \A i \in DOMAIN r.parsed :
                               LET p == r.parsed[i]
                               IN  /\ p.idx > 0 => r.parsed[i - 1] = [p EXCEPT !.idx = @ - 1]
                                   /\ \E j \in DOMAIN r.envelope :
                                        /\ p.bytes = r.envelope[j]
                                        /\ p.name = NameOf[p.bytes]
    BY DEF Accounted
  <2> DEFINE r == run[w]
  <2>1. r \in Run /\ DocCount(r)
    BY DEF DocCounts, IInv, TypeOK
  <2>2. r.at > ParseAt \/ (r.at = ParseAt /\ r.pc = "exit" /\ r.outcome = "ok")
    BY StagePlaces DEF Past
  <2>3. \A name \in FileNames :
          Cardinality(SkippedOf(r, name)) + Cardinality(ParsedOf(r, name)) =
            Cardinality({j \in DOMAIN r.envelope : NameOf[r.envelope[j]] = name})
    BY <2>1, <2>2, AllCounted
  <2>4. \A i \in DOMAIN r.parsed : InPlace(r.parsed, r.envelope, i)
    BY <2>1 DEF DocCount, Numbered
  <2>5. \A name \in FileNames :
          Count(r.skipped, LAMBDA s : s.name = name)
            + Count(r.parsed, LAMBDA p : p.name = name /\ p.idx = 0)
            = Count(r.envelope, LAMBDA a : NameOf[a] = name)
    BY <2>3 DEF Count, SkippedOf, ParsedOf, FirstsOf
  <2>6. \A i \in DOMAIN r.parsed :
          /\ r.parsed[i].idx > 0 => r.parsed[i - 1] = [r.parsed[i] EXCEPT !.idx = @ - 1]
          /\ \E j \in DOMAIN r.envelope : /\ r.parsed[i].bytes = r.envelope[j]
                                          /\ r.parsed[i].name = NameOf[r.parsed[i].bytes]
    BY <2>4 DEF InPlace
  <2> QED
    BY <2>5, <2>6
<1> QED
  BY <1>1, InitIInv, NextIInv, InitDocCounts, NextDocCounts, PTL DEF Spec
=============================================================================
