-------------------------- MODULE StepTimerProofs --------------------------
(***************************************************************************)
(* Theorems about StepTimer, for any number of requests and days: its      *)
(* types, what the job reports, which requests may still give an idle case *)
(* a deadline, and that pauses are given back.                             *)
(***************************************************************************)
EXTENDS StepTimer, FiniteSetTheorems, TLAPS

(* A slot has the fields of Idle; what they hold is said below.            *)

Slots(S) == [pc : S, to : S, days : S, now : S, deadline : S, from : S, until : S, visit : S]

IsSlot(q) == \E S : q \in Slots(S)

\* A slot at statement pc, for step to, with this deadline.
SlotAt(q, pc, to, d) == IsSlot(q) /\ q.pc = pc /\ q.to = to /\ q.deadline = d

SlotsOK == DOMAIN req = Requests /\ \A r \in Requests : IsSlot(req[r])

\* What a request about to store a deadline knows: a case that leaves the
\* timed steps gets none, and settings are stored for timed steps only.
Knows(q) ==
    /\ q.pc = "enter" => HasDeadline(q.to) \/ q.deadline = 0
    /\ q.pc \in {"fill", "drop"} => HasDeadline(q.to)

\* One run of the job at a time; one about to report found the flag clear,
\* and nobody has reported since.
ReportInv ==
    /\ \A r, s \in Requests : req[r].pc \in Cron /\ req[s].pc \in Cron => r = s
    /\ \A r \in Requests : req[r].pc = "notice" => sent = 0
    /\ sent \in {0, 1}
    /\ sent = 1 => notified

TimerInv == SlotsOK /\ (\A r \in Requests : Knows(req[r])) /\ ReportInv

\* The empty slot.
LEMMA IdleSlot ==
  IsSlot(Idle) /\ Idle.pc = "idle" /\ Knows(Idle)
<1>1. Idle \in Slots({"idle", "DRAFT", 0})
  BY DEF Idle, Slots
<1>2. Idle.pc = "idle"
  BY DEF Idle
<1> QED
  BY <1>1, <1>2 DEF IsSlot, Knows

\* A slot stays a slot when the handler only goes on ...
LEMMA SetPc ==
  ASSUME NEW q, IsSlot(q), NEW p
  PROVE  LET x == [q EXCEPT !.pc = p]
         IN  SlotAt(x, p, q.to, q.deadline)
<1>1. PICK S : q \in Slots(S)
  BY DEF IsSlot
<1> DEFINE T == S \cup {p}
<1>2. q \in Slots(T) /\ p \in T
  BY <1>1 DEF Slots
<1> HIDE DEF T
<1>3. LET x == [q EXCEPT !.pc = p]
      IN  x \in Slots(T) /\ x.pc = p /\ x.to = q.to /\ x.deadline = q.deadline
  BY <1>2 DEF Slots
<1> QED
  BY <1>3 DEF IsSlot, SlotAt

\* ... when it takes a target,
LEMMA SetTo ==
  ASSUME NEW q, IsSlot(q), NEW p, NEW t
  PROVE  LET x == [q EXCEPT !.pc = p, !.to = t]
         IN  SlotAt(x, p, t, q.deadline)
<1>1. PICK S : q \in Slots(S)
  BY DEF IsSlot
<1> DEFINE T == S \cup {p, t}
<1>2. q \in Slots(T) /\ p \in T /\ t \in T
  BY <1>1 DEF Slots
<1> HIDE DEF T
<1>3. LET x == [q EXCEPT !.pc = p, !.to = t]
      IN  x \in Slots(T) /\ x.pc = p /\ x.to = t /\ x.deadline = q.deadline
  BY <1>2 DEF Slots
<1> QED
  BY <1>3 DEF IsSlot, SlotAt

\* ... a setting to apply,
LEMMA SetSetting ==
  ASSUME NEW q, IsSlot(q), NEW p, NEW t, NEW n
  PROVE  LET x == [q EXCEPT !.pc = p, !.to = t, !.days = n]
         IN  SlotAt(x, p, t, q.deadline)
<1>1. PICK S : q \in Slots(S)
  BY DEF IsSlot
<1> DEFINE T == S \cup {p, t, n}
<1>2. q \in Slots(T) /\ p \in T /\ t \in T /\ n \in T
  BY <1>1 DEF Slots
<1> HIDE DEF T
<1>3. LET x == [q EXCEPT !.pc = p, !.to = t, !.days = n]
      IN  x \in Slots(T) /\ x.pc = p /\ x.to = t /\ x.deadline = q.deadline
  BY <1>2 DEF Slots
<1> QED
  BY <1>3 DEF IsSlot, SlotAt

\* ... the timer of the step it enters,
LEMMA SetTimer ==
  ASSUME NEW q, IsSlot(q), NEW p, NEW n, NEW d
  PROVE  LET x == [q EXCEPT !.pc = p, !.now = n, !.deadline = d]
         IN  SlotAt(x, p, q.to, d)
<1>1. PICK S : q \in Slots(S)
  BY DEF IsSlot
<1> DEFINE T == S \cup {p, n, d}
<1>2. q \in Slots(T) /\ p \in T /\ n \in T /\ d \in T
  BY <1>1 DEF Slots
<1> HIDE DEF T
<1>3. LET x == [q EXCEPT !.pc = p, !.now = n, !.deadline = d]
      IN  x \in Slots(T) /\ x.pc = p /\ x.to = q.to /\ x.deadline = d
  BY <1>2 DEF Slots
<1> QED
  BY <1>3 DEF IsSlot, SlotAt

\* ... the date,
LEMMA SetNow ==
  ASSUME NEW q, IsSlot(q), NEW p, NEW n
  PROVE  LET x == [q EXCEPT !.pc = p, !.now = n]
         IN  SlotAt(x, p, q.to, q.deadline)
<1>1. PICK S : q \in Slots(S)
  BY DEF IsSlot
<1> DEFINE T == S \cup {p, n}
<1>2. q \in Slots(T) /\ p \in T /\ n \in T
  BY <1>1 DEF Slots
<1> HIDE DEF T
<1>3. LET x == [q EXCEPT !.pc = p, !.now = n]
      IN  x \in Slots(T) /\ x.pc = p /\ x.to = q.to /\ x.deadline = q.deadline
  BY <1>2 DEF Slots
<1> QED
  BY <1>3 DEF IsSlot, SlotAt

\* ... the visit it will report,
LEMMA SetVisit ==
  ASSUME NEW q, IsSlot(q), NEW p, NEW n
  PROVE  LET x == [q EXCEPT !.pc = p, !.visit = n]
         IN  SlotAt(x, p, q.to, q.deadline)
<1>1. PICK S : q \in Slots(S)
  BY DEF IsSlot
<1> DEFINE T == S \cup {p, n}
<1>2. q \in Slots(T) /\ p \in T /\ n \in T
  BY <1>1 DEF Slots
<1> HIDE DEF T
<1>3. LET x == [q EXCEPT !.pc = p, !.visit = n]
      IN  x \in Slots(T) /\ x.pc = p /\ x.to = q.to /\ x.deadline = q.deadline
  BY <1>2 DEF Slots
<1> QED
  BY <1>3 DEF IsSlot, SlotAt

\* ... the pause it ends,
LEMMA SetPause ==
  ASSUME NEW q, IsSlot(q), NEW p, NEW d, NEW f, NEW u
  PROVE  LET x == [q EXCEPT !.pc = p, !.deadline = d, !.from = f, !.until = u]
         IN  SlotAt(x, p, q.to, d)
<1>1. PICK S : q \in Slots(S)
  BY DEF IsSlot
<1> DEFINE T == S \cup {p, d, f, u}
<1>2. q \in Slots(T) /\ p \in T /\ d \in T /\ f \in T /\ u \in T
  BY <1>1 DEF Slots
<1> HIDE DEF T
<1>3. LET x == [q EXCEPT !.pc = p, !.deadline = d, !.from = f, !.until = u]
      IN  x \in Slots(T) /\ x.pc = p /\ x.to = q.to /\ x.deadline = d
  BY <1>2 DEF Slots
<1> QED
  BY <1>3 DEF IsSlot, SlotAt

\* ... or that pause and the date.
LEMMA SetPauseNow ==
  ASSUME NEW q, IsSlot(q), NEW p, NEW n, NEW d, NEW f, NEW u
  PROVE  LET x == [q EXCEPT !.pc = p, !.now = n, !.deadline = d, !.from = f, !.until = u]
         IN  SlotAt(x, p, q.to, d)
<1>1. PICK S : q \in Slots(S)
  BY DEF IsSlot
<1> DEFINE T == S \cup {p, n, d, f, u}
<1>2. q \in Slots(T) /\ p \in T /\ n \in T /\ d \in T /\ f \in T /\ u \in T
  BY <1>1 DEF Slots
<1> HIDE DEF T
<1>3. LET x == [q EXCEPT !.pc = p, !.now = n, !.deadline = d, !.from = f, !.until = u]
      IN  x \in Slots(T) /\ x.pc = p /\ x.to = q.to /\ x.deadline = d
  BY <1>2 DEF Slots
<1> QED
  BY <1>3 DEF IsSlot, SlotAt

\* A request stores slot q, and the flag and the reports change as a handler
\* or the job may change them.
Stores(r, q) ==
    /\ IsSlot(q) /\ Knows(q) /\ req' = [req EXCEPT ![r] = q]
    /\ q.pc \in Cron => req[r].pc \in Cron \/ \A s \in Requests : req[s].pc \notin Cron
    /\ q.pc = "notice" => sent' = 0
    /\ \/ UNCHANGED <<sent, notified>>
       \/ sent' = 0
       \/ sent' = 1 /\ notified' /\ req[r].pc = "notice"

\* Such a step keeps the invariant.
LEMMA StoresKeeps ==
  ASSUME TimerInv, NEW r \in Requests, NEW q, Stores(r, q)
  PROVE  TimerInv'
<1>1. req'[r] = q /\ (\A s \in Requests \ {r} : req'[s] = req[s]) /\ DOMAIN req' = Requests
  BY DEF Stores, TimerInv, SlotsOK
<1>2. SlotsOK' /\ \A s \in Requests : Knows(req'[s])
  BY <1>1 DEF Stores, TimerInv, SlotsOK
<1>3. (\A a, b \in Requests : req'[a].pc \in Cron /\ req'[b].pc \in Cron => a = b)
  BY <1>1 DEF Stores, TimerInv, ReportInv
<1>4. ASSUME NEW s \in Requests, req'[s].pc = "notice"
      PROVE  sent' = 0
  <2>1. CASE s = r
    BY <1>1, <1>4, <2>1 DEF Stores
  <2>2. CASE s # r
    <3>1. sent = 0 /\ req[s].pc = "notice"
      BY <1>1, <1>4, <2>2 DEF TimerInv, ReportInv
    <3>2. req[r].pc # "notice"
      BY <2>2, <3>1 DEF TimerInv, ReportInv, Cron
    <3> QED
      BY <3>1, <3>2 DEF Stores
  <2> QED
    BY <2>1, <2>2
<1>5. sent' \in {0, 1}
  BY DEF Stores, TimerInv, ReportInv
<1>6. sent' = 1 => notified'
  BY DEF Stores, TimerInv, ReportInv
<1>7. (\A s \in Requests : Knows(req[s]))'
  BY <1>2 DEF Knows
<1> QED
  BY <1>2, <1>3, <1>4, <1>5, <1>6, <1>7 DEF TimerInv, ReportInv

-----------------------------------------------------------------------------
\* A slot that may still store a deadline, as in TimerWriters.
MayStore(q) == \/ q.pc = "filling"
               \/ q.pc \in {"resume", "autoresume"} /\ q.deadline # 0

\* What every statement of request r does to its slot: it keeps the invariant,
\* and an idle timer gains no new writer.
Next1(r) == \E q : /\ Stores(r, q)
                   /\ ~HasDeadline(status) /\ deadline = 0 => ~MayStore(q)

\* A request that starts.
LEMMA StartStores ==
  ASSUME TimerInv, NEW r \in Requests, StartRequest(r)
  PROVE  Next1(r)
<1> USE IdleSlot DEF Begin, book, row
<1>1. ASSUME NEW to \in Statuses, MoveRead(r, to)
      PROVE  Next1(r)
  <2> DEFINE q == [Idle EXCEPT !.pc = "timer", !.to = to]
  <2>1. SlotAt(q, "timer", to, Idle.deadline)
    BY SetTo, Zenon
  <2>2. req' = [req EXCEPT ![r] = q] /\ UNCHANGED <<sent, notified>>
    BY <1>1 DEF MoveRead
  <2> HIDE DEF q
  <2> QED
    BY <2>1, <2>2 DEF Next1, Stores, SlotAt, Knows, MayStore, Cron
<1>2. ASSUME SignRead(r)
      PROVE  Next1(r)
  <2> DEFINE q == [Idle EXCEPT !.pc = "sign"]
  <2>1. SlotAt(q, "sign", Idle.to, Idle.deadline)
    BY SetPc, Zenon
  <2>2. req' = [req EXCEPT ![r] = q] /\ UNCHANGED <<sent, notified>>
    BY <1>2 DEF SignRead
  <2> HIDE DEF q
  <2> QED
    BY <2>1, <2>2 DEF Next1, Stores, SlotAt, Knows, MayStore, Cron
<1>3. ASSUME PauseRead(r)
      PROVE  Next1(r)
  <2> DEFINE q == [Idle EXCEPT !.pc = "pause"]
  <2>1. SlotAt(q, "pause", Idle.to, Idle.deadline)
    BY SetPc, Zenon
  <2>2. req' = [req EXCEPT ![r] = q] /\ UNCHANGED <<sent, notified>>
    BY <1>3 DEF PauseRead
  <2> HIDE DEF q
  <2> QED
    BY <2>1, <2>2 DEF Next1, Stores, SlotAt, Knows, MayStore, Cron
<1>4. ASSUME ResumeRead(r)
      PROVE  Next1(r)
  <2> DEFINE q == [Idle EXCEPT !.pc = "resume", !.deadline = deadline,
                               !.from = pausedAt, !.until = pauseUntil]
  <2>1. SlotAt(q, "resume", Idle.to, deadline)
    BY SetPause, Zenon
  <2>2. req' = [req EXCEPT ![r] = q] /\ UNCHANGED <<sent, notified>>
    BY <1>4 DEF ResumeRead
  <2> HIDE DEF q
  <2> QED
    BY <2>1, <2>2 DEF Next1, Stores, SlotAt, Knows, MayStore, Cron
<1>5. ASSUME NEW step \in DEADLINE_STEPS, NEW enabled \in BOOLEAN, NEW days \in 1..MaxDays,
             SettingSave(r, step, enabled, days)
      PROVE  Next1(r)
  <2> DEFINE p == IF enabled THEN "fill" ELSE "drop"
             q == [Idle EXCEPT !.pc = p, !.to = step, !.days = days]
  <2>1. p \in {"fill", "drop"}
    OBVIOUS
  <2>2. req' = [req EXCEPT ![r] = q] /\ UNCHANGED <<sent, notified>>
    BY <1>5 DEF SettingSave
  <2> HIDE DEF p
  <2>3. SlotAt(q, p, step, Idle.deadline)
    BY SetSetting, Zenon
  <2> HIDE DEF q
  <2> QED
    BY <2>1, <2>2, <2>3 DEF Next1, Stores, SlotAt, Knows, MayStore, Cron, HasDeadline
<1> QED
  BY <1>1, <1>2, <1>3, <1>4, <1>5 DEF StartRequest

\* The job starts.
LEMMA CronStores ==
  ASSUME TimerInv, NEW r \in Requests, CronStart(r)
  PROVE  Next1(r)
<1> USE IdleSlot DEF Begin, book, row
<1>1. CASE PauseElapsed
  <2> DEFINE q == [Idle EXCEPT !.pc = "autoresume", !.now = today, !.deadline = deadline,
                               !.from = pausedAt, !.until = pauseUntil]
  <2>1. SlotAt(q, "autoresume", Idle.to, deadline)
    BY SetPauseNow, Zenon
  <2>2. req' = [req EXCEPT ![r] = q] /\ UNCHANGED <<sent, notified>>
    BY <1>1 DEF CronStart
  <2> HIDE DEF q
  <2> QED
    BY <2>1, <2>2 DEF Next1, Stores, SlotAt, Knows, MayStore, CronStart
<1>2. CASE ~PauseElapsed
  <2> DEFINE q == [Idle EXCEPT !.pc = "scan", !.now = today]
  <2>1. SlotAt(q, "scan", Idle.to, Idle.deadline)
    BY SetNow, Zenon
  <2>2. req' = [req EXCEPT ![r] = q] /\ UNCHANGED <<sent, notified>>
    BY <1>2 DEF CronStart
  <2> HIDE DEF q
  <2> QED
    BY <2>1, <2>2 DEF Next1, Stores, SlotAt, Knows, MayStore, CronStart
<1> QED
  BY <1>1, <1>2

\* A request that ends: its slot is empty again.
LEMMA FinishStores ==
  ASSUME TimerInv, NEW r \in Requests, Finish(r),
         UNCHANGED <<sent, notified>> \/ sent' = 0
  PROVE  Next1(r)
<1>1. Stores(r, Idle)
  BY IdleSlot DEF Finish, Stores, Cron
<1> QED
  BY <1>1, IdleSlot DEF Next1, MayStore

\* A request, or the job, that goes on.
LEMMA ContinueStores ==
  ASSUME TimerInv, NEW r \in Requests, ContinueRequest(r) \/ CronStep(r)
  PROVE  Next1(r)
<1> USE DEF At, book, row
<1>0. IsSlot(req[r]) /\ Knows(req[r])
  BY DEF TimerInv, SlotsOK
<1>1. CASE MoveTimer(r)
  <2> DEFINE d == StepTimerData(req[r].to)
             q == [req[r] EXCEPT !.pc = "enter", !.now = today, !.deadline = d]
  <2>1. req' = [req EXCEPT ![r] = q] /\ UNCHANGED <<sent, notified>>
    BY <1>1 DEF MoveTimer
  <2>2. HasDeadline(req[r].to) \/ d = 0
    BY DEF StepTimerData
  <2> HIDE DEF d
  <2>3. SlotAt(q, "enter", req[r].to, d)
    BY <1>0, SetTimer, Zenon
  <2> HIDE DEF q
  <2> QED
    BY <2>1, <2>2, <2>3 DEF Next1, Stores, SlotAt, Knows, MayStore, Cron
<1>2. CASE MoveSave(r)
  BY <1>2, FinishStores DEF MoveSave, Rearm
<1>3. CASE SignSave(r)
  BY <1>3, FinishStores DEF SignSave
<1>4. ASSUME NEW window \in 1..MaxPause, PauseSave(r, window)
      PROVE  Next1(r)
  BY <1>4, FinishStores DEF PauseSave
<1>5. CASE ResumeSave(r)
  BY <1>5, FinishStores DEF ResumeSave, Rearm
<1>6. CASE DropDeadlines(r)
  BY <1>6, FinishStores DEF DropDeadlines, Rearm
<1>7. CASE FillRead(r)
  <2>1. CASE status = req[r].to /\ deadline = 0 /\ started # 0
    <3> DEFINE q == [req[r] EXCEPT !.pc = "filling", !.now = started]
    <3>1. req' = [req EXCEPT ![r] = q] /\ UNCHANGED <<sent, notified>>
      BY <1>7, <2>1 DEF FillRead
    <3>2. SlotAt(q, "filling", req[r].to, req[r].deadline)
      BY <1>0, SetNow, Zenon
    <3>3. HasDeadline(status)
      BY <1>0, <1>7, <2>1 DEF FillRead, Knows
    <3> HIDE DEF q
    <3> QED
      BY <3>1, <3>2, <3>3 DEF Next1, Stores, SlotAt, Knows, Cron
  <2>2. CASE ~(status = req[r].to /\ deadline = 0 /\ started # 0)
    BY <1>7, <2>2, FinishStores DEF FillRead, Finish
  <2> QED
    BY <2>1, <2>2
<1>8. CASE FillSave(r)
  BY <1>8, FinishStores DEF FillSave, Rearm
<1>9. CASE Abort(r)
  BY <1>9, FinishStores DEF Abort
<1>10. CASE CronResume(r)
  <2> DEFINE q == [req[r] EXCEPT !.pc = "scan"]
  <2>1. req' = [req EXCEPT ![r] = q] /\ sent' = 0 /\ req[r].pc = "autoresume"
    BY <1>10 DEF CronResume, Rearm
  <2>2. SlotAt(q, "scan", req[r].to, req[r].deadline)
    BY <1>0, SetPc, Zenon
  <2> HIDE DEF q
  <2> QED
    BY <2>1, <2>2 DEF Next1, Stores, SlotAt, Knows, MayStore, Cron
<1>11. CASE CronScan(r)
  <2>1. CASE Overdue(req[r].now) /\ ~notified
    <3> DEFINE q == [req[r] EXCEPT !.pc = "notice", !.visit = visit]
    <3>1. /\ req' = [req EXCEPT ![r] = q] /\ UNCHANGED <<sent, notified>>
          /\ req[r].pc = "scan"
      BY <1>11, <2>1 DEF CronScan
    <3>2. SlotAt(q, "notice", req[r].to, req[r].deadline)
      BY <1>0, SetVisit, Zenon
    <3>3. sent' = 0
      BY <2>1, <3>1 DEF TimerInv, ReportInv
    <3> HIDE DEF q
    <3> QED
      BY <3>1, <3>2, <3>3 DEF Next1, Stores, SlotAt, Knows, MayStore, Cron
  <2>2. CASE ~(Overdue(req[r].now) /\ ~notified)
    BY <1>11, <2>2, FinishStores DEF CronScan, Finish
  <2> QED
    BY <2>1, <2>2
<1>12. CASE CronNotice(r)
  <2>1. sent = 0
    BY <1>12 DEF CronNotice, TimerInv, ReportInv
  <2>2. sent' = 1 /\ notified' /\ req[r].pc = "notice" /\ Finish(r)
    BY <1>12, <2>1 DEF CronNotice, Earlier
  <2> QED
    BY <2>2, IdleSlot DEF Next1, Stores, MayStore, Finish, Cron
<1> QED
  BY <1>1, <1>2, <1>3, <1>4, <1>5, <1>6, <1>7, <1>8, <1>9, <1>10, <1>11, <1>12
     DEF ContinueRequest, CronStep

\* Every step is a statement of one request, the clock or a stutter.
LEMMA StepStores ==
  ASSUME TimerInv, [Next]_vars
  PROVE  \/ \E r \in Requests : Next1(r)
         \/ UNCHANGED <<req, sent, notified>>
<1>1. CASE DayPasses
  BY <1>1 DEF DayPasses, row
<1>2. CASE UNCHANGED vars
  BY <1>2 DEF vars, row, book
<1> QED
  BY <1>1, <1>2, StartStores, CronStores, ContinueStores DEF Next

\* What is known of requests and reports holds throughout: the slots stay
\* slots, the job runs alone, and it reports only with the flag down.
THEOREM TimerInvariant == Spec => []TimerInv
<1>1. Init => TimerInv
  BY IdleSlot DEF Init, TimerInv, SlotsOK, ReportInv, Cron
<1>2. TimerInv /\ [Next]_vars => TimerInv'
  <2> SUFFICES ASSUME TimerInv, [Next]_vars
               PROVE  TimerInv'
    OBVIOUS
  <2>1. CASE \E r \in Requests : Next1(r)
    BY <2>1, StoresKeeps DEF Next1
  <2>2. CASE UNCHANGED <<req, sent, notified>>
    BY <2>2 DEF TimerInv, SlotsOK, Knows, ReportInv
  <2> QED
    BY <2>1, <2>2, StepStores
<1> QED
  BY <1>1, <1>2, PTL DEF Spec

\* "notifies ... ONCE (overdueNotified guards against repeats)"
\* (deadlines.module.ts:15): the job reports a step at most once until a
\* handler clears the flag, whatever else runs between its statements.
THEOREM ReportedOnce == Spec => []NoticedOnce
<1>1. TimerInv => NoticedOnce
  BY DEF TimerInv, ReportInv, NoticedOnce
<1> QED
  BY <1>1, TimerInvariant, PTL

-----------------------------------------------------------------------------
\* No request that has yet to read the case joins the writers of an idle timer.
LEMMA WritersShrink ==
  ASSUME TimerInv, [Next]_vars, ~HasDeadline(status), deadline = 0
  PROVE  TimerWriters' \subseteq TimerWriters
<1>1. CASE \E r \in Requests : Next1(r)
  <2>0. PICK r \in Requests : Next1(r)
    BY <1>1
  <2>1. PICK q : Stores(r, q) /\ ~MayStore(q)
    BY <2>0 DEF Next1
  <2>2. req'[r] = q /\ \A s \in Requests \ {r} : req'[s] = req[s]
    BY <2>1 DEF Stores, TimerInv, SlotsOK
  <2> QED
    BY <2>1, <2>2 DEF TimerWriters, MayStore
<1>2. CASE UNCHANGED <<req, sent, notified>>
  BY <1>2 DEF TimerWriters
<1> QED
  BY <1>1, <1>2, StepStores

\* Without writers it gets a deadline only with its next step.
LEMMA StaysIdle ==
  ASSUME TimerInv, [Next]_vars, ~HasDeadline(status), deadline = 0, TimerWriters = {}
  PROVE  deadline' = 0 \/ HasDeadline(status')
<1> USE DEF At, row
<1>1. ASSUME NEW r \in Requests, StartRequest(r) \/ CronStart(r)
      PROVE  deadline' = 0
  BY <1>1 DEF StartRequest, MoveRead, SignRead, PauseRead, ResumeRead, SettingSave, CronStart
<1>2. ASSUME NEW r \in Requests, ContinueRequest(r)
      PROVE  deadline' = 0 \/ HasDeadline(status')
  <2>1. CASE MoveSave(r)
    BY <2>1 DEF MoveSave, TimerInv, Knows
  <2>2. CASE ResumeSave(r)
    BY <2>2 DEF ResumeSave, TimerWriters, Shifted
  <2>3. CASE FillSave(r)
    BY <2>3 DEF FillSave, TimerWriters
  <2>4. CASE MoveTimer(r) \/ SignSave(r) \/ (\E window \in 1..MaxPause : PauseSave(r, window))
             \/ DropDeadlines(r) \/ FillRead(r) \/ Abort(r)
    BY <2>4 DEF MoveTimer, SignSave, PauseSave, DropDeadlines, FillRead, Abort
  <2> QED
    BY <1>2, <2>1, <2>2, <2>3, <2>4 DEF ContinueRequest
<1>3. ASSUME NEW r \in Requests, CronStep(r)
      PROVE  deadline' = 0
  BY <1>3 DEF CronStep, CronResume, CronScan, CronNotice, TimerWriters, Shifted
<1>4. CASE DayPasses \/ UNCHANGED vars
  BY <1>4 DEF DayPasses, vars
<1> QED
  BY <1>1, <1>2, <1>3, <1>4 DEF Next

\* "Terminal / draft - no timer" (credit-cases.service.ts:553): a case that
\* left the timed steps stays without a deadline unless a request in flight
\* read one before it left.
THEOREM IdleTimersSettle == Spec => IdleTimerSettles
<1>1. TimerInv /\ [Next]_vars =>
        [~HasDeadline(status) /\ deadline = 0 =>
            /\ TimerWriters' \subseteq TimerWriters
            /\ TimerWriters = {} => deadline' = 0 \/ HasDeadline(status')]_vars
  BY WritersShrink, StaysIdle
<1> QED
  BY <1>1, TimerInvariant, PTL DEF Spec, IdleTimerSettles

-----------------------------------------------------------------------------
(* Business days.  AddBusinessDays is a recursion over the days; what is   *)
(* needed of it, that it leads to a later day, takes an induction, which   *)
(* the finiteness of an interval provides.                                 *)

\* Induction up to n, over a set.
LEMMA Reaches ==
  ASSUME NEW n \in Nat, NEW S, 0 \in S, \A k \in 0..n : k \in S /\ k # n => k + 1 \in S
  PROVE  n \in S
<1> DEFINE T == {k \in 0..n : k \notin S}
           pred == [k \in T |-> k - 1]
<1> SUFFICES ASSUME n \notin S PROVE FALSE
  OBVIOUS
<1>1. IsFiniteSet(T)
  <2>1. T \in SUBSET Nat /\ \A s \in T : s <= n
    OBVIOUS
  <2> HIDE DEF T
  <2> QED
    BY <2>1, FS_BoundedSetOfNaturals
<1>2. \A k \in T : k - 1 \in T
  <2> SUFFICES ASSUME NEW k \in T PROVE k - 1 \in T
    OBVIOUS
  <2>1. k \in 1..n
    OBVIOUS
  <2>2. k - 1 \in 0..n /\ k - 1 # n /\ (k - 1) + 1 = k
    BY <2>1
  <2> QED
    BY <2>2
<1>3. pred \in Injection(T, T)
  BY <1>2 DEF Injection, IsInjective
<1>4. pred \in Surjection(T, T)
  <2> HIDE DEF T, pred
  <2> QED
    BY <1>1, <1>3, FS_Injection
<1>5. n \in T
  OBVIOUS
<1>6. PICK k \in T : pred[k] = n
  BY <1>4, <1>5 DEF Surjection
<1> QED
  BY <1>6

\* The next workday is a later day.
LEMMA NextWorkdayLater ==
  ASSUME NEW d \in Nat
  PROVE  NextWorkday(d) \in Nat /\ NextWorkday(d) > d
<1> DEFINE P(u) == ~IsWeekend(u) /\ \A v \in d + 1 .. u - 1 : IsWeekend(v)
<1>1. \E u \in d + 1 .. d + 3 : P(u)
  <2>1. CASE ~IsWeekend(d + 1)
    <3>1. P(d + 1)
      BY <2>1
    <3> QED
      BY <3>1
  <2>2. CASE IsWeekend(d + 1) /\ ~IsWeekend(d + 2)
    <3>1. \A v \in d + 1 .. (d + 2) - 1 : v = d + 1
      OBVIOUS
    <3> QED
      BY <2>2, <3>1
  <2>3. CASE IsWeekend(d + 1) /\ IsWeekend(d + 2)
    <3>1. \A v \in d + 1 .. (d + 3) - 1 : v = d + 1 \/ v = d + 2
      OBVIOUS
    <3>2. ~IsWeekend(d + 3)
      BY <2>3 DEF IsWeekend
    <3> QED
      BY <2>3, <3>1, <3>2
  <2> QED
    BY <2>1, <2>2, <2>3
<1>2. NextWorkday(d) \in d + 1 .. d + 3
  <2>1. NextWorkday(d) = CHOOSE u \in d + 1 .. d + 3 : P(u)
    BY DEF NextWorkday
  <2> HIDE DEF P
  <2> QED
    BY <1>1, <2>1
<1> QED
  BY <1>2

\* The recursion of addBusinessDays has a solution up to every day ...
Solves(f, from, n) ==
    f = [k \in 0..n |-> IF k = 0 THEN from ELSE NextWorkday(f[k - 1])]

LEMMA Solution ==
  ASSUME NEW from \in Nat, NEW n \in Nat
  PROVE  \E f : Solves(f, from, n)
<1> DEFINE S == {m \in Nat : \E f : Solves(f, from, m)}
<1>1. 0 \in S
  <2> DEFINE f == [k \in 0..0 |-> from]
  <2>1. Solves(f, from, 0)
    BY DEF Solves
  <2> QED
    BY <2>1
<1>2. ASSUME NEW m \in 0..n, m \in S, m # n
      PROVE  m + 1 \in S
  <2>1. PICK f : Solves(f, from, m)
    BY <1>2
  <2> DEFINE g == [k \in 0..m + 1 |-> IF k = m + 1 THEN NextWorkday(f[m]) ELSE f[k]]
  <2>2. \A k \in 0..m + 1 : g[k] = IF k = 0 THEN from ELSE NextWorkday(g[k - 1])
    <3> SUFFICES ASSUME NEW k \in 0..m + 1
                 PROVE  g[k] = IF k = 0 THEN from ELSE NextWorkday(g[k - 1])
      OBVIOUS
    <3>1. CASE k = m + 1
      BY <3>1
    <3>2. CASE k # m + 1
      <4>1. k \in 0..m /\ (k # 0 => k - 1 \in 0..m /\ k - 1 # m + 1 /\ k - 1 \in 0..m + 1)
        BY <3>2
      <4>2. g[k] = f[k] /\ (k # 0 => g[k - 1] = f[k - 1])
        BY <3>2, <4>1
      <4>3. f[k] = IF k = 0 THEN from ELSE NextWorkday(f[k - 1])
        BY <2>1, <4>1 DEF Solves
      <4> QED
        BY <4>2, <4>3
    <3> QED
      BY <3>1, <3>2
  <2>3. g = [k \in 0..m + 1 |-> IF k = 0 THEN from ELSE NextWorkday(g[k - 1])]
    <3>1. g = [k \in 0..m + 1 |-> g[k]]
      OBVIOUS
    <3> HIDE DEF g
    <3> QED
      BY <2>2, <3>1
  <2>4. Solves(g, from, m + 1)
    <3> HIDE DEF g
    <3> QED
      BY <2>3 DEF Solves
  <2> QED
    BY <2>4
<1> HIDE DEF S
<1>3. n \in S
  BY <1>1, <1>2, Reaches
<1> QED
  BY <1>3 DEF S

\* ... so addBusinessDays, with a day at least, answers a later one: a
\* deadline is a day to come, and a pause has a window.
THEOREM BusinessDaysLater ==
  ASSUME NEW from \in Nat, NEW days \in Nat \ {0}
  PROVE  AddBusinessDays(from, days) \in Nat /\ AddBusinessDays(from, days) > from
<1> DEFINE after == CHOOSE f : Solves(f, from, days)
<1>1. Solves(after, from, days)
  BY Solution
<1>2. AddBusinessDays(from, days) = after[days]
  BY DEF AddBusinessDays, Solves
<1> HIDE DEF after
<1> DEFINE S == {m \in 0..days : after[m] \in Nat /\ (m = 0 \/ after[m] > from)
                                 /\ (m = 0 => after[m] = from)}
<1>3. 0 \in S
  BY <1>1 DEF Solves
<1>4. ASSUME NEW m \in 0..days, m \in S, m # days
      PROVE  m + 1 \in S
  <2>1. m + 1 \in 0..days /\ m + 1 # 0 /\ (m + 1) - 1 = m
    BY <1>4
  <2>2. after[m + 1] = NextWorkday(after[m])
    BY <1>1, <2>1 DEF Solves
  <2>3. after[m] \in Nat /\ after[m] >= from
    BY <1>4
  <2> QED
    BY <2>1, <2>2, <2>3, NextWorkdayLater
<1> HIDE DEF S
<1>5. days \in S
  BY <1>3, <1>4, Reaches
<1> QED
  BY <1>2, <1>5 DEF S

-----------------------------------------------------------------------------
(* Types.                                                                  *)

\* What a slot holds on day t, in visit v: dates that have come, a pause that
\* ends after it began, a setting of at least a day.
Held(q, t, v) ==
    /\ q.now \in Nat /\ q.now <= t
    /\ q.deadline \in Nat
    /\ q.pc \in {"resume", "autoresume"} =>
           0 < q.from /\ q.from <= t /\ q.from < q.until
    /\ q.pc \in {"fill", "filling"} => q.days # 0
    /\ q.pc = "notice" => q.visit # 0
    /\ q.visit <= v

DayInv ==
    /\ TypeOK
    /\ started <= today /\ pausedAt <= today
    /\ \A r \in Requests : Held(req[r], today, visit)

\* What has passed of a pause is never less than nothing.
LEMMA HoldIsDays ==
  ASSUME DayInv
  PROVE  Hold \in Nat
BY TimeAssumption DEF DayInv, TypeOK, Hold, Earlier

\* A slot that is stored leaves the others as they were.
LEMMA HeldStored ==
  ASSUME DayInv, NEW r \in Requests, NEW q \in Request, req' = [req EXCEPT ![r] = q],
         today' = today, visit' \in {visit, visit + 1}, Held(q, today, visit)
  PROVE  req' \in [Requests -> Request] /\ \A s \in Requests : Held(req'[s], today', visit')
<1>1. req' \in [Requests -> Request]
  BY DEF DayInv, TypeOK
<1>2. visit \in Nat
  BY BoundsAssumption DEF DayInv, TypeOK
<1>3. ASSUME NEW s \in Requests
      PROVE  Held(req'[s], today', visit')
  <2> PICK x : x = req'[s]
    OBVIOUS
  <2>1. x \in Request /\ Held(x, today, visit)
    BY DEF DayInv, TypeOK
  <2> QED
    BY <2>1, <1>2 DEF Held, Request
<1> QED
  BY <1>1, <1>3

\* A field that is stored keeps the type of its slot.
LEMMA FieldStored ==
  ASSUME NEW q \in Request
  PROVE  /\ \A p \in {"idle", "timer", "enter", "sign", "pause", "resume", "drop", "fill",
                      "filling", "autoresume", "scan", "notice"} : [q EXCEPT !.pc = p] \in Request
         /\ \A t \in Statuses : [q EXCEPT !.to = t] \in Request
         /\ \A n \in 0..MaxDays : [q EXCEPT !.days = n] \in Request
         /\ \A n \in Nat : /\ [q EXCEPT !.now = n] \in Request
                          /\ [q EXCEPT !.deadline = n] \in Request
                          /\ [q EXCEPT !.from = n] \in Request
                          /\ [q EXCEPT !.until = n] \in Request
         /\ \A n \in 0..MaxVisits : [q EXCEPT !.visit = n] \in Request
BY DEF Request

\* The empty slot, on any day.
LEMMA IdleHeld ==
  ASSUME DayInv
  PROVE  Idle \in Request /\ Held(Idle, today, visit)
BY TimeAssumption, BoundsAssumption DEF DayInv, TypeOK, Idle, Request, Statuses, Held

\* A request that starts changes no column but a setting.
LEMMA StartTyped ==
  ASSUME DayInv, NEW r \in Requests, StartRequest(r) \/ CronStart(r)
  PROVE  DayInv'
<1> USE DEF Begin, book, row
<1> DEFINE Goal == \E q \in Request : Held(q, today, visit) /\ req' = [req EXCEPT ![r] = q]
<1>0. Idle \in Request /\ Held(Idle, today, visit) /\ MaxDays \in Nat /\ FirstDay \in Nat /\ visit \in Nat
  BY IdleHeld, TimeAssumption, BoundsAssumption DEF DayInv, TypeOK
<1>1. ASSUME NEW to \in Statuses, MoveRead(r, to)
      PROVE  Goal
  <2> DEFINE q == [Idle EXCEPT !.pc = "timer", !.to = to]
  <2>1. q \in Request /\ Held(q, today, visit)
    BY <1>0 DEF Request, Held, Idle
  <2> QED
    BY <1>1, <2>1 DEF MoveRead
<1>2. ASSUME SignRead(r)
      PROVE  Goal
  <2> DEFINE q == [Idle EXCEPT !.pc = "sign"]
  <2>1. q \in Request /\ Held(q, today, visit)
    BY <1>0 DEF Request, Held, Idle
  <2> QED
    BY <1>2, <2>1 DEF SignRead
<1>3. ASSUME PauseRead(r)
      PROVE  Goal
  <2> DEFINE q == [Idle EXCEPT !.pc = "pause"]
  <2>1. q \in Request /\ Held(q, today, visit)
    BY <1>0 DEF Request, Held, Idle
  <2> QED
    BY <1>3, <2>1 DEF PauseRead
<1>4. ASSUME ResumeRead(r)
      PROVE  Goal
  <2> DEFINE q == [Idle EXCEPT !.pc = "resume", !.deadline = deadline,
                               !.from = pausedAt, !.until = pauseUntil]
  <2>1. /\ deadline \in Nat /\ pausedAt \in Nat /\ pauseUntil \in Nat
        /\ 0 < pausedAt /\ pausedAt <= today /\ pausedAt < pauseUntil
    BY <1>4, TimeAssumption DEF ResumeRead, DayInv, TypeOK
  <2>2. q \in Request
    <3>1. [Idle EXCEPT !.pc = "resume"] \in Request
      BY <1>0, FieldStored
    <3>2. [Idle EXCEPT !.pc = "resume", !.deadline = deadline] \in Request
      BY <2>1, <3>1, FieldStored
    <3>3. [Idle EXCEPT !.pc = "resume", !.deadline = deadline, !.from = pausedAt] \in Request
      BY <2>1, <3>2, FieldStored
    <3> QED
      BY <2>1, <3>3, FieldStored
  <2>3. /\ q.pc = "resume" /\ q.now = Idle.now /\ q.deadline = deadline
        /\ q.from = pausedAt /\ q.until = pauseUntil /\ q.visit = Idle.visit
    BY DEF Idle
  <2>4. req' = [req EXCEPT ![r] = q]
    BY <1>4 DEF ResumeRead
  <2> HIDE DEF q
  <2>5. Held(q, today, visit)
    BY <1>0, <2>1, <2>3 DEF Held
  <2> QED
    BY <2>2, <2>4, <2>5
<1>5. ASSUME NEW step \in DEADLINE_STEPS, NEW enabled \in BOOLEAN, NEW days \in 1..MaxDays,
             SettingSave(r, step, enabled, days)
      PROVE  Goal
  <2> DEFINE q == [Idle EXCEPT !.pc = IF enabled THEN "fill" ELSE "drop",
                               !.to = step, !.days = days]
  <2>1. (IF enabled THEN "fill" ELSE "drop") \in {"fill", "drop"} /\ step \in Statuses
    BY DEF DEADLINE_STEPS, Statuses
  <2>2. q \in Request
    <3> DEFINE p == IF enabled THEN "fill" ELSE "drop"
    <3>0. p \in {"fill", "drop"}
      BY <2>1
    <3> HIDE DEF p
    <3>1. [Idle EXCEPT !.pc = p] \in Request
      BY <1>0, <3>0, FieldStored
    <3>2. [Idle EXCEPT !.pc = p, !.to = step] \in Request
      BY <2>1, <3>1, FieldStored
    <3>3. days \in 0..MaxDays
      BY <1>0
    <3>4. [Idle EXCEPT !.pc = p, !.to = step, !.days = days] \in Request
      BY <3>2, <3>3, FieldStored
    <3> QED
      BY <3>4 DEF p
  <2>3. /\ q.pc \in {"fill", "drop"} /\ q.now = Idle.now /\ q.deadline = Idle.deadline
        /\ q.days = days /\ q.visit = Idle.visit
    BY <2>1 DEF Idle
  <2>4. req' = [req EXCEPT ![r] = q]
    BY <1>5 DEF SettingSave
  <2> HIDE DEF q
  <2>5. Held(q, today, visit)
    BY <1>0, <2>3 DEF Held
  <2> QED
    BY <2>2, <2>4, <2>5
<1>6. ASSUME CronStart(r)
      PROVE  Goal
  <2>1. CASE PauseElapsed
    <3> DEFINE q == [Idle EXCEPT !.pc = "autoresume", !.now = today, !.deadline = deadline,
                                 !.from = pausedAt, !.until = pauseUntil]
    <3>1. /\ deadline \in Nat /\ pausedAt \in Nat /\ pauseUntil \in Nat /\ today \in Nat
          /\ 0 < pausedAt /\ pausedAt <= today /\ pausedAt < pauseUntil
      BY <2>1, TimeAssumption DEF PauseElapsed, DayInv, TypeOK
    <3>2. q \in Request
      <4>1. [Idle EXCEPT !.pc = "autoresume"] \in Request
        BY <1>0, FieldStored
      <4>2. [Idle EXCEPT !.pc = "autoresume", !.now = today] \in Request
        BY <3>1, <4>1, FieldStored
      <4>3. [Idle EXCEPT !.pc = "autoresume", !.now = today, !.deadline = deadline] \in Request
        BY <3>1, <4>2, FieldStored
      <4>4. [Idle EXCEPT !.pc = "autoresume", !.now = today, !.deadline = deadline,
                         !.from = pausedAt] \in Request
        BY <3>1, <4>3, FieldStored
      <4> QED
        BY <3>1, <4>4, FieldStored
    <3>3. /\ q.pc = "autoresume" /\ q.now = today /\ q.deadline = deadline
          /\ q.from = pausedAt /\ q.until = pauseUntil /\ q.visit = Idle.visit
      BY DEF Idle
    <3>4. req' = [req EXCEPT ![r] = q]
      BY <1>6, <2>1 DEF CronStart
    <3> HIDE DEF q
    <3>5. Held(q, today, visit)
      BY <1>0, <3>1, <3>3 DEF Held
    <3> QED
      BY <3>2, <3>4, <3>5
  <2>2. CASE ~PauseElapsed
    <3> DEFINE q == [Idle EXCEPT !.pc = "scan", !.now = today]
    <3>1. today \in Nat
      BY TimeAssumption DEF DayInv, TypeOK
    <3>2. q \in Request
      <4>1. [Idle EXCEPT !.pc = "scan"] \in Request
        BY <1>0, FieldStored
      <4> QED
        BY <3>1, <4>1, FieldStored
    <3>3. /\ q.pc = "scan" /\ q.now = today /\ q.deadline = Idle.deadline
          /\ q.visit = Idle.visit
      BY DEF Idle
    <3>4. req' = [req EXCEPT ![r] = q]
      BY <1>6, <2>2 DEF CronStart
    <3> HIDE DEF q
    <3>5. Held(q, today, visit)
      BY <1>0, <3>1, <3>3 DEF Held
    <3> QED
      BY <3>2, <3>4, <3>5
  <2> QED
    BY <2>1, <2>2
<1>7. Goal
  <2> HIDE DEF Goal
  <2> QED
    BY <1>1, <1>2, <1>3, <1>4, <1>5, <1>6 DEF StartRequest
<1>8. UNCHANGED <<row, today, book>> /\ setting' \in [DEADLINE_STEPS -> Setting]
  <2>1. ASSUME NEW step \in DEADLINE_STEPS, NEW enabled \in BOOLEAN, NEW days \in 1..MaxDays,
               SettingSave(r, step, enabled, days)
        PROVE  UNCHANGED <<row, today, book>> /\ setting' \in [DEADLINE_STEPS -> Setting]
    <3>1. setting \in [DEADLINE_STEPS -> Setting] /\ [enabled |-> enabled, days |-> days] \in Setting
      BY DEF DayInv, TypeOK, Setting
    <3> QED
      BY <2>1, <3>1 DEF SettingSave
  <2>2. CASE UNCHANGED <<row, setting, today, book>>
    BY <2>2 DEF DayInv, TypeOK
  <2> QED
    BY <2>1, <2>2 DEF StartRequest, MoveRead, SignRead, PauseRead, ResumeRead, CronStart
<1>9. req' \in [Requests -> Request] /\ \A s \in Requests : Held(req'[s], today', visit')
  BY <1>7, <1>8, HeldStored
<1>10. TypeOK'
  BY <1>8, <1>9 DEF DayInv, TypeOK
<1> QED
  BY <1>8, <1>9, <1>10 DEF DayInv

\* A request that ends leaves the other slots as they were.
LEMMA FinishTyped ==
  ASSUME DayInv, NEW r \in Requests, Finish(r), today' = today, visit' \in {visit, visit + 1}
  PROVE  req' \in [Requests -> Request] /\ \A s \in Requests : Held(req'[s], today', visit')
BY IdleHeld, HeldStored DEF Finish

LEMMA RearmTyped ==
  ASSUME Rearm
  PROVE  notified' \in BOOLEAN /\ sent' \in 0..2
<1>1. notified' \in BOOLEAN
  BY Zenon DEF Rearm
<1>2. sent' \in 0..2
  BY DEF Rearm
<1> QED
  BY <1>1, <1>2

\* A window of at least a day ends later, and a deadline is a day.
LEMMA StepTimerTyped ==
  ASSUME DayInv, NEW to
  PROVE  StepTimerData(to) \in Nat
<1>1. CASE HasDeadline(to) /\ setting[to].enabled
  <2>1. today \in Nat /\ setting[to].days \in Nat \ {0}
    BY <1>1, TimeAssumption, BoundsAssumption DEF DayInv, TypeOK, HasDeadline, Setting
  <2> QED
    BY <1>1, <2>1, BusinessDaysLater DEF StepTimerData
<1>2. CASE ~(HasDeadline(to) /\ setting[to].enabled)
  BY <1>2 DEF StepTimerData
<1> QED
  BY <1>1, <1>2

\* A request that goes on stores dates that have come and deadlines to come.
LEMMA ContinueTyped ==
  ASSUME DayInv, NEW r \in Requests, ContinueRequest(r)
  PROVE  DayInv'
<1> USE DEF At, book, row
<1> DEFINE Slots2 == /\ req' \in [Requests -> Request]
                     /\ \A s \in Requests : Held(req'[s], today', visit')
<1>0. /\ TypeOK /\ started <= today /\ pausedAt <= today /\ today \in Nat
      /\ visit \in Nat /\ req[r] \in Request /\ Held(req[r], today, visit)
      /\ MaxPause \in Nat /\ MaxDays \in Nat /\ MaxVisits \in Nat
      /\ FirstDay \in Nat \ {0} /\ LastDay \in Nat
  BY TimeAssumption, BoundsAssumption DEF DayInv, TypeOK
<1>1. CASE MoveTimer(r)
  <2> DEFINE d == StepTimerData(req[r].to)
             q == [req[r] EXCEPT !.pc = "enter", !.now = today, !.deadline = d]
  <2>1. d \in Nat
    BY StepTimerTyped
  <2>2. req' = [req EXCEPT ![r] = q] /\ UNCHANGED <<row, setting, today, book>>
    BY <1>1 DEF MoveTimer
  <2> HIDE DEF d
  <2>3. q \in Request
    <3>1. [req[r] EXCEPT !.pc = "enter"] \in Request
      BY <1>0, FieldStored
    <3>2. [req[r] EXCEPT !.pc = "enter", !.now = today] \in Request
      BY <1>0, <3>1, FieldStored
    <3> QED
      BY <2>1, <3>2, FieldStored
  <2>4. q.pc = "enter" /\ q.now = today /\ q.deadline = d /\ q.visit = req[r].visit
    BY <1>0 DEF Request
  <2> HIDE DEF q
  <2>5. Held(q, today, visit)
    BY <1>0, <2>1, <2>4 DEF Held
  <2>6. Slots2
    BY <2>2, <2>3, <2>5, HeldStored
  <2> QED
    BY <2>2, <2>6 DEF DayInv, TypeOK
<1>2. CASE MoveSave(r)
  <2>1. Slots2
    BY <1>2, FinishTyped DEF MoveSave
  <2>2. req[r].to \in Statuses /\ req[r].now \in 0..LastDay /\ req[r].now <= today
        /\ req[r].deadline \in Nat
    BY <1>0 DEF Request, Held, TypeOK
  <2>3. visit + 1 \in 1..MaxVisits /\ noticed' \subseteq 1..visit'
    BY <1>0, <1>2 DEF MoveSave, TypeOK
  <2> QED
    BY <1>0, <1>2, <2>1, <2>2, <2>3, RearmTyped DEF MoveSave, DayInv, TypeOK
<1>3. CASE SignSave(r)
  <2>1. Slots2
    BY <1>3, FinishTyped DEF SignSave
  <2>2. visit + 1 \in 1..MaxVisits /\ noticed' \subseteq 1..visit' /\ "FINALIZED" \in Statuses
    BY <1>0, <1>3 DEF SignSave, TypeOK, Statuses
  <2> QED
    BY <1>0, <1>3, <2>1, <2>2 DEF SignSave, DayInv, TypeOK
<1>4. ASSUME NEW window \in 1..MaxPause, PauseSave(r, window)
      PROVE  DayInv'
  <2>1. Slots2
    BY <1>4, FinishTyped DEF PauseSave
  <2>2. AddBusinessDays(today, window) \in Nat /\ AddBusinessDays(today, window) > today
    BY <1>0, BusinessDaysLater
  <2>3. today \in 0..LastDay
    BY <1>0 DEF TypeOK
  <2>4. pausedAt' = today /\ pauseUntil' = AddBusinessDays(today, window)
        /\ UNCHANGED <<status, signed, started, deadline, notified, setting, today, book>>
    BY <1>4 DEF PauseSave
  <2> HIDE DEF Slots2
  <2>5. TypeOK'
    BY <1>0, <2>1, <2>2, <2>3, <2>4 DEF TypeOK, Slots2
  <2> QED
    BY <1>0, <2>1, <2>4, <2>5 DEF DayInv, Slots2
<1>5. CASE ResumeSave(r)
  <2>1. Slots2
    BY <1>5, FinishTyped DEF ResumeSave
  <2>2. Earlier(today, req[r].until) - req[r].from \in Nat
    BY <1>0, <1>5 DEF ResumeSave, Held, Request, Earlier
  <2>3. deadline' \in Nat
    BY <1>0, <1>5, <2>2 DEF ResumeSave, Held, Shifted
  <2> QED
    BY <1>0, <1>5, <2>1, <2>3, RearmTyped DEF ResumeSave, DayInv, TypeOK
<1>6. CASE DropDeadlines(r)
  <2>1. Slots2
    BY <1>6, FinishTyped DEF DropDeadlines
  <2> QED
    BY <1>0, <1>6, <2>1, RearmTyped DEF DropDeadlines, DayInv, TypeOK
<1>7. CASE FillRead(r)
  <2>1. Slots2
    <3>1. CASE status = req[r].to /\ deadline = 0 /\ started # 0
      <4> DEFINE q == [req[r] EXCEPT !.pc = "filling", !.now = started]
      <4>1. req' = [req EXCEPT ![r] = q] /\ UNCHANGED <<today, visit>> /\ req[r].pc = "fill"
        BY <1>7, <3>1 DEF FillRead
      <4>2. started \in Nat
        BY <1>0 DEF TypeOK
      <4>3. q \in Request
        <5>1. [req[r] EXCEPT !.pc = "filling"] \in Request
          BY <1>0, FieldStored
        <5> QED
          BY <4>2, <5>1, FieldStored
      <4>4. /\ q.pc = "filling" /\ q.now = started /\ q.days = req[r].days
            /\ q.deadline = req[r].deadline /\ q.visit = req[r].visit
        BY <1>0 DEF Request
      <4> HIDE DEF q
      <4>5. Held(q, today, visit)
        BY <1>0, <4>1, <4>2, <4>4 DEF Held
      <4> QED
        BY <4>1, <4>3, <4>5, HeldStored
    <3>2. CASE ~(status = req[r].to /\ deadline = 0 /\ started # 0)
      BY <1>7, <3>2, FinishTyped DEF FillRead, Finish
    <3> QED
      BY <3>1, <3>2
  <2> QED
    BY <1>0, <1>7, <2>1 DEF FillRead, DayInv, TypeOK
<1>8. CASE FillSave(r)
  <2>1. Slots2
    BY <1>8, FinishTyped DEF FillSave
  <2>2. AddBusinessDays(req[r].now, req[r].days) \in Nat
    <3>1. req[r].now \in Nat /\ req[r].days \in Nat \ {0}
      BY <1>0, <1>8 DEF FillSave, Held, Request
    <3> QED
      BY <3>1, BusinessDaysLater
  <2>3. deadline' \in Nat /\ due' \in Nat
    BY <1>8, <2>2, HoldIsDays DEF FillSave
  <2> QED
    BY <1>0, <1>8, <2>1, <2>3, RearmTyped DEF FillSave, DayInv, TypeOK
<1>9. CASE Abort(r)
  <2>1. Slots2
    BY <1>9, FinishTyped DEF Abort
  <2> QED
    BY <1>0, <1>9, <2>1 DEF Abort, DayInv, TypeOK
<1> QED
  BY <1>1, <1>2, <1>3, <1>4, <1>5, <1>6, <1>7, <1>8, <1>9 DEF ContinueRequest

\* The job stores no other dates than those it read.
LEMMA CronTyped ==
  ASSUME DayInv, NEW r \in Requests, CronStep(r)
  PROVE  DayInv'
<1> USE DEF At, book, row
<1> DEFINE Slots2 == /\ req' \in [Requests -> Request]
                     /\ \A s \in Requests : Held(req'[s], today', visit')
<1>0. /\ TypeOK /\ started <= today /\ pausedAt <= today /\ today \in Nat
      /\ visit \in 1..MaxVisits /\ req[r] \in Request /\ Held(req[r], today, visit)
      /\ MaxVisits \in Nat
  BY TimeAssumption, BoundsAssumption DEF DayInv, TypeOK
<1>1. CASE CronResume(r)
  <2> DEFINE q == [req[r] EXCEPT !.pc = "scan"]
  <2>1. req' = [req EXCEPT ![r] = q] /\ UNCHANGED <<today, visit>>
    BY <1>1 DEF CronResume
  <2>2. q \in Request
    BY <1>0, FieldStored
  <2>3. /\ q.pc = "scan" /\ q.now = req[r].now
        /\ q.deadline = req[r].deadline /\ q.visit = req[r].visit
    BY <1>0 DEF Request
  <2> HIDE DEF q
  <2>4. Held(q, today, visit)
    BY <1>0, <2>3 DEF Held
  <2>5. Slots2
    BY <2>1, <2>2, <2>4, HeldStored
  <2>6. deadline' \in Nat
    BY <1>0, <1>1 DEF CronResume, Held, Request, Shifted
  <2> QED
    <3>1. /\ pausedAt' = 0 /\ pauseUntil' = 0 /\ Rearm
          /\ UNCHANGED <<status, signed, started, setting, today, visit, noticed, due>>
      BY <1>1 DEF CronResume
    <3>2. today \in FirstDay..LastDay /\ LastDay \in Nat
      BY <1>0, TimeAssumption DEF TypeOK
    <3> HIDE DEF Slots2
    <3>3. TypeOK'
      BY <1>0, <2>5, <2>6, <3>1, <3>2, RearmTyped DEF TypeOK, Slots2
    <3> QED
      BY <1>0, <2>5, <3>1, <3>3 DEF DayInv, Slots2
<1>2. CASE CronScan(r)
  <2>1. Slots2
    <3>1. CASE Overdue(req[r].now) /\ ~notified
      <4> DEFINE q == [req[r] EXCEPT !.pc = "notice", !.visit = visit]
      <4>1. req' = [req EXCEPT ![r] = q] /\ UNCHANGED <<today, visit>>
        BY <1>2, <3>1 DEF CronScan
      <4>2. q \in Request
        <5>1. [req[r] EXCEPT !.pc = "notice"] \in Request
          BY <1>0, FieldStored
        <5>2. visit \in 0..MaxVisits
          BY <1>0
        <5> QED
          BY <5>1, <5>2, FieldStored
      <4>3. /\ q.pc = "notice" /\ q.now = req[r].now
            /\ q.deadline = req[r].deadline /\ q.visit = visit
        BY <1>0 DEF Request
      <4> HIDE DEF q
      <4>4. Held(q, today, visit)
        BY <1>0, <4>3 DEF Held
      <4> QED
        BY <4>1, <4>2, <4>4, HeldStored
    <3>2. CASE ~(Overdue(req[r].now) /\ ~notified)
      BY <1>2, <3>2, FinishTyped DEF CronScan, Finish
    <3> QED
      BY <3>1, <3>2
  <2> QED
    BY <1>0, <1>2, <2>1 DEF CronScan, DayInv, TypeOK
<1>3. CASE CronNotice(r)
  <2>1. Slots2
    BY <1>3, FinishTyped DEF CronNotice
  <2>2. req[r].visit \in 1..visit
    BY <1>0, <1>3 DEF CronNotice, Held, Request
  <2>3. noticed' \subseteq 1..visit'
    BY <1>0, <1>3, <2>2 DEF CronNotice, TypeOK
  <2>4. sent' \in 0..2
    BY <1>0, <1>3 DEF CronNotice, TypeOK, Earlier
  <2> QED
    BY <1>0, <1>3, <2>1, <2>3, <2>4 DEF CronNotice, DayInv, TypeOK
<1> QED
  BY <1>1, <1>2, <1>3 DEF CronStep

\* A day that passes.
LEMMA DayTyped ==
  ASSUME DayInv, DayPasses
  PROVE  DayInv'
<1>1. /\ today' \in FirstDay..LastDay /\ today' > today
      /\ today \in Nat /\ today' \in Nat /\ due' \in Nat
  BY TimeAssumption DEF DayInv, TypeOK, DayPasses
<1>2. UNCHANGED <<row, setting, visit, noticed, sent, req>>
  BY DEF DayPasses
<1>3. ASSUME NEW r \in Requests
      PROVE  Held(req[r], today', visit)
  <2> PICK q : q = req[r]
    OBVIOUS
  <2>1. q \in Request /\ Held(q, today, visit)
    BY DEF DayInv, TypeOK
  <2>2. Held(q, today', visit)
    BY <1>1, <2>1 DEF Held, Request
  <2> QED
    BY <2>2
<1>4. TypeOK'
  BY <1>1, <1>2 DEF DayInv, TypeOK, row
<1>5. started' <= today' /\ pausedAt' <= today'
  BY <1>1, <1>2, TimeAssumption DEF DayInv, TypeOK, row
<1> QED
  BY <1>2, <1>3, <1>4, <1>5 DEF DayInv

\* The columns and the slots hold values of their domains, a deadline is a
\* day, and a pause ends after it began: whatever requests overlap.
LEMMA DayInvariant == Spec => []DayInv
<1>1. Init => DayInv
  <2> SUFFICES ASSUME Init
               PROVE  DayInv
    OBVIOUS
  <2>1. FirstDay \in Nat \ {0} /\ 1 \in Nat \ {0}
    BY TimeAssumption
  <2>2. AddBusinessDays(FirstDay, 1) \in Nat
    BY <2>1, BusinessDaysLater
  <2>3. setting \in [DEADLINE_STEPS -> Setting]
    BY BoundsAssumption DEF Init, Setting
  <2>4. Idle \in Request /\ Held(Idle, FirstDay, 1)
    BY TimeAssumption, BoundsAssumption DEF Idle, Request, Statuses, Held
  <2>5. TypeOK
    <3>1. signed \in BOOLEAN /\ notified \in BOOLEAN
      BY Zenon DEF Init
    <3>2. req \in [Requests -> Request] /\ noticed \subseteq 1..visit /\ status \in Statuses
      BY <2>4 DEF Init, Statuses
    <3>3. /\ started \in 0..LastDay /\ pausedAt \in 0..LastDay /\ today \in FirstDay..LastDay
          /\ visit \in 1..MaxVisits /\ sent \in 0..2 /\ pauseUntil \in Nat /\ pausedAt = 0
      BY TimeAssumption, BoundsAssumption DEF Init
    <3>4. deadline \in Nat /\ due \in Nat
      BY <2>2 DEF Init
    <3> QED
      BY <2>3, <3>1, <3>2, <3>3, <3>4 DEF TypeOK
  <2> QED
    BY <2>4, <2>5, TimeAssumption DEF Init, DayInv
<1>2. DayInv /\ [Next]_vars => DayInv'
  <2> SUFFICES ASSUME DayInv, [Next]_vars
               PROVE  DayInv'
    OBVIOUS
  <2>1. CASE UNCHANGED vars
    BY <2>1 DEF vars, row, book, DayInv, TypeOK
  <2>2. CASE Next
    BY <2>2, StartTyped, ContinueTyped, CronTyped, DayTyped DEF Next
  <2> QED
    BY <2>1, <2>2
<1> QED
  BY <1>1, <1>2, PTL DEF Spec

\* Type correctness, with the fact about pauses that TypeOK states: what
\* pausedAt and pauseUntil hold is a window, however handlers overlap.
THEOREM TypeCorrect == Spec => []TypeOK
<1>1. DayInv => TypeOK
  BY DEF DayInv
<1> QED
  BY <1>1, DayInvariant, PTL

-----------------------------------------------------------------------------
(* Pauses, with one request at a time.                                     *)

Alone == \A r, s \in Requests : r = s

\* What a request that pauses or resumes has read is still so, and the job
\* ends a pause only when its window has passed.
Reads(q) ==
    /\ q.pc = "pause" => pausedAt = 0
    /\ q.pc \in {"resume", "autoresume"} =>
           /\ pausedAt # 0
           /\ q.deadline = deadline /\ q.from = pausedAt /\ q.until = pauseUntil
    /\ q.pc = "autoresume" => q.until <= today

HoldInv == HoldGivenBack /\ \A r \in Requests : Reads(req[r])

\* The one request stores its slot.
LEMMA AloneStores ==
  ASSUME Alone, DayInv, NEW r \in Requests, NEW q, req' = [req EXCEPT ![r] = q]
  PROVE  \A s \in Requests : req'[s] = q
BY DEF Alone, DayInv, TypeOK

\* A request that starts has just read the case.
LEMMA StartHolds ==
  ASSUME Alone, DayInv, HoldInv, NEW r \in Requests, StartRequest(r) \/ CronStart(r)
  PROVE  HoldInv'
<1> USE DEF Begin, row, book
<1> DEFINE Goal == \E q : req' = [req EXCEPT ![r] = q] /\ Reads(q)
<1>1. UNCHANGED <<row, today, book>>
  BY DEF StartRequest, MoveRead, SignRead, PauseRead, ResumeRead, SettingSave, CronStart
<1>2. ASSUME NEW q, req' = [req EXCEPT ![r] = q], q.pc \notin {"pause", "resume", "autoresume"}
      PROVE  Goal
  BY <1>2 DEF Reads
<1>3. ASSUME NEW to \in Statuses, MoveRead(r, to)
      PROVE  Goal
  <2> DEFINE q == [Idle EXCEPT !.pc = "timer", !.to = to]
  <2>1. req' = [req EXCEPT ![r] = q] /\ q.pc = "timer"
    BY <1>3 DEF MoveRead, Idle
  <2> HIDE DEF q, Goal
  <2> QED
    BY <2>1, <1>2
<1>4. ASSUME SignRead(r)
      PROVE  Goal
  <2> DEFINE q == [Idle EXCEPT !.pc = "sign"]
  <2>1. req' = [req EXCEPT ![r] = q] /\ q.pc = "sign"
    BY <1>4 DEF SignRead, Idle
  <2> HIDE DEF q, Goal
  <2> QED
    BY <2>1, <1>2
<1>5. ASSUME PauseRead(r)
      PROVE  Goal
  <2> DEFINE q == [Idle EXCEPT !.pc = "pause"]
  <2>1. req' = [req EXCEPT ![r] = q] /\ q.pc = "pause" /\ pausedAt = 0
    BY <1>5 DEF PauseRead, Idle
  <2> HIDE DEF q
  <2>2. Reads(q)
    BY <2>1 DEF Reads
  <2> QED
    BY <2>1, <2>2
<1>6. ASSUME ResumeRead(r)
      PROVE  Goal
  <2> DEFINE q == [Idle EXCEPT !.pc = "resume", !.deadline = deadline,
                               !.from = pausedAt, !.until = pauseUntil]
  <2>1. req' = [req EXCEPT ![r] = q] /\ pausedAt # 0
    BY <1>6 DEF ResumeRead
  <2>2. q.pc = "resume" /\ q.deadline = deadline /\ q.from = pausedAt /\ q.until = pauseUntil
    BY DEF Idle
  <2> HIDE DEF q
  <2>3. Reads(q)
    BY <2>1, <2>2 DEF Reads
  <2> QED
    BY <2>1, <2>3
<1>7. ASSUME NEW step \in DEADLINE_STEPS, NEW enabled \in BOOLEAN, NEW days \in 1..MaxDays,
             SettingSave(r, step, enabled, days)
      PROVE  Goal
  <2> DEFINE p == IF enabled THEN "fill" ELSE "drop"
             q == [Idle EXCEPT !.pc = p, !.to = step, !.days = days]
  <2>1. p \in {"fill", "drop"} /\ req' = [req EXCEPT ![r] = q]
    BY <1>7 DEF SettingSave
  <2> HIDE DEF p
  <2>2. q.pc = p
    BY DEF Idle
  <2> HIDE DEF q, Goal
  <2> QED
    BY <2>1, <2>2, <1>2
<1>8. ASSUME CronStart(r)
      PROVE  Goal
  <2>1. CASE PauseElapsed
    <3> DEFINE q == [Idle EXCEPT !.pc = "autoresume", !.now = today, !.deadline = deadline,
                                 !.from = pausedAt, !.until = pauseUntil]
    <3>1. req' = [req EXCEPT ![r] = q] /\ pausedAt # 0 /\ pauseUntil <= today
      BY <1>8, <2>1 DEF CronStart, PauseElapsed
    <3>2. /\ q.pc = "autoresume" /\ q.deadline = deadline
          /\ q.from = pausedAt /\ q.until = pauseUntil
      BY DEF Idle
    <3> HIDE DEF q
    <3>3. Reads(q)
      BY <3>1, <3>2 DEF Reads
    <3> QED
      BY <3>1, <3>3
  <2>2. CASE ~PauseElapsed
    <3> DEFINE q == [Idle EXCEPT !.pc = "scan", !.now = today]
    <3>1. req' = [req EXCEPT ![r] = q] /\ q.pc = "scan"
      BY <1>8, <2>2 DEF CronStart, Idle
    <3> HIDE DEF q, Goal
    <3> QED
      BY <3>1, <1>2
  <2> QED
    BY <2>1, <2>2
<1>9. Goal
  <2> HIDE DEF Goal
  <2> QED
    BY <1>3, <1>4, <1>5, <1>6, <1>7, <1>8 DEF StartRequest
<1>10. PICK q : req' = [req EXCEPT ![r] = q] /\ Reads(q)
  BY <1>9
<1>11. \A s \in Requests : req'[s] = q
  BY <1>10, AloneStores
<1>12. HoldGivenBack'
  BY <1>1 DEF HoldInv, HoldGivenBack, Hold
<1>13. ASSUME NEW s \in Requests
       PROVE  Reads(req[s])'
  BY <1>1, <1>10, <1>11 DEF Reads
<1> QED
  BY <1>12, <1>13 DEF HoldInv

\* A request that goes on: a slot about to end a pause, or to begin one, is
\* stored by the first read alone.
LEMMA ContinueHolds ==
  ASSUME Alone, DayInv, HoldInv, NEW r \in Requests, ContinueRequest(r) \/ CronStep(r)
  PROVE  HoldInv'
<1> USE DEF At, row, book
<1>0. /\ HoldGivenBack /\ Reads(req[r]) /\ Held(req[r], today, visit) /\ req[r] \in Request
      /\ deadline \in Nat /\ today \in Nat /\ pausedAt \in Nat /\ pauseUntil \in Nat /\ due \in Nat
      /\ pausedAt <= today /\ (pausedAt # 0 => pausedAt < pauseUntil) /\ Hold \in Nat
      /\ MaxPause \in Nat /\ Hold' = IF pausedAt' = 0 THEN 0 ELSE Earlier(today', pauseUntil') - pausedAt'
  BY HoldIsDays, TimeAssumption, BoundsAssumption DEF HoldInv, DayInv, TypeOK, Hold
<1>1. ASSUME NEW q, req' = [req EXCEPT ![r] = q], q.pc \notin {"pause", "resume", "autoresume"}
      PROVE  \A s \in Requests : Reads(req[s])'
  <2>1. \A s \in Requests : req'[s] = q
    BY <1>1, AloneStores
  <2> QED
    BY <1>1, <2>1 DEF Reads
<1>2. ASSUME Finish(r)
      PROVE  \A s \in Requests : Reads(req[s])'
  BY <1>1, <1>2 DEF Finish, Idle
<1>3. CASE MoveTimer(r)
  <2> DEFINE d == StepTimerData(req[r].to)
             q == [req[r] EXCEPT !.pc = "enter", !.now = today, !.deadline = d]
  <2>1. req' = [req EXCEPT ![r] = q] /\ UNCHANGED <<row, today, book>>
    BY <1>3 DEF MoveTimer
  <2> HIDE DEF d
  <2>2. q.pc = "enter"
    BY <1>0 DEF Request
  <2> HIDE DEF q
  <2>3. \A s \in Requests : Reads(req[s])'
    BY <1>1, <2>1, <2>2
  <2>4. HoldGivenBack'
    BY <1>0, <2>1 DEF HoldGivenBack, Hold
  <2> QED
    BY <2>3, <2>4 DEF HoldInv
<1>4. CASE MoveSave(r)
  <2>1. deadline' = due' /\ pausedAt' = 0 /\ deadline' \in Nat
    BY <1>0, <1>4 DEF MoveSave, Held
  <2>2. HoldGivenBack'
    <3>1. Hold' = 0
      BY <2>1 DEF Hold
    <3>2. PICK d \in Nat : d = deadline' /\ d = due'
      BY <2>1
    <3>3. d = d + 0
      OBVIOUS
    <3>4. CASE d = 0
      BY <3>1, <3>2, <3>3, <3>4 DEF HoldGivenBack
    <3>5. CASE d # 0
      BY <3>1, <3>2, <3>3, <3>5 DEF HoldGivenBack
    <3> QED
      BY <3>4, <3>5
  <2>3. Finish(r)
    BY <1>4 DEF MoveSave
  <2> QED
    BY <1>2, <2>2, <2>3 DEF HoldInv
<1>5. CASE SignSave(r)
  BY <1>2, <1>5 DEF SignSave, HoldInv, HoldGivenBack
<1>6. ASSUME NEW window \in 1..MaxPause, PauseSave(r, window)
      PROVE  HoldInv'
  <2>1. AddBusinessDays(today, window) \in Nat /\ AddBusinessDays(today, window) > today
    BY <1>0, BusinessDaysLater
  <2>2. /\ pausedAt = 0 /\ pausedAt' = today /\ pauseUntil' = AddBusinessDays(today, window)
        /\ UNCHANGED <<deadline, due, today>>
    BY <1>0, <1>6 DEF PauseSave, Reads
  <2>3. Hold = 0 /\ Hold' = 0
    BY <1>0, <2>1, <2>2 DEF Hold, Earlier
  <2>4. HoldGivenBack'
    BY <1>0, <2>2, <2>3 DEF HoldGivenBack
  <2> QED
    BY <1>2, <1>6, <2>4 DEF PauseSave, HoldInv
<1>7. CASE ResumeSave(r)
  <2>1. deadline' = Shifted(deadline, Hold) /\ pausedAt' = 0 /\ due' = due
    BY <1>0, <1>7 DEF ResumeSave, Reads, Hold
  <2>2. HoldGivenBack'
    BY <1>0, <2>1 DEF HoldGivenBack, Shifted
  <2> QED
    BY <1>2, <1>7, <2>2 DEF ResumeSave, HoldInv
<1>8. CASE DropDeadlines(r)
  <2>1. \/ deadline' = 0 /\ due' = 0
        \/ UNCHANGED <<deadline, due>>
    BY <1>8 DEF DropDeadlines
  <2>2. UNCHANGED <<pausedAt, pauseUntil, today>>
    BY <1>8 DEF DropDeadlines
  <2>3. HoldGivenBack'
    BY <1>0, <2>1, <2>2 DEF HoldGivenBack, Hold
  <2> QED
    BY <1>2, <1>8, <2>3 DEF DropDeadlines, HoldInv
<1>9. CASE FillRead(r)
  <2>1. \A s \in Requests : Reads(req[s])'
    <3>1. CASE status = req[r].to /\ deadline = 0 /\ started # 0
      <4> DEFINE q == [req[r] EXCEPT !.pc = "filling", !.now = started]
      <4>1. req' = [req EXCEPT ![r] = q] /\ q.pc = "filling"
        BY <1>0, <1>9, <3>1 DEF FillRead, Request
      <4> HIDE DEF q
      <4> QED
        BY <1>1, <4>1
    <3>2. CASE ~(status = req[r].to /\ deadline = 0 /\ started # 0)
      BY <1>2, <1>9, <3>2 DEF FillRead, Finish
    <3> QED
      BY <3>1, <3>2
  <2>2. HoldGivenBack'
    BY <1>0, <1>9 DEF FillRead, HoldGivenBack, Hold
  <2> QED
    BY <2>1, <2>2 DEF HoldInv
<1>10. CASE FillSave(r)
  <2>1. req[r].now \in Nat /\ req[r].days \in Nat \ {0}
    BY <1>0, <1>10, BoundsAssumption DEF FillSave, Held, Request
  <2>2. deadline' \in Nat /\ deadline' > req[r].now
    BY <1>10, <2>1, BusinessDaysLater DEF FillSave
  <2>3. due' = deadline' + Hold /\ Hold' = Hold
    BY <1>0, <1>10 DEF FillSave, Hold
  <2>4. HoldGivenBack'
    BY <1>0, <2>1, <2>2, <2>3 DEF HoldGivenBack
  <2> QED
    BY <1>2, <1>10, <2>4 DEF FillSave, HoldInv
<1>11. CASE Abort(r)
  <2>1. HoldGivenBack'
    BY <1>0, <1>11 DEF Abort, HoldGivenBack, Hold
  <2> QED
    BY <1>2, <1>11, <2>1 DEF Abort, HoldInv
<1>12. CASE CronResume(r)
  <2> DEFINE q == [req[r] EXCEPT !.pc = "scan"]
  <2>1. req' = [req EXCEPT ![r] = q] /\ q.pc = "scan"
    BY <1>0, <1>12 DEF CronResume, Request
  <2> HIDE DEF q
  <2>2. \A s \in Requests : Reads(req[s])'
    BY <1>1, <2>1
  <2>3. Hold = pauseUntil - pausedAt
    BY <1>0, <1>12 DEF CronResume, Reads, Hold, Earlier
  <2>4. deadline' = Shifted(deadline, Hold) /\ pausedAt' = 0 /\ due' = due
    BY <1>0, <1>12, <2>3 DEF CronResume, Reads
  <2>5. HoldGivenBack'
    BY <1>0, <2>4 DEF HoldGivenBack, Shifted
  <2> QED
    BY <2>2, <2>5 DEF HoldInv
<1>13. CASE CronScan(r)
  <2>1. \A s \in Requests : Reads(req[s])'
    <3>1. CASE Overdue(req[r].now) /\ ~notified
      <4> DEFINE q == [req[r] EXCEPT !.pc = "notice", !.visit = visit]
      <4>1. req' = [req EXCEPT ![r] = q] /\ q.pc = "notice"
        BY <1>0, <1>13, <3>1 DEF CronScan, Request
      <4> HIDE DEF q
      <4> QED
        BY <1>1, <4>1
    <3>2. CASE ~(Overdue(req[r].now) /\ ~notified)
      BY <1>2, <1>13, <3>2 DEF CronScan, Finish
    <3> QED
      BY <3>1, <3>2
  <2>2. HoldGivenBack'
    BY <1>0, <1>13 DEF CronScan, HoldGivenBack, Hold
  <2> QED
    BY <2>1, <2>2 DEF HoldInv
<1>14. CASE CronNotice(r)
  <2>1. HoldGivenBack'
    BY <1>0, <1>14 DEF CronNotice, HoldGivenBack, Hold
  <2> QED
    BY <1>2, <1>14, <2>1 DEF CronNotice, HoldInv
<1> QED
  BY <1>3, <1>4, <1>5, <1>6, <1>7, <1>8, <1>9, <1>10, <1>11, <1>12, <1>13, <1>14
     DEF ContinueRequest, CronStep

\* A day of a pause's window is a day the step is due later.
LEMMA DayHolds ==
  ASSUME DayInv, HoldInv, DayPasses
  PROVE  HoldInv'
<1>1. /\ today' = today + 1 /\ UNCHANGED <<row, req>>
      /\ due' = IF due # 0 /\ pausedAt # 0 /\ today < pauseUntil THEN due + 1 ELSE due
  BY DEF DayPasses
<1>2. /\ deadline \in Nat /\ today \in Nat /\ pausedAt \in Nat /\ pauseUntil \in Nat /\ due \in Nat
      /\ pausedAt <= today /\ (pausedAt # 0 => pausedAt < pauseUntil)
  BY TimeAssumption DEF DayInv, TypeOK
<1>3. Hold' = IF pausedAt # 0 /\ today < pauseUntil THEN Hold + 1 ELSE Hold
  BY <1>1, <1>2 DEF row, Hold, Earlier
<1>4. Hold \in Nat
  BY HoldIsDays
<1>5. HoldGivenBack'
  BY <1>1, <1>2, <1>3, <1>4 DEF HoldInv, HoldGivenBack, row
<1>6. ASSUME NEW s \in Requests
      PROVE  Reads(req[s])'
  <2> PICK q : q = req[s]
    OBVIOUS
  <2>1. Reads(q) /\ q \in Request
    BY DEF HoldInv, DayInv, TypeOK
  <2>2. Reads(q)'
    BY <1>1, <1>2, <2>1 DEF Reads, Request, row
  <2> QED
    BY <1>1, <2>2
<1> QED
  BY <1>5, <1>6 DEF HoldInv

\* resume "shifts its deadline forward by the paused time (capped at the pause
\* window)" (credit-cases.service.ts:588), and so does the job: the days of a
\* pause come back, whoever ends it, as long as requests do not overlap.
THEOREM PausesGivenBack == Alone => (Spec => []HoldGivenBack)
<1>1. ASSUME Alone
      PROVE  Init => HoldInv
  <2> SUFFICES ASSUME Init
               PROVE  HoldInv
    OBVIOUS
  <2>1. HoldGivenBack
    <3>1. AddBusinessDays(FirstDay, 1) \in Nat /\ pausedAt = 0 /\ due = deadline
          /\ deadline = AddBusinessDays(FirstDay, 1)
      BY TimeAssumption, BusinessDaysLater DEF Init
    <3> QED
      BY <3>1 DEF HoldGivenBack, Hold
  <2>2. \A r \in Requests : Reads(req[r])
    BY DEF Init, Idle, Reads
  <2> QED
    BY <2>1, <2>2 DEF HoldInv
<1>2. ASSUME Alone
      PROVE  DayInv /\ HoldInv /\ [Next]_vars => HoldInv'
  <2> SUFFICES ASSUME DayInv, HoldInv, [Next]_vars
               PROVE  HoldInv'
    OBVIOUS
  <2>1. CASE UNCHANGED vars
    BY <2>1 DEF vars, row, book, HoldInv, HoldGivenBack, Hold, Reads
  <2>2. CASE Next
    BY <1>2, <2>2, StartHolds, ContinueHolds, DayHolds, Zenon DEF Next
  <2> QED
    BY <2>1, <2>2
<1>3. HoldInv => HoldGivenBack
  BY DEF HoldInv
<1> QED
  <2> SUFFICES ASSUME Alone
               PROVE  Spec => []HoldGivenBack
    OBVIOUS
  <2>1. Init => HoldInv
    BY <1>1
  <2>2. DayInv /\ HoldInv /\ [Next]_vars => HoldInv'
    BY <1>2
  <2> QED
    BY <2>1, <2>2, <1>3, DayInvariant, PTL DEF Spec
=============================================================================
