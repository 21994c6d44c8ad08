----------------------------- MODULE StepTimer -----------------------------
(***************************************************************************)
(* The timer of a workflow step on one credit case: its deadline in        *)
(* business days, the pause that suspends it, the admin's switch for each  *)
(* step, and the half-hourly job that ends pauses and reports what is      *)
(* overdue.  The handlers are those of CreditCasesService (transition,     *)
(* pause, resume), SigningService.commit, SettingsService.updateDeadlines  *)
(* and DeadlineService.checkOverdue.                                       *)
(*                                                                         *)
(* As in CaseLifecycle an action is one awaited statement or $transaction  *)
(* and a slot of `req' remembers what a handler has read.  The unit of     *)
(* time is a day; null dates are 0.  The legacy pauses without pauseUntil  *)
(* are left out: no handler writes one any more.                           *)
(***************************************************************************)
EXTENDS Integers

CONSTANTS
    Requests,   \* request slots, the bound on concurrency
    FirstDay,   \* the day the case enters MODERATION, day 0 being a Sunday
    LastDay,    \* bound: the last day
    MaxDays,    \* bound: the longest step deadline, in business days
    MaxPause,   \* AppConfig.maxPauseDays
    MaxVisits   \* bound: how many steps the case enters

ASSUME TimeAssumption   == /\ FirstDay \in Nat \ {0} /\ LastDay \in Nat
                           /\ FirstDay <= LastDay
ASSUME BoundsAssumption == /\ MaxDays \in Nat \ {0} /\ MaxPause \in Nat \ {0}
                           /\ MaxVisits \in Nat \ {0}

VARIABLES
    status,      \* CreditCase.status
    signed,      \* a CaseSignature row exists
    started,     \* stepStartedAt
    deadline,    \* stepDeadlineAt
    notified,    \* overdueNotified
    pausedAt,    \* pausedAt
    pauseUntil,  \* pauseUntil
    setting,     \* the StepSetting rows
    today,       \* the date
    visit,       \* counts the steps entered, so that each has a name
    noticed,     \* the visits that were reported overdue
    sent,        \* reports since overdueNotified was last cleared
    due,         \* when the step is due if every pause counts in full
    req          \* what each request in flight has read

row  == <<status, signed, started, deadline, notified, pausedAt, pauseUntil>>
book == <<visit, noticed, sent, due>>
vars == <<row, setting, today, book, req>>

-----------------------------------------------------------------------------
Statuses == {"DRAFT", "MODERATION", "DIRECTOR_REVIEW", "FINALIZED", "CANCELLED"}
DEADLINE_STEPS == {"MODERATION", "DIRECTOR_REVIEW"}
HasDeadline(s) == s \in DEADLINE_STEPS

\* The moves of `transition', whoever makes them (CaseLifecycle has the roles).
Edges == { <<"DRAFT", "MODERATION">>, <<"MODERATION", "DIRECTOR_REVIEW">>,
           <<"MODERATION", "DRAFT">>, <<"MODERATION", "CANCELLED">>,
           <<"DIRECTOR_REVIEW", "FINALIZED">>, <<"DIRECTOR_REVIEW", "MODERATION">>,
           <<"DIRECTOR_REVIEW", "CANCELLED">>, <<"DIRECTOR_REVIEW", "DRAFT">> }

IsWeekend(d) == d % 7 \in {0, 6}

NextWorkday(d) == CHOOSE u \in d + 1 .. d + 3 :
    ~IsWeekend(u) /\ \A v \in d + 1 .. u - 1 : IsWeekend(v)

AddBusinessDays(from, days) ==
    LET after[n \in 0..days] == IF n = 0 THEN from ELSE NextWorkday(after[n - 1])
    IN  after[days]

Setting == [enabled : BOOLEAN, days : 1..MaxDays]

Request == [ pc       : {"idle", "timer", "enter", "sign", "pause", "resume",
                         "drop", "fill", "filling",
                         "autoresume", "scan", "notice"},
             to       : Statuses,   \* the status, or the step, it is about
             days     : 0..MaxDays, \* the setting that updateDeadlines stores
             now      : Int,        \* the date when the handler asked for it
             deadline : Int,        \* stepDeadlineAt, as read or as computed
             from     : Int,        \* pausedAt as read
             until    : Int,        \* pauseUntil as read
             visit    : 0..MaxVisits ]

Idle == [pc |-> "idle", to |-> "DRAFT", days |-> 0, now |-> 0, deadline |-> 0,
         from |-> 0, until |-> 0, visit |-> 0]

Init ==
    /\ status     = "MODERATION"
    /\ signed     = FALSE
    /\ started    = FirstDay
    /\ deadline   = AddBusinessDays(FirstDay, 1)
    /\ notified   = FALSE
    /\ pausedAt   = 0
    /\ pauseUntil = 0
    /\ setting    = [s \in DEADLINE_STEPS |-> [enabled |-> TRUE, days |-> 1]]
    /\ today      = FirstDay
    /\ visit      = 1
    /\ noticed    = {}
    /\ sent       = 0
    /\ due        = deadline
    /\ req        = [r \in Requests |-> Idle]

Begin(r, q) == req[r].pc = "idle" /\ req' = [req EXCEPT ![r] = q]
At(r, pc)   == req[r].pc = pc
Finish(r)   == req' = [req EXCEPT ![r] = Idle]

\* overdueNotified := false: the next run of the job may report again.
Rearm == notified' = FALSE /\ sent' = 0

\* The part of the current pause that has passed and counts.
Earlier(a, b) == IF a < b THEN a ELSE b
Hold == IF pausedAt = 0 THEN 0 ELSE Earlier(today, pauseUntil) - pausedAt

-----------------------------------------------------------------------------
(* transition and commit: the case enters a step, or leaves the workflow.  *)

MoveRead(r, to) ==
    /\ <<status, to>> \in Edges
    /\ visit < MaxVisits
    /\ Begin(r, [Idle EXCEPT !.pc = "timer", !.to = to])
    /\ UNCHANGED <<row, setting, today, book>>

\* stepTimerData's stepDeadlineAt.
StepTimerData(to) ==
    IF HasDeadline(to) /\ setting[to].enabled
    THEN AddBusinessDays(today, setting[to].days)
    ELSE 0

MoveTimer(r) ==
    /\ At(r, "timer")
    /\ req' = [req EXCEPT ![r].pc = "enter", ![r].now = today,
                          ![r].deadline = StepTimerData(req[r].to)]
    /\ UNCHANGED <<row, setting, today, book>>

\* Slip: the flag of the step that is left stays.
MoveSaveStillNotified(r) ==
    /\ At(r, "enter")
    /\ visit < MaxVisits
    /\ status'   = req[r].to
    /\ started'  = req[r].now
    /\ deadline' = req[r].deadline
    /\ pausedAt' = 0
    /\ visit'    = visit + 1
    /\ due'      = req[r].deadline
    /\ Finish(r)
    /\ UNCHANGED <<signed, notified, sent, pauseUntil, setting, today, noticed>>

MoveSave(r) ==
    /\ At(r, "enter")
    /\ visit < MaxVisits
    /\ status'   = req[r].to
    /\ started'  = req[r].now
    /\ deadline' = req[r].deadline
    /\ pausedAt' = 0
    /\ Rearm
    /\ visit'    = visit + 1
    /\ due'      = req[r].deadline
    /\ Finish(r)
    /\ UNCHANGED <<signed, pauseUntil, setting, today, noticed>>

SignRead(r) ==
    /\ status = "DIRECTOR_REVIEW"
    /\ ~signed
    /\ visit < MaxVisits
    /\ Begin(r, [Idle EXCEPT !.pc = "sign"])
    /\ UNCHANGED <<row, setting, today, book>>

\* The transaction of commit; the pause and the flag are left as they are.
SignSave(r) ==
    /\ At(r, "sign")
    /\ ~signed
    /\ visit < MaxVisits
    /\ status'   = "FINALIZED"
    /\ signed'   = TRUE
    /\ started'  = 0
    /\ deadline' = 0
    /\ visit'    = visit + 1
    /\ due'      = 0
    /\ Finish(r)
    /\ UNCHANGED <<notified, pausedAt, pauseUntil, setting, today, noticed, sent>>

-----------------------------------------------------------------------------
(* pause and resume.                                                       *)

PauseRead(r) ==
    /\ HasDeadline(status)
    /\ pausedAt = 0
    /\ Begin(r, [Idle EXCEPT !.pc = "pause"])
    /\ UNCHANGED <<row, setting, today, book>>

\* A second pause that read the case before the first one was stored starts
\* the pause anew: what had passed of the first is not given back.
PauseSave(r, window) ==
    /\ At(r, "pause")
    /\ pausedAt'   = today
    /\ pauseUntil' = AddBusinessDays(today, window)
    /\ Finish(r)
    /\ UNCHANGED <<status, signed, started, deadline, notified, setting, today, book>>

ResumeRead(r) ==
    /\ pausedAt # 0
    /\ Begin(r, [Idle EXCEPT !.pc = "resume", !.deadline = deadline,
                             !.from = pausedAt, !.until = pauseUntil])
    /\ UNCHANGED <<row, setting, today, book>>

Shifted(d, ext) == IF d = 0 THEN 0 ELSE d + ext

\* Slip: the shift is not capped by the pause window.
ResumeSaveUncapped(r) ==
    /\ At(r, "resume")
    /\ deadline'   = Shifted(req[r].deadline, today - req[r].from)
    /\ pausedAt'   = 0
    /\ pauseUntil' = 0
    /\ Rearm
    /\ Finish(r)
    /\ UNCHANGED <<status, signed, started, setting, today, visit, noticed, due>>

ResumeSave(r) ==
    /\ At(r, "resume")
    /\ deadline'   = Shifted(req[r].deadline,
                             Earlier(today, req[r].until) - req[r].from)
    /\ pausedAt'   = 0
    /\ pauseUntil' = 0
    /\ Rearm
    /\ Finish(r)
    /\ UNCHANGED <<status, signed, started, setting, today, visit, noticed, due>>

-----------------------------------------------------------------------------
(* updateDeadlines, one step: store the setting, then bring the case in    *)
(* the step in line with it.                                               *)

SettingSave(r, step, enabled, days) ==
    /\ Begin(r, [Idle EXCEPT !.pc = IF enabled THEN "fill" ELSE "drop",
                             !.to = step, !.days = days])
    /\ setting' = [setting EXCEPT ![step] = [enabled |-> enabled, days |-> days]]
    /\ UNCHANGED <<row, today, book>>

DropDeadlines(r) ==
    /\ At(r, "drop")
    /\ \/ /\ status = req[r].to /\ deadline # 0
          /\ deadline' = 0
          /\ due'      = 0
          /\ Rearm
       \/ /\ ~(status = req[r].to /\ deadline # 0)
          /\ UNCHANGED <<deadline, due, notified, sent>>
    /\ Finish(r)
    /\ UNCHANGED <<status, signed, started, pausedAt, pauseUntil, setting, today,
                   visit, noticed>>

\* Slip: every case without a deadline is filled, whatever its status.
FillReadAnyStatus(r) ==
    /\ At(r, "fill")
    /\ req' = [req EXCEPT ![r] =
           IF deadline = 0 /\ started # 0
           THEN [@ EXCEPT !.pc = "filling", !.now = started]
           ELSE Idle]
    /\ UNCHANGED <<row, setting, today, book>>

FillRead(r) ==
    /\ At(r, "fill")
    /\ req' = [req EXCEPT ![r] =
           IF status = req[r].to /\ deadline = 0 /\ started # 0
           THEN [@ EXCEPT !.pc = "filling", !.now = started]
           ELSE Idle]
    /\ UNCHANGED <<row, setting, today, book>>

\* A pause under way counts from its beginning, towards the filled deadline.
FillSave(r) ==
    /\ At(r, "filling")
    /\ deadline' = AddBusinessDays(req[r].now, req[r].days)
    /\ due'      = deadline' + Hold
    /\ Rearm
    /\ Finish(r)
    /\ UNCHANGED <<status, signed, started, pausedAt, pauseUntil, setting, today,
                   visit, noticed>>

-----------------------------------------------------------------------------
(* checkOverdue.  One run at a time: there is one server process and a run *)
(* is over long before the next half hour.  `now' is read once, at first.  *)

Cron == {"autoresume", "scan", "notice"}

PauseElapsed == pausedAt # 0 /\ pauseUntil <= today

CronStart(r) ==
    /\ \A s \in Requests : req[s].pc \notin Cron
    /\ Begin(r, IF PauseElapsed
                THEN [Idle EXCEPT !.pc = "autoresume", !.now = today,
                        !.deadline = deadline, !.from = pausedAt, !.until = pauseUntil]
                ELSE [Idle EXCEPT !.pc = "scan", !.now = today])
    /\ UNCHANGED <<row, setting, today, book>>

CronResume(r) ==
    /\ At(r, "autoresume")
    /\ deadline'   = Shifted(req[r].deadline, req[r].until - req[r].from)
    /\ pausedAt'   = 0
    /\ pauseUntil' = 0
    /\ Rearm
    /\ req' = [req EXCEPT ![r].pc = "scan"]
    /\ UNCHANGED <<status, signed, started, setting, today, visit, noticed, due>>

Overdue(now) == /\ HasDeadline(status) /\ pausedAt = 0
                /\ deadline # 0 /\ deadline < now

CronScan(r) ==
    /\ At(r, "scan")
    /\ req' = [req EXCEPT ![r] =
           IF Overdue(req[r].now) /\ ~notified
           THEN [@ EXCEPT !.pc = "notice", !.visit = visit]
           ELSE Idle]
    /\ UNCHANGED <<row, setting, today, book>>

\* Slip: the messages go out and the flag is not stored.
CronNoticeUnflagged(r) ==
    /\ At(r, "notice")
    /\ noticed' = noticed \cup {req[r].visit}
    /\ sent'    = Earlier(sent + 1, 2)
    /\ Finish(r)
    /\ UNCHANGED <<row, setting, today, visit, due>>

\* One transaction: the messages to the step's role and to the director, and
\* the flag, whatever the case has become since the scan.
CronNotice(r) ==
    /\ At(r, "notice")
    /\ notified' = TRUE
    /\ noticed'  = noticed \cup {req[r].visit}
    /\ sent'     = Earlier(sent + 1, 2)
    /\ Finish(r)
    /\ UNCHANGED <<status, signed, started, deadline, pausedAt, pauseUntil,
                   setting, today, visit, due>>

-----------------------------------------------------------------------------
\* A statement throws or the process restarts: the slot is lost.
Abort(r) ==
    /\ ~At(r, "idle")
    /\ Finish(r)
    /\ UNCHANGED <<row, setting, today, book>>

DayPasses ==
    /\ today < LastDay
    /\ today' = today + 1
    /\ due' = IF due # 0 /\ pausedAt # 0 /\ today < pauseUntil THEN due + 1 ELSE due
    /\ UNCHANGED <<row, setting, visit, noticed, sent, req>>

StartRequest(r) ==
    \/ \E to \in Statuses : MoveRead(r, to)
    \/ SignRead(r)
    \/ PauseRead(r)
    \/ ResumeRead(r)
    \/ \E step \in DEADLINE_STEPS, enabled \in BOOLEAN, days \in 1..MaxDays :
           SettingSave(r, step, enabled, days)

ContinueRequest(r) ==
    \/ MoveTimer(r) \/ MoveSave(r) \/ SignSave(r)
    \/ \E window \in 1..MaxPause : PauseSave(r, window)
    \/ ResumeSave(r)
    \/ DropDeadlines(r) \/ FillRead(r) \/ FillSave(r)
    \/ Abort(r)

CronStep(r) == CronResume(r) \/ CronScan(r) \/ CronNotice(r)

Next == \/ \E r \in Requests : \/ StartRequest(r) \/ ContinueRequest(r)
                               \/ CronStart(r) \/ CronStep(r)
        \/ DayPasses

Spec == Init /\ [][Next]_vars

\* A request that was begun ends, if only by being lost.  The scheduler fires
\* again and again whatever the requests do, and its runs are not all cut off
\* at the same statement.
Fairness ==
    /\ \A r \in Requests : WF_vars(ContinueRequest(r))
    /\ SF_vars(\E r \in Requests : CronStart(r))
    /\ SF_vars(\E r \in Requests : CronResume(r))
    /\ SF_vars(\E r \in Requests : CronScan(r))
    /\ SF_vars(\E r \in Requests : CronNotice(r))

FairSpec == Spec /\ Fairness

-----------------------------------------------------------------------------
(* Properties.                                                             *)

\* Every column and slot holds a value of its domain, and a pause always has
\* a window that ends after it began.
TypeOK ==
    /\ status     \in Statuses
    /\ signed     \in BOOLEAN
    /\ started    \in 0..LastDay
    /\ deadline   \in Nat
    /\ notified   \in BOOLEAN
    /\ pausedAt   \in 0..LastDay
    /\ pauseUntil \in Nat
    /\ setting    \in [DEADLINE_STEPS -> Setting]
    /\ today      \in FirstDay..LastDay
    /\ visit      \in 1..MaxVisits
    /\ noticed    \subseteq 1..visit
    /\ sent       \in 0..2
    /\ due        \in Nat
    /\ req        \in [Requests -> Request]
    /\ pausedAt # 0 => pausedAt < pauseUntil

\* A pause gives back exactly the days it lasted, and at most its window,
\* whether it ends by resume or by the job and however late either runs.
HoldGivenBack ==
    /\ (deadline = 0) = (due = 0)
    /\ deadline # 0 => due = deadline + Hold

\* "notifies ... ONCE (overdueNotified guards against repeats)"
\* (deadlines.module.ts:15): no second report unless a handler cleared the
\* flag since, also when the job was cut off or ran into other requests.
NoticedOnce == sent <= 1

\* The requests that may still store a deadline on the case.
TimerWriters == {r \in Requests :
    \/ req[r].pc = "filling"
    \/ req[r].pc \in {"resume", "autoresume"} /\ req[r].deadline # 0}

\* Once a case is out of the timed steps without a deadline, it gets one only
\* with its next step or from a request that read it before: none joins those.
IdleTimerSettles ==
    [][~HasDeadline(status) /\ deadline = 0 =>
          /\ TimerWriters' \subseteq TimerWriters
          /\ TimerWriters = {} => deadline' = 0 \/ HasDeadline(status')]_vars

\* "When a case in an active step passes its deadline, it notifies the step's
\* assignee + the director" (deadlines.module.ts:14): each step that stays
\* overdue is reported.
OverdueIsReported ==
    \A v \in 1..MaxVisits :
        (visit = v /\ Overdue(today)) ~> (v \in noticed \/ visit # v \/ ~Overdue(today))
=============================================================================
