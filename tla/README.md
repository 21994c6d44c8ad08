# A verification development for fininvest

This directory holds TLA+ specifications of the back end of fininvest (the
NestJS service under `src/apps/backend`, with the workflow, calendar and money
rules it takes from `src/packages/shared`), of the wizard of its web client
(`src/packages/ui`) and of the collector's phone (`src/apps/mobile`), the TLC configurations that check
them, and TLAPS proofs of theorems about them.

## 1. The system

Staff of a micro-finance company keep *credit cases*. An operator writes a
draft, submits it, a moderator and then the director approve it, and the
director signs its documents with a hardware key. Meanwhile a timer runs on
each step, and a loan that goes bad gets *debt collections* with field visits.
One NestJS process serves React and Flutter clients over a MySQL database
through Prisma. There are no locks and no versions: **a handler is a sequence
of awaited statements, each atomic by itself (some are a `$transaction`), and
any other handler may run between two of them**. Most guards read the database,
await something, and write later. This is the behaviour that is hard here, and
what the modules are built around. The rest of what is hard: handlers that are
cut off between two statements, retries by clients whose answer was lost, a
half-hourly job that runs beside the handlers, and denormalised columns.

### Components

Paths are under `src/apps/backend/src` unless they start with `packages` or `apps`.

| component | where | state | operations | what makes it correct | model |
|---|---|---|---|---|---|
| Case lifecycle and numbering | `credit-cases/credit-cases.service.ts`, `contract-counter.ts`, `workflow.service.ts`, `packages/shared/src/workflow.ts` | `CreditCase` (status, deletedAt, number, contract number, content), `ContractCounter` | createCase, createReMfl, applyUpdate, deleteCase, restoreCase, transition | unique numbers, given at submit and kept; only the edges of the workflow; drafts alone are edited and archived; a repeat shares the number of its source | `CaseLifecycle` |
| Signing | `signing/*` | challenges, signatures, frozen PDF files | prepare, commit, fail | what is filed is one attempt of the director it was issued to; served files are the signed ones | `Signing` |
| Step timers | `deadlines/`, `settings/`, pause and resume in `credit-cases` | stepDeadlineAt, pausedAt, pauseUntil, overdueNotified, `StepSetting` | stepTimerData, pause, resume, updateDeadlines, checkOverdue (cron) | pauses are given back exactly; each overdue step is reported, once | `StepTimer` |
| Debt collections | `collections/collections.service.ts` | `Collection`, months, visits | create, update, remove, createVisit | one open collection per case; totals and collected money agree with their rows | `Collections` |
| Collection reminders | `collections/collection-deadline.service.ts` | assignedAt, dueDays and the two flags of a collection | check (cron), the assignment in update | one reminder of each kind per deadline, to whom it concerns | `CollectionReminders` |
| Rate, split, scoring | `credit-cases.service.ts`, `rate.util.ts`, `packages/shared/src/scoring.ts` | rate, payment, affordability, amount, score | applyUpdate, setRate, setSplit, persistScoring; scoreCase | the derived columns belong to one rate; missing data gives no points | `CaseRate`, `Scoring` |
| Submit gate | `packages/shared/src/origination.ts` | none | caseSubmitErrors | what the wizard calls complete passes, and nothing else | `SubmitGate` |
| Loan arithmetic | `packages/shared/src/loan.ts`, `loan-product.ts`, `schedule/` | `PaymentSchedule` | forCase | a final case has one schedule, that of its terms | `PaymentSchedule` (when, not what) |
| Messages | `messages/` | `Message` with `readBy` (comma list) | send, list, edit, remove | receipts are true; what has been shown is not changed | `Messages` |
| Documents and storage | `documents/` | `Document` rows, files | upload, replace, remove | a row has its file and a file its row | `Documents` |
| Users and branches | `users/`, `branches/`, `collectors/` | `User` | create, update, block | somebody can administer the system | `Staff` |
| Authentication | `auth/` | none | JWT check, login | a blocked account is turned away | guards in `Staff`, `Shifts` |
| Work shifts | `work/` | `WorkSession` | start, end, ping | one open shift per collector | `Shifts` |
| Web clients | `apps/web-*`, `packages/ui` | forms, the case id | the origination wizard; signing dialog; views | one draft per application; a saved step is saved | `OriginationForm`, `SubmitGate`, else as requests |
| Settings | `settings/` | `AppConfig`, `StepSetting` | updateDeadlines, update | | deadlines in `StepTimer` |
| Document output | `output/` | none | getPdf, Excel | a signed case serves its frozen file | `Signing!Served`, `PaymentSchedule!scheduleForCase` |
| Notifications and push | `notifications/` | `Notification` | notify | best effort, failures swallowed | no |
| Passport and KATM recognition | `passport/`, `katm/`, `import/` | none | parse | | no |
| Audit and statistics | `audit/`, `stats/` | logs | append, aggregate | | no |
| Mobile client | `apps/mobile` | session shown, forms, face pages | the shift button, the visit form; views | the face is checked first; the phone shows what the server has | `FieldPhone` |

How they interact: all of them share the `CreditCase` row. `transition` and
`commit` both move the status; `transition` also writes the timer columns and
draws the contract number from the counter; the deadline job and
`updateDeadlines` write the timer columns of cases that handlers are moving;
`saveDisbursement` writes what `prepare` renders; `fail` and `prepare` touch the
files that `getPdf` serves. `applyUpdate`, `setRate` and `setSplit` write the
credit line and what is derived from it; `applyUpdate` recreates the line, and
with it drops the payment schedule, and recreates the collaterals that documents
refer to. Collections only read the case; the reminder job and `update` write
the same columns of a collection. Chat, accounts and shifts stand alone. The
wizard keeps a case id and a form of its own between calls; the other clients
add retries and concurrency. The hazards that follow, each at its
line, are in `PROJECT.json`.

## 2. How the modules correspond to the code

Conventions in every module:

* a variable is a column (a function from rows) or a table; `req` has a slot for
  each request in flight, and the slot holds what the handler has read;
* an action is one awaited statement or one `$transaction`, with the checks the
  handler makes before the next await. The first action of a handler is guarded
  by `Begin`, which takes an idle slot, and the last one calls `Finish`;
* `Abort` frees a slot in any place: a refusal, a thrown error, a lost process.
  What the statements before it stored stays stored;
* roles and ownership are guards of the action in which the code checks them;
* an operator commented "Slip" is a plausible slip of the operator below it; it
  is not part of the specification. Properties are tried against them;
* a bound has a name (`LastYear`, `MaxAttempts`, `MaxEdits`, `LastDay`,
  `MaxDays`, `MaxVisits`, `MaxAmount`, `MaxCollected`, `MaxDay`, `MaxSaves`,
  `MaxPledges`, `Typed`);
* a ghost variable is history for the properties: no action of the code reads it.

**CaseLifecycle.** `CreateRead` computes the number by counting rows
(`nextNumber`), `CreateWrite` inserts, `CreateClash` is the unique-index error.
`EditRead`/`EditWrite`, `ArchiveRead`/`RestoreRead`/`ArchiveWrite` are the two
halves of their handlers. `transition` is `TransitionRead` (row, source, rule),
`GatePass` or `GateRefuse` (which read the content again), `IssueContract` (the
transaction of `nextCounter`), `Advance` (the status). The rules are the
table `TRANSITIONS`. `YearEnds` lets the calendar move between two statements.
The content of an application is the bit `complete`; timer columns, `WorkflowEvent`
and the audit log are not in this module.

**CaseWorkflow** is the abstract specification: atomic Open, Edit, Archive,
Restore, Number and Move on the same columns, with what each promises.

**Signing** is about one case. A call of `prepare` is an *attempt*; the bytes of
a file are named by the attempt that rendered it, since two renders are never
the same bytes. `prepare` is `PrepareLoad`, `Render` for each document,
`ClearChallenges`, `IssueChallenge`, and on an error `RenderFails`,
`UndoRender`. `commit` is `CommitLoad`, `LookupChallenge` (or `LapseChallenge`),
`ReadFile` for each document, `Recheck` of the digest, `Commit`. `fail` is
`FailDrop`, `FailLook`, `FailRemove`. `EditLoad`/`EditSave` are
`saveDisbursement`, `MoveLoad`/`MoveSave` the `transition` of CaseLifecycle with
its numbering left out. Parsing the PKCS#7 is external: a refusal changes
nothing, which `Abort` covers. The manifest's header is taken as fixed, a file
is written in one step, and a directory is removed in one step.

**StepTimer** is about one case and counts in days; weekends are real
(`IsWeekend`, `AddBusinessDays`). `MoveRead`, `MoveTimer`, `MoveSave` are
`transition`; `SignRead`, `SignSave` are `commit`; `SettingSave` followed by
`DropDeadlines`, or by `FillRead` and `FillSave`, is `updateDeadlines`;
`CronStart`, `CronResume`, `CronScan`, `CronNotice` are `checkOverdue`. `visit`,
`noticed`, `sent` and `due` are history: which step a report was about, how
many reports there were since the flag was cleared, and when the step would be
due if every pause counted in full. Pauses without `pauseUntil`, which only old
rows have, are left out.

**Collections** is the collections of one case. An update computes its patch
from the row it read and writes the columns of the patch only (`MoneyPatch`,
`StatusPatch`, `Patched`), as Prisma does. `penalty` stands for penya and shtraf.
The visits of a row are their sum. `overlapped` is history: the rows on which
two requests were in flight at a time.

**CollectionReminders** is the deadline of one collection in days. `JobRead`,
`JobFire` (or `JobFireFails`: the notice's failure is swallowed) and `JobFlag`
are one turn of the loop of `check`; `UpdateRead` and `UpdateWrite` the part of
`update` that assigns a collector, sets the days and re-arms the flags (`Rearms`).
`told` is history: what was sent about the deadline in force.

**CaseRate** is the credit line of one case with its tranche, the affordability
row, the case-level amount and the score. A payment is named by the principal
and rate it was computed from, a score by income and payment, so that "computed
from other values" can be told. `SaveRead`, `SaveRate`, `SaveWrite` are
`applyUpdate` (with or without a credit line, with or without affordability);
`RateLoad`, `RateWrite`, `RateTranche`, `RatePayment`, `RateAfford` are `setRate`;
`SplitLoad`, `SplitWrite`, `SplitAmount` are `setSplit`; `ScoreRead`,
`ScoreStore`, `ScoreFails` are `persistScoring`. `unsettled` is history: what an
overlap, a cut or a partial save may have left apart; a request that runs whole
and alone settles what it writes.

**Scoring** is `scoreCase` as the set of sums that its twenty factors can come
to (`Points`, `Totals`), with the inputs that several factors read kept and every
other answer left open; `verdictFor` is `verdictFor`.

**SubmitGate** holds the wizard's `errors` (`WizardErrors`), the server's
`caseSubmitErrors` (`GateAccepts`), the edits of the pages (`SetField`, `SetCol`,
`SetSeller`, `SetDownPayment`, `SetLine`, `SetTranche`), and what happens to the
form between the two: `Finish` stores it, `Reload` makes a form of the row.

**OriginationForm** is the wizard with its calls. A handler (`NextStep`, `GoTo`,
`Finish`, `Scan`, `Media`) keeps the case id and the form of the render it was
clicked in, as a React closure does; each of its calls has an effect
(`CallEnsure`, `CallSection`, `CallAll`, `CallUpload`) and an answer (`Answer`,
or `Fail` when the call or its answer is lost). `Load` is the loader that
replaces the form after a section save, `Reopen` a draft opened from the list.

**PaymentSchedule** is `ScheduleService.forCase`: `Read` answers and, on a final
case without a schedule, begins to store one; `Store` inserts it or gives up.
Beside it run `setRate`, `applyUpdate`, `transition` and `commit`. A schedule is
named by the rate and the draw it was computed from.

**Documents** has the rows, the files on disk and the id of the case's one
collateral. `upload` is `UploadSave`, `UploadRow`; `replace` is `ReplaceRead`,
`ReplaceSave`, `ReplaceUnlink`, `ReplaceRow`; `remove` is `RemoveRead`,
`RemoveRow`, `RemoveFile`; `ChatRemove` is the `remove` of a message with
attachments, `SaveCollaterals` the part of `applyUpdate` that recreates the
collateral. `lost` and `untidy` are history.

**Messages** is the chat of one case. `ListRead` reads every message,
`ListMark` writes one readBy list as it was read, plus the viewer, `ListAnswer`
answers; `EditRead`/`EditWrite` and `RemoveRead`/`RemoveWrite` are behind
`OwnUnread`. The text is the number of its writings. `shown` is history: who was
answered which text.

**Staff** is the `User` table. `UpdateRead`, `UpdateCount` (the lockout guard),
`UpdateWrite` are PUT users; `CollectorRead` begins PATCH and DELETE collectors;
`Seed` is the seed script, which every deployment runs. **Shifts** is the
`WorkSession` table with `start`, `end` and `ping`, each a look and a write.

**FieldPhone** is the phone of one collector. `TapShift` is the button of the
work banner (`_onToggle`), `TapSubmit` that of a visit form (`_submit`), on the
frame that `Render` drew last. Both go through `OpenFace`, then `FacePass` or
`FaceRefuse`; `toggle` goes on with `Locate`, which chooses between start and
end by the session of that moment, and its call is `Served` and answered
(`ToggleAnswer`, `VisitAnswer`). `GiveUp` is the error path of both; a call that
timed out may still come to the server (`Arrive`). `Restart` closes the app.
`faces` is the part of the Navigator's stack above the form, since a page is
closed by popping the stack, whichever page is on top. The server does a call
in one step here, unlike in Shifts and Collections. `saved` and `doubt`, and
`face` and `quick` of a handler, are history.

**Office** composes Collections, which it extends, and ten instances, from
CollectionReminders to FieldPhone, under constants of its own. They share no
state, so nothing is gained by interleaving them: a behaviour picks one component
(`part`) and the others have no state at all in it. The properties of the ten are
stated here, each where its component runs; `MCOffice` gives the constants to
TLC, and one run checks what eleven runs would.

## 3. The runs

| run | instance | what it shows |
|---|---|---|
| `lifecycle_races` | 2 cases, 2 requests, an operator and a director, 1 year | the contract numbers, the family numbers and the application numbers under every interleaving, cut off anywhere; what stale requests may still do to a numbered, closed or started case |
| `lifecycle_serial` | 2 cases, 1 request, 2 years, also an admin | `ImplementsWorkflow`: handlers that do not overlap implement `CaseWorkflow`, cut off or not |
| `signing_races` | 2 directors, 2 requests, 2 documents, 2 attempts, 1 edit | the filed signature is one attempt, of its author, once; the served files are the signed ones and one challenge is live unless requests overlapped; late commits and late disturbances come only from requests in flight |
| `signing_issued` | 1 director, 2 requests | **violated**: a prepare that overlaps the commit changes the issued files |
| `signing_requisites` | 1 director, 1 request | **violated**: requisites edited between prepare and commit differ from the signed ones |
| `timer_serial` | 1 request, days 4 to 9 (Thursday to Tuesday), deadlines of up to 2 days, pauses of 1, 2 steps | pauses are given back exactly, and (liveness) every step that stays overdue is reported |
| `timer_races` | 2 requests, days 4 to 6, 3 steps | no repeated report; a stale deadline only from a request in flight |
| `rate_races` | 2 requests, totals 1, 2, 10, a tranche of 1, rates 1, 2 | payment, affordability, amount and score follow rate and line again after a whole request; a decided rate is undone only by a save that had read the old one |
| `office` | see below | the properties of ten components, under every interleaving of two requests |
| `collection_reopen` | 2 collections, 1 request | **violated**: reopening a collection beside a newer one |
| `documents_orphaned` | 2 documents, 1 request, 2 saves | **violated**: a later step's save takes a document from its collateral |
| `submit_gate` | 2 edits, 2 pledges | **violated**: the wizard's and the gate's idea of "complete" differ |

The parts of `office`, with 2 requests each unless said otherwise:

| part | instance | properties |
|---|---|---|
| one collection | amounts 0 and 1, 2 collected | `CollectedIsSumOfVisits`: no visit's money is lost in any overlap; `TotalIsSum`, where nothing overlapped |
| two collections | no money | `ClosedSettles`, `OpenSettles`: what may happen to a closed collection, and how a second open one arises |
| reminders | 2 collectors, 1 or 2 days, days 0 to 3, one update beside the job | `FlagsTellTruth`: between runs the flags say what the collector in charge has been told |
| chat | 3 users, 1 message, 1 edit | `ReceiptsAreTrue`; `ShownSettles`: what was shown is not changed |
| papers | 2 documents, 3 files, 1 save | `FilesMatchRows`: both ways, and what a cut may leave |
| people | 2 accounts | `AdminRemains` |
| work | 2 collectors, 2 sessions | `OneShift` |
| wizard | 3 steps, 2 drafts, 2 handlers | `DraftOnlyWhenUnknown`: an answered id reaches every later handler |
| score | ages none, 17, 40, 69, incomes 0, 2, 4, sums 0, 1 | `IncomeDecides`: without income or payments the verdict is BELOW_MIN |
| gate | 3 edits, 2 pledges | `GateAgrees`: the two lists differ only in the two ways of section 4 |
| plan | rates 1 and 2 | `RowsAsAgreed`: all readers of a final case are answered one schedule |
| phone | 2 handlers, 1 form, 2 visits stored at most | `FaceBefore`, `PhoneTellsTruth`: no shift or visit without the face, and the screen agrees with the server, but for second taps and calls given up on |

### Why the bounds are enough to be interesting

Every race listed as a hazard is between two handlers, so two slots produce it;
a third request would only repeat the roles (the theorems of section 5 hold for
any number). Two cases are needed for a shared number and for a family of a
source and its repeat. Two documents are enough for a mixed set of files, two
attempts for one to supersede another.
The timer starts on a Thursday: one business day ends on Friday, two end after
the weekend, and pauses and reports fall before, on and after it; a pause of one
day begun on a Friday is long enough to end early, on time or late. The races
of the case lifecycle run with an operator, who submits, and a director, who
cancels and reopens: every kind of stale write is there, and the moves of a
moderator are the same code with another rule (the serial run has them). Two
rows of collections are enough for "more than one". The serial runs use one
slot since their question is what holds without overlap; they still abort
anywhere.

In `rate_races` 10 is ten times the tranche, which the zero check refuses, and 2
is not. Of the reminders' days, 3 is past every deadline set on day 0 and before
one set on day 2. Three users are a sender and two readers whose receipts meet.
Three files are two documents and a replacement. Two accounts are two admins who
block each other. Three steps of the wizard are its first, a middle one that two
kinds of handlers save, and its last; two drafts are one too many. The ages lie
on both sides of the limits of factor and verdict, the incomes make each ratio
true and false. Three edits reach every kind of application from the two typed in
full, and each field that the two lists of the gate treat differently can be
wrong by itself and together with two others.

Two handlers of the phone are a tap and the second one; one form and two stored
visits are one too many.

Requests, cases, directors and collections are symmetric model values; the runs
with symmetry have only invariants and action properties; `MCOffice` permutes
only the requests. `timer_serial` has a
liveness property and no symmetry. No run switches the deadlock check off: an
idle slot can nearly always begin something, and aborts keep slots from sticking.

### Fairness

`StepTimer!FairSpec` is the only fair specification.

* A begun request ends: weak fairness of `ContinueRequest(r)`, which includes
  `Abort(r)`. Every await of the code returns or throws, and a restart empties
  all slots. No particular outcome is assumed.
* The scheduler (`@Cron` every half hour) fires again and again: strong fairness
  of `CronStart` since a slot may be taken each time it fires. The steps of its
  run are strongly fair: a run may be cut off, but not every run at the same
  statement.
* Nothing is assumed of users, of settings or of the calendar (`DayPasses`).

### Where the properties stop

Where handlers overlap, much of this code is last writer wins, and nothing in
it says otherwise. A property that holds only without overlap is stated in one
of three ways.

* Checked with one request at a time: `HoldGivenBack`, since two pauses that both
  read `pausedAt = null` restart the window, `OverdueIsReported`, since a job
  that scanned a step sets `overdueNotified` on whatever step the case is in by
  then, and `ImplementsWorkflow`.
* With a ghost that remembers the overlap: `IssuedUnlessOverlapped`,
  `OneLiveUnlessOverlapped`, `TotalIsSum`, `ReceiptsAreTrue`, `FilesMatchRows`,
  `FlagsTellTruth`, `AdminRemains`, `OneShift`, `RowsAsAgreed`, `FaceBefore`,
  `PhoneTellsTruth` and the properties of `CaseRate`. The ghosts are as narrow as the code allows: they name the row,
  the derived column or the reason, a later whole request clears what it
  repairs, and most cuts are not an excuse.
* As what confines stale writes: `NumberSettles`, `ClosedSettles`,
  `StartedSettles`, `ExpiredAttemptsSettle`, `SignedCaseSettles`,
  `IdleTimerSettles`, `OpenSettles` and `DraftOnlyWhenUnknown` say that only
  requests which had already read the row can still disturb it, that no request
  joins those, and that without one the row is final.

## 4. Disagreements between the code and its comments

The five violation runs quote the statement they refute; `PROJECT.json` has the
lines.

1. `prepare` looks at the status once and then writes all files; when it overlaps
   the commit of another attempt the issued document is not the signed one.
2. `saveDisbursement` is refused only after the signature, but the documents are
   rendered at `prepare`. No overlap is needed.
3. `collections.update` accepts any status for a closed collection, so a
   reopened collection stands beside a newer open one. No overlap is needed.
4. `applyUpdate` recreates the collaterals with every save that names them, and
   the wizard's pledge, parameter and insurance steps all do: the documents of a
   collateral lose it. The comment there says a later save cannot do that.
5. The wizard and the gate disagree on two kinds of stored draft: a new asset
   bought from a firm, whose `sellerKind` is no column and so is gone after a
   load, and a cash loan whose total was cleared after the first save, where the
   wizard goes on with `form.amount` and the row has none.

Seen in the models, stated there or plain in the counterexamples, and not given
a run of their own:

* two overlapping submits of a draft both draw a contract number, although the
  comment at `credit-cases.service.ts:738` says "exactly once" (`NumberSettles`
  confines it);
* `fillDerived` overwrites the affordability's payment only in a save that
  carries the affordability, so after a section save of the credit line the two
  payments differ (`CaseRate!PaymentsAgree` is what its comment says);
* two uploads before the first answer create two drafts, and so does
  `saveCollateralMedia` by itself: it awaits `ensureCase` and then calls a
  `saveSection` that still has the old, undefined id (`OriginationForm!OneDraft`);
* the wizard's last section step does not save the affordability, which
  `finish` alone stores (`OriginationForm!StepIsSaved`);
* `SCORE_MAX` is called attainable, but the running loans that fill factor 14
  empty factor 16: 98 is the most (`Scoring!TypeOK`);
* the admin's form of a collection always sends its days, which re-arms the
  reminders with every edit; an update without them that names the collector
  again moves the deadline and leaves the flags (`CollectionReminders`, "slid");
* starting a shift is "ALWAYS gated by the face" (`home_shell.dart:100`) only for
  one tap at a time: `toggle` has no check of `busy` and looks at the session
  after the location has come, so the second of two quick taps can end the shift
  or start one without the page; and a visit that is saved while another
  handler's face page is up closes that page, with `true`, instead of the form;
* a visit whose answer is lost is sent again by the collector and counted twice;
* the location pings of a shift never start: the calls of `startBgLocation` are
  commented out in `work_cubit.dart`;
* removing a chat message leaves the files of its attachments on disk;
* `transition` may finalize a case without a signature, as the workflow table
  has that edge.

## 5. What is proved

The theorems hold for every set of cases, accounts, branches, directors, users,
documents and requests, and for every number of years, days, attempts, amounts
and edits. The assumptions are the `ASSUME`s of the modules: the null values are
outside the sets, the bounds are numbers, `Cases` is finite; in `Office`, that the
founder is one of finitely many accounts, that no rate is zero, that days, saves,
edits, forms and visits are counted in numbers, that the wizard has a step, that
the null reference is neither a file nor a draft, and that there is a document. Three theorems say "with one request at a time" where the code
promises no more; there `Alone`, a set of requests of which any two are equal, is
a hypothesis of the theorem and no assumption of the module. All rests on SMT,
Zenon and LS4 through TLAPS and on the library facts on finite sets.

`CaseLifecycleProofs`

* `TypeCorrect`: `Spec => []TypeOK`.
* `GlobalNumbersNeverShared`, `SubmittedCasesNumbered`: two cases never share a
  contract number, and a case outside DRAFT has one. Neither is inductive. The
  invariant `NumberingInv` (`NumberingInvariant`) adds that every number given
  is at most the counter, so the next one is new, and what a submit knows: in
  front of the counter it is a request that draws; a submit at the gate that
  does not draw is of a numbered case; in front of the status every request is
  of a numbered case. So `Advance` never takes an unnumbered case out of DRAFT,
  however stale it is.
* `NextNumberAlwaysFree`: `nextNumber`, which counts rows, answers a number no
  row has. The invariant `DenseInv` says that the ordinals of a prefix (branch,
  year) are exactly `1..n` for its `n` rows, and that a create in flight holds
  at most `n + 1`; the insert either takes `n + 1` or clashes. Rows are never
  deleted (archiving keeps them), which the proof needs: statuses never go back
  to "NONE".
* `ContractNumbersSettle`, `ClosedCasesSettle`, `StartedCasesSettle`: the
  three "settles" properties, from two lemmas on what one step may do. The last
  covers the archive mark and the content: once a case has left DRAFT only the
  deletes and saves that had read the draft can still change them.
* `YearlyNumbersInFamily`: cases that carry one number of a year descend from one
  client's first case. `YearlyInv` looks at the numbers that rows and requests in
  flight hold: those drawn are at most the counter of their year, so that a
  draw meets none, and the others were taken from a source whose family it is. `Root`
  is a recursion over the sources; its value is got without an induction, since
  the invariant says that the recursion has exactly one solution (`OneRoot`), and
  a new case, which nobody is descended from, extends that solution by one value.
* `WorkflowImplemented`: with one request at a time the handlers implement
  `CaseWorkflow`. `AloneInv` says what the request knows of its case between its
  statements: it is still the draft that the gate passed, complete and not
  numbered; a status never leaves those the workflow reaches. Then `CreateWrite`
  maps to Open, `IssueContract` to Number, `Advance` to Move, the writes of edit,
  archive and restore to their namesakes, and everything else to a stutter.

`SigningProofs`

* `TypeCorrect`.
* `SignatureCoversOneAttempt`, `SignedChallengeSpent`: for every document the
  filed manifest names the bytes of the one attempt the signature is of, whose
  author is the signer; its challenge is gone. The invariant `SigningInv`
  (`SigningInvariant`) adds what the requests carry: a commit past the lookup
  works on an attempt of its own caller, past the recheck it has hashed that
  attempt's bytes, and an attempt that has not handed out its challenge has
  neither challenge nor signature and belongs to one request.
* `SignatureNeverReplaced`, `LateAttemptsSettle`, `SignedCasesSettle`: the action
  properties.
* `IssuedIsSigned`, `OneAttemptLives`: as long as no two requests on the case
  overlapped, the served files are the signed ones and one challenge is live at
  most. `SerialInv` says that then one request is in flight, what it has hashed
  is what is on disk, and those that render or remove run on an unsigned case.

`StepTimerProofs`, for any number of requests and days

* `BusinessDaysLater`: `AddBusinessDays`, a recursion over the days, answers a day
  after the one it starts from. The induction needs no induction theorem: in
  `Reaches`, the days up to `n` on which something fails would be mapped into
  themselves one to one by "the day before", hence onto, and `n` has no day after
  it among them.
* `TypeCorrect`, from `DayInv`: dates in the slots have come, and a slot that ends a
  pause has one that ended after it began.
* `PausesGivenBack`: with one request at a time a pause is given back exactly and
  at most its window. `HoldInv` says that a request about to pause or to resume
  still has the row it read; with two pauses in flight it would not, and
  the hold would start anew.
* `ReportedOnce`: the job reports a step at most once until a handler clears
  the flag. `NoticedOnce` is not inductive: `TimerInv` (`TimerInvariant`) adds
  that one run of the job is under way at a time, that one about to report
  found the flag clear with nothing sent since, and that a report always leaves
  the flag set. What `notified` itself says in between does not matter.
* `IdleTimersSettle`: it needs what the handlers know when they store a
  deadline (`Knows`): a move out of the timed steps carries none, and a setting
  is applied to cases in a timed step only.
* The proof treats every statement as "one request stores one slot"
  (`Stores`): each action is shown to be of that form, and one lemma shows that
  the form keeps the invariant.

`CollectionsProofs`, for any set of collections and requests and any amounts

* `TypeCorrect`, from `TypeInv`, which adds the form of every slot: a patch
  holds values of its columns, and closedAt comes with a status.
* `CollectedMoneyKept`: no visit's money is lost or doubled, whatever overlaps.
  It is inductive with the types: the handler increments in the database.
* `TotalKept`, `ClosedStampKept`: without overlap the total is the sum and the
  stamp follows the status. The invariant `RightInv` (`RightInvariant`) says
  that a row that is not overlapped has at most one request in flight, and that
  an update among them carries a patch that is right for the row as it still
  is. With an overlap the stored total is that of whoever wrote last.
* `ClosedCollectionsSettle`, `OpenCollectionsSettle`: the action properties.

`CaseRateProofs`, for any totals, principals, rates, incomes and requests

* `TypesKept`, `RateSurvives`, `PaymentSettles`, `AmountSettles`, `ScoreSettles`,
  `AffordabilitySettles`: the types and the five properties, from one invariant
  `IInv`. None is inductive: between its statements a request has written one
  side of an equation and not yet the other. `AloneInv` says that a request no
  other has joined still stands on what it read and is about to write the missing
  side; `CrowdInv` that with an overlapped one in flight all but the rate is
  unsettled; `RateInv` that whoever holds the rate holds the decided one.

`OfficeProofs` and `OfficeRecordsProofs`, of `OfficeSpec`

* `SomebodyAdministers`: an unseating request past the count leaves another active
  admin, as long as it is the only such request; then its write keeps one.
* `OneOpenShift`: the one request of a collector knows what the rows say of his
  shift until it writes.
* `OneScheduleAnswered`: a case is pending, or it is settled (final, every store in
  flight holds the agreed schedule and nobody in flight writes the terms), or
  somebody was late.
* `RemindersFlagged`: a notice whose flag is not stored yet is the one that the
  running check is about to flag; a run has the row as it is unless an update
  came in between.
* `ReceiptsTold`, `ShownIsFinal`: a viewer in flight will add to the readers as
  they are, and a request about to change a message found it unread, as long as
  requests on it did not overlap.
* `FilesKept`: a new file belongs to one request until the row names it, an old one
  is on no other row; while the records are tidy one request is in flight, and
  every file is a row's or its.

In these two, each invariant has a part that always holds and a part that holds
until the ghost of the property says otherwise; the ghosts only grow.

`OfficeScreensProofs`, of `OfficeSpec`, for any number of handlers, forms, drafts,
edits, visits, ages and sums

* `FaceChecked`: a handler about to start a shift or to store a visit has been
  through the face check, or was tapped too quickly. `TapInv` needs the whole stack
  of pages (`FacesInv`: each face page is that of one waiting handler, and the other
  way round), that two handlers of one button are both quick (`Crowded`), that
  one waiting under a form that saves is too (`Aside`), and that one which passed
  without the face is about to end the shift (`Gated`).
* `PhoneIsTrue`: the banner and the forms agree with the server. `TruthInv`, on top
  of `TapInv`, says that of a thing without doubt one handler is at work at most
  (`Sole`), what the banner will show once its answer is in (`BannerTrue`),
  how often a form is stored before, between and after its answer (`FormTrue`,
  `Kept`), and that a call which outlived its handler left its thing in
  doubt (`Wired`).
* `WizardAndGateAgree`: a row that is still the form's is a copy of it in all that
  the two lists read but the seller's kind and the amount (`Copies`), and a form
  whose kind is a firm has no other seller (`FormInv`). Then the two lists are
  compared field by field.
* `LateClicksMakeNone`: each id in a handler or on screen is of a draft that exists, and a
  handler whose wizard knew its draft has the id (`WizardInv`); so only
  a handler of a wizard that had not been answered creates.
* `IncomeIsDecisive`: without income or payments the first `n` factors add up to
  `Cap(n)` at most, hence to 57, below the 60 of `verdictFor`. `Totals` is a
  recursive function over the sheet: `SumsExist` shows that it has a solution, and both it
  and the bound are inductions like that of `BusinessDaysLater`.

* `OfficeCollects`, `OfficeRunsEach`: the office is a composition and nothing more.
  Its behaviours are behaviours of `Collections!Spec`, and whichever of the other
  ten components is picked at the start, they are behaviours of that one's
  `Spec`. As the components share no state, a lemma "...Steps" shows that a step of the
  office is a step of the component or leaves it alone; the rest of each proof
  is about the component.
* `OfficeTypes`: `TypesOK`, the types of all eleven. Of the collections it is
  their own `TypeCorrect`, through `OfficeCollects`. Of the others it takes the
  invariants above and what they leave open of the rows, an invariant "...Rows"
  each: a schedule that is stored or about to be was computed from terms
  (`PlanRows`), an open session is a collector's (`ShiftRows`), a wizard that loads
  again is on a draft it knows and what it saves was typed (`WizardRows`); of the
  gate and the phone the bounds of their counters are left (`GateRows`, `PhoneRows`). That a
  total lies between -10 and 98 is one more induction over the sheet: each factor
  has a least and a greatest score, and only factors 14 and 16, which cannot
  both be full, keep the sum from 99.

Only model-checked: liveness under fairness (`OverdueIsReported`), which the
provers do not reach. Every invariant and every other property of a passing run
is a theorem.

The types of StepTimer and CaseRate are in no run: they are theorems.
`TypeCorrect` of CaseLifecycle, Signing and Collections, `SignedChallengeSpent`
and `ClosedStampKept` state properties that no run lists any more: with the
theorems they need no run, and the runs are spent on what is not proved.

## 6. Plan

Done: the modules of section 2, and a theorem for every invariant and every
action property that the passing runs check. What is left is of two kinds.

1. `OverdueIsReported`, under the fairness of section 3, stays with TLC.
2. Breadth: sellers, settings, notifications and the remaining pages, where they
   come to hold state that another handler decides on.

The list of runs is kept short: a run that no longer asks a question of its own
is merged or dropped, and what is proved leaves the runs before anything else.

## 7. Not modelled, and why

* Rendering, OCR and parsing (passport, KATM, spreadsheets), the document
  templates: text in, text out, no state that another handler decides on.
* Push messages, statistics and audit logs: nothing reads them to decide.
* The rows of a payment schedule, annuities and percentages: decimal formulas of
  one record, whose rounding is that of JavaScript numbers. Over small integers
  they would be another formula.
* The pages of the web clients besides the wizard and the signing dialog, and
  of the mobile client besides the shift banner and the visit form: views of the
  API. Most of the implementation's lines are
  these, with the typed client and DTO declarations they share; they hold no
  control to model, so the map can only ever cover the services, the shared
  rules and the wizard.
* Branches, sellers, settings and the dictionaries: one statement per operation
  on one row.
* Passwords, tokens and login: no state besides the account's row.
* Of the modelled services: `setKatmPrice`, asset financials and insurance
  columns, which follow from one statement's inputs and which no guard reads.

## 8. Running

    tlc -workers 2 -config LifecycleRaces.cfg MCCaseLifecycle.tla
    tlapm CaseLifecycleProofs.tla

Each MC module instantiates one specification (`MCOffice` the composition of
eleven); each `.cfg` is one run.
`PROJECT.json` lists runs, the lines each definition stands for, the slips each
property excludes, hazards, findings and theorems.
