------------------------------- MODULE Office -------------------------------
(***************************************************************************)
(* The handlers that keep the office's records, each component an instance *)
(* of its own.  They share no state, so a behaviour runs one of them,      *)
(* chosen at the start, while the others stay as they began: the states    *)
(* each component reaches are those it reaches beside the others.          *)
(* Collections, whose theorems state its properties, is extended.          *)
(***************************************************************************)
EXTENDS Collections, Sequences

CONSTANTS
    Nobody,                       \* the null reference
    Second,                       \* a collection that "one collection" leaves alone
    Collectors, DueDays, MaxDay,  \* CollectionReminders, and Shifts
    Assigners,                    \* its update slots
    Users, MessageIds, MaxEdits,  \* Messages
    DocIds, Files, MaxSaves,      \* Documents
    Accounts, Founder,            \* Staff
    Sessions,                     \* Shifts
    STEPS, Typed, Drafts,         \* OriginationForm
    Ages, Incomes, Sums,          \* Scoring
    MaxChanges, MaxPledges,       \* SubmitGate
    Rates, Draws,                 \* PaymentSchedule
    MaxForms, MaxVisits           \* FieldPhone

ASSUME AccountsAssumption == Founder \in Accounts /\ IsFiniteSet(Accounts)
ASSUME RatesAssumption    == 0 \notin Rates
ASSUME DaysAssumption     == MaxDay \in Nat /\ DueDays \subseteq Nat \ {0}
ASSUME FilesAssumption    == Nobody \notin Files /\ DocIds # {} /\ MaxSaves \in Nat
ASSUME EditsAssumption    == MaxEdits \in Nat
ASSUME DraftsAssumption   == Nobody \notin Drafts
ASSUME FormsAssumption    == MaxForms \in Nat /\ MaxVisits \in Nat
ASSUME StepsAssumption    == Len(STEPS) \in Nat \ {0}
ASSUME ChangesAssumption  == MaxChanges \in Nat

VARIABLES
    part,                                                        \* the component that runs
    tToday, tCol, tReq, tJob, tTold, tExcuse,                    \* CollectionReminders
    mMessage, mReq, mShown, mDisturbed,                          \* Messages
    dRow, dDisk, dCollateral, dReq, dLost, dUntidy,              \* Documents
    aUser, aReq, aUnseated,                                      \* Staff
    wAdmitted, wSession, wReq, wPinged, wCrossed,                \* Shifts
    fForm, fCaseId, fLoads, fReload, fStep, fSaving, fRun,       \* OriginationForm
    fStored, fKnown, fMade, fKept,
    cCase, cTotal,                                               \* Scoring
    gForm, gRow, gExists, gClean, gEdits,                        \* SubmitGate
    pStatus, pFrozen, pTerms, pSchedule, pReq,                   \* PaymentSchedule
    pAgreed, pLate, pAnswered,
    hShift, hVisits, hWire, hUi, hShown, hOpened, hOnForm, hFaces, hRun, hSaved, hDoubt  \* FieldPhone

Reminders == INSTANCE CollectionReminders WITH NoOne <- Nobody, Requests <- Assigners,
            today <- tToday, col <- tCol, req <- tReq, job <- tJob, told <- tTold, excuse <- tExcuse

Chat == INSTANCE Messages WITH Slots <- MessageIds,
            message <- mMessage, req <- mReq, shown <- mShown, disturbed <- mDisturbed

Papers == INSTANCE Documents WITH Docs <- DocIds, NoFile <- Nobody,
            row <- dRow, disk <- dDisk, collateral <- dCollateral, req <- dReq, lost <- dLost, untidy <- dUntidy

People == INSTANCE Staff WITH NoOne <- Nobody, user <- aUser, req <- aReq, unseated <- aUnseated

Work == INSTANCE Shifts WITH NoOne <- Nobody,
            admitted <- wAdmitted, session <- wSession, req <- wReq, pinged <- wPinged, crossed <- wCrossed

Wizard == INSTANCE OriginationForm WITH NoDraft <- Nobody, Handlers <- Requests,
            form <- fForm, caseId <- fCaseId, loads <- fLoads, reload <- fReload, step <- fStep,
            saving <- fSaving, run <- fRun, stored <- fStored, known <- fKnown, made <- fMade, kept <- fKept

Score == INSTANCE Scoring WITH case <- cCase, total <- cTotal

Gate == INSTANCE SubmitGate WITH MaxEdits <- MaxChanges,
            form <- gForm, row <- gRow, exists <- gExists, clean <- gClean, edits <- gEdits

Plan == INSTANCE PaymentSchedule WITH
            status <- pStatus, frozen <- pFrozen, terms <- pTerms, schedule <- pSchedule, req <- pReq,
            agreed <- pAgreed, late <- pLate, answered <- pAnswered

Phone == INSTANCE FieldPhone WITH Taps <- Requests,
            shift <- hShift, visits <- hVisits, wire <- hWire, ui <- hUi, shown <- hShown, opened <- hOpened,
            onForm <- hOnForm, faces <- hFaces, run <- hRun, saved <- hSaved, doubt <- hDoubt

tVars == <<tToday, tCol, tReq, tJob, tTold, tExcuse>>
mVars == <<mMessage, mReq, mShown, mDisturbed>>
dVars == <<dRow, dDisk, dCollateral, dReq, dLost, dUntidy>>
aVars == <<aUser, aReq, aUnseated>>
wVars == <<wAdmitted, wSession, wReq, wPinged, wCrossed>>
fVars == <<fForm, fCaseId, fLoads, fReload, fStep, fSaving, fRun, fStored, fKnown, fMade, fKept>>
cVars == <<cCase, cTotal>>
gVars == <<gForm, gRow, gExists, gClean, gEdits>>
pVars == <<pStatus, pFrozen, pTerms, pSchedule, pReq, pAgreed, pLate, pAnswered>>
hVars == <<hShift, hVisits, hWire, hUi, hShown, hOpened, hOnForm, hFaces, hRun, hSaved, hDoubt>>

\* A component that does not run has no state.
OfficeInit ==
    /\ part \in {"one collection", "two collections", "reminders", "chat", "papers", "people",
                 "work", "wizard", "score", "gate", "plan", "phone"}
    /\ Init
    /\ IF part = "reminders" THEN Reminders!Init
       ELSE tToday = 0 /\ tCol = 0 /\ tReq = 0 /\ tJob = 0 /\ tTold = 0 /\ tExcuse = 0
    /\ IF part = "chat" THEN Chat!Init
       ELSE mMessage = 0 /\ mReq = 0 /\ mShown = 0 /\ mDisturbed = 0
    /\ IF part = "papers" THEN Papers!Init
       ELSE dRow = 0 /\ dDisk = 0 /\ dCollateral = 0 /\ dReq = 0 /\ dLost = 0 /\ dUntidy = 0
    /\ IF part = "people" THEN People!Init ELSE aUser = 0 /\ aReq = 0 /\ aUnseated = 0
    /\ IF part = "work" THEN Work!Init
       ELSE wAdmitted = 0 /\ wSession = 0 /\ wReq = 0 /\ wPinged = 0 /\ wCrossed = 0
    /\ IF part = "wizard" THEN Wizard!Init
       ELSE /\ fForm = 0 /\ fCaseId = 0 /\ fLoads = 0 /\ fReload = 0 /\ fStep = 0 /\ fSaving = 0
            /\ fRun = 0 /\ fStored = 0 /\ fKnown = 0 /\ fMade = 0 /\ fKept = 0
    /\ IF part = "score" THEN Score!Init ELSE cCase = 0 /\ cTotal = 0
    /\ IF part = "gate" THEN Gate!Init ELSE gForm = 0 /\ gRow = 0 /\ gExists = 0 /\ gClean = 0 /\ gEdits = 0
    /\ IF part = "plan" THEN Plan!Init
       ELSE /\ pStatus = 0 /\ pFrozen = 0 /\ pTerms = 0 /\ pSchedule = 0 /\ pReq = 0
            /\ pAgreed = 0 /\ pLate = 0 /\ pAnswered = 0
    /\ IF part = "phone" THEN Phone!Init
       ELSE /\ hShift = 0 /\ hVisits = 0 /\ hWire = 0 /\ hUi = 0 /\ hShown = 0 /\ hOpened = 0
            /\ hOnForm = 0 /\ hFaces = 0 /\ hRun = 0 /\ hSaved = 0 /\ hDoubt = 0

\* Bounds of Collections: one row with money, or two rows without.
OneRow  == row'[Second] = row[Second]
NoMoney ==
    /\ \A k \in Collections : row'[k].months + row'[k].penalty + visits'[k] = 0
    /\ \A r \in Requests : \A c \in {"months", "penalty", "total"} : Given(req'[r].patch, c, 0) = 0

IdleBut(p) ==
    /\ part = p /\ UNCHANGED part
    /\ p \notin {"one collection", "two collections"} => UNCHANGED vars
    /\ p # "reminders"   => UNCHANGED tVars
    /\ p # "chat"        => UNCHANGED mVars
    /\ p # "papers"      => UNCHANGED dVars
    /\ p # "people"      => UNCHANGED aVars
    /\ p # "work"        => UNCHANGED wVars
    /\ p # "wizard"      => UNCHANGED fVars
    /\ p # "score"       => UNCHANGED cVars
    /\ p # "gate"        => UNCHANGED gVars
    /\ p # "plan"        => UNCHANGED pVars
    /\ p # "phone"       => UNCHANGED hVars

OfficeNext ==
    \/ IdleBut("one collection")  /\ Next /\ OneRow
    \/ IdleBut("two collections") /\ Next /\ NoMoney
    \/ IdleBut("reminders")   /\ Reminders!Next
    \/ IdleBut("chat")        /\ Chat!Next
    \/ IdleBut("papers")      /\ Papers!Next
    \/ IdleBut("people")      /\ People!Next
    \/ IdleBut("work")        /\ Work!Next
    \/ IdleBut("wizard")      /\ Wizard!Next
    \/ IdleBut("score")       /\ Score!Next
    \/ IdleBut("gate")        /\ Gate!Next
    \/ IdleBut("plan")        /\ Plan!Next
    \/ IdleBut("phone")       /\ Phone!Next

officeVars == <<part, vars, tVars, mVars, dVars, aVars, wVars, fVars, cVars, gVars, pVars, hVars>>

OfficeSpec == OfficeInit /\ [][OfficeNext]_officeVars

-----------------------------------------------------------------------------
(* The type invariants of the components.                                  *)
TypesOK ==
    /\ TypeOK
    /\ part = "reminders" => Reminders!TypeOK
    /\ part = "chat"   => Chat!TypeOK
    /\ part = "papers" => Papers!TypeOK
    /\ part = "people" => People!TypeOK
    /\ part = "work"   => Work!TypeOK
    /\ part = "wizard" => Wizard!TypeOK
    /\ part = "score"  => Score!TypeOK
    /\ part = "gate"   => Gate!TypeOK
    /\ part = "plan"   => Plan!TypeOK
    /\ part = "phone"  => Phone!TypeOK

(* The properties of the components, each where the component runs; see    *)
(* their modules.                                                          *)
FlagsTellTruth       == part = "reminders" => Reminders!FlagsTellTruth
ReceiptsAreTrue      == part = "chat" => Chat!ReceiptsAreTrue
ShownSettles         == [][part = "chat" => Chat!ShownStays]_mVars
FilesMatchRows       == part = "papers" => Papers!FilesMatchRows
AdminRemains         == part = "people" => People!AdminRemains
OneShift             == part = "work" => Work!OneShift
DraftOnlyWhenUnknown == [][part = "wizard" => Wizard!LateMakesNone]_fVars
IncomeDecides        == part = "score" => Score!IncomeDecides
GateAgrees           == part = "gate" => Gate!GateAgrees
RowsAsAgreed         == part = "plan" => Plan!RowsAsAgreed
FaceBefore           == part = "phone" => Phone!FaceBefore
PhoneTellsTruth      == part = "phone" => Phone!PhoneTellsTruth
=============================================================================
