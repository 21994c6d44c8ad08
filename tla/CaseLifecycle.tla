--------------------------- MODULE CaseLifecycle ---------------------------
(***************************************************************************)
(* The life of a credit case as CreditCasesService drives it: creation and *)
(* the application number, draft edits, archiving, the approval workflow   *)
(* and the company-wide contract number.                                   *)
(*                                                                         *)
(* Every handler is a sequence of awaited statements against MySQL.  One   *)
(* statement (or one $transaction) is one action here, and any number of   *)
(* requests run between two statements of another.  A request is a slot of *)
(* `req' that remembers what the handler has read so far; a slot may also  *)
(* die between two statements (a thrown error, a restart).                 *)
(*                                                                         *)
(* Columns: a row of CreditCase is split over one function per column.     *)
(* The timer columns that the same handlers write are module StepTimer's.  *)
(* The content of the application (borrower, credit line, collateral) is   *)
(* one bit, whether it passes the submit gate.  The WorkflowEvent row and  *)
(* the audit row a handler appends are logs no handler reads, left out.    *)
(***************************************************************************)
EXTENDS Integers, FiniteSets

CONSTANTS
    Cases,      \* identities a CreditCase row may take
    NoCase,     \* the null reference
    Users,      \* staff accounts that call the API
    NoUser,     \* the null reference
    RoleOf,     \* the role of each account
    BranchOf,   \* the branch symbol of each account, "GEN" without a branch
    Requests,   \* request slots, the bound on concurrency
    LastYear    \* bound: calendar years are 1..LastYear

Roles == {"OPERATOR", "MODERATOR", "DIRECTOR", "ADMIN"}

ASSUME CasesAssumption == NoCase \notin Cases /\ IsFiniteSet(Cases)
ASSUME UsersAssumption == NoUser \notin Users /\ RoleOf \in [Users -> Roles]
ASSUME YearAssumption  == LastYear \in Nat \ {0}

VARIABLES
    status,     \* CreditCase.status, "NONE" while the row does not exist
    archived,   \* deletedAt is set
    owner,      \* createdById
    source,     \* reMflSourceId
    number,     \* the application number: prefix (branch, year) and ordinal
    complete,   \* the stored content passes caseSubmitErrors
    contract,   \* contractGlobalNo / contractYearlyNo
    globalNo,   \* ContractCounter row 'global'
    yearlyNo,   \* ContractCounter rows of the years
    year,       \* the calendar year
    req         \* what each request in flight has read

dbVars == <<status, archived, owner, source, number, complete, contract,
            globalNo, yearlyNo>>
vars   == <<dbVars, year, req>>

-----------------------------------------------------------------------------
(* Values.                                                                 *)

Workflow == {"DRAFT", "MODERATION", "DIRECTOR_REVIEW", "ADMIN_FINALIZE",
             "FINALIZED", "REJECTED", "CANCELLED"}
Statuses == Workflow \cup {"NONE"}
Terminal == {"FINALIZED", "REJECTED", "CANCELLED"}
Years    == 1..LastYear

Rule(from, to, role, decision) ==
    [from |-> from, to |-> to, role |-> role, decision |-> decision]

ForwardRules ==
    { Rule("DRAFT", "MODERATION", "OPERATOR", "SUBMIT"),
      Rule("DRAFT", "MODERATION", "ADMIN", "SUBMIT"),
      Rule("MODERATION", "DIRECTOR_REVIEW", "MODERATOR", "APPROVE"),
      Rule("DIRECTOR_REVIEW", "FINALIZED", "DIRECTOR", "APPROVE") }

ReturnRules ==
    { Rule("MODERATION", "DRAFT", "MODERATOR", "RETURN"),
      Rule("DIRECTOR_REVIEW", "MODERATION", "DIRECTOR", "RETURN") }

CancelRules ==
    {Rule("MODERATION", "CANCELLED", "MODERATOR", "CANCEL")} \cup
    {Rule(from, "CANCELLED", "DIRECTOR", "CANCEL") :
        from \in {"MODERATION", "DIRECTOR_REVIEW", "ADMIN_FINALIZE"}}

ReopenRules ==
    {Rule(from, "DRAFT", "DIRECTOR", "REOPEN") :
        from \in {"MODERATION", "DIRECTOR_REVIEW", "ADMIN_FINALIZE"}}

\* Slip: the director may also reopen a cancelled case.
TransitionsReopenCancelled ==
    ForwardRules \cup ReturnRules \cup CancelRules \cup ReopenRules
        \cup {Rule("CANCELLED", "DRAFT", "DIRECTOR", "REOPEN")}

TRANSITIONS == ForwardRules \cup ReturnRules \cup CancelRules \cup ReopenRules

IsSubmit(rule) == rule.from = "DRAFT" /\ rule.to = "MODERATION"

CaseNo(branch, yr, n) == [branch |-> branch, year |-> yr, n |-> n]
Branches   == {BranchOf[u] : u \in Users} \cup {"GEN"}
CaseNumber == [branch : Branches, year : Years, n : Nat]
Unnumbered == CaseNo("GEN", 1, 0)

\* The MFL identity: the yearly number and (ghost) the year it was drawn in.
Mfl      == [yearly : Nat, year : 0..LastYear]
NoMfl    == [yearly |-> 0, year |-> 0]
Contract == [global : Nat, mfl : Mfl]
NoContract == [global |-> 0, mfl |-> NoMfl]

Request == [ pc     : {"idle", "create", "edit", "archive", "restore",
                       "gate", "number", "advance"},
             user   : Users \cup {NoUser},
             case   : Cases \cup {NoCase},
             to     : Statuses,      \* status the rule leads to
             draws  : BOOLEAN,       \* a submit that read contractNumber = null
             mfl    : Mfl,           \* the source's MFL identity when read
             src    : Cases \cup {NoCase},
             no     : CaseNumber ]   \* the application number to insert

Idle == [ pc |-> "idle", user |-> NoUser, case |-> NoCase,
          to |-> "NONE", draws |-> FALSE, mfl |-> NoMfl, src |-> NoCase,
          no |-> Unnumbered ]

Exists(c)   == status[c] # "NONE"
Numbered(c) == contract[c] # NoContract

-----------------------------------------------------------------------------
Init ==
    /\ status    = [c \in Cases |-> "NONE"]
    /\ archived  = [c \in Cases |-> FALSE]
    /\ owner     = [c \in Cases |-> NoUser]
    /\ source    = [c \in Cases |-> NoCase]
    /\ number    = [c \in Cases |-> Unnumbered]
    /\ complete  = [c \in Cases |-> FALSE]
    /\ contract  = [c \in Cases |-> NoContract]
    /\ globalNo  = 0
    /\ yearlyNo  = [y \in Years |-> 0]
    /\ year      = 1
    /\ req       = [r \in Requests |-> Idle]

Begin(r, q) == req[r].pc = "idle" /\ req' = [req EXCEPT ![r] = q]
At(r, pc)   == req[r].pc = pc
Finish(r)   == req' = [req EXCEPT ![r] = Idle]

-----------------------------------------------------------------------------
(* createCase and createReMfl.  The ordinal is the number of rows whose    *)
(* number has the prefix, plus one; `number' is unique in the schema.      *)

WithPrefix(branch, yr) ==
    {c \in Cases : Exists(c) /\ number[c].branch = branch /\ number[c].year = yr}

\* Slip: archived rows are left out of the count.
NextNumberOfActive(branch) ==
    CaseNo(branch, year,
           Cardinality({c \in WithPrefix(branch, year) : ~archived[c]}) + 1)

NextNumber(branch) ==
    CaseNo(branch, year, Cardinality(WithPrefix(branch, year)) + 1)

MayEdit(u) == RoleOf[u] \in {"OPERATOR", "ADMIN"}

\* src = NoCase is createCase, any other value is createReMfl from that case.
CreateRead(r, u, src) ==
    /\ MayEdit(u)
    /\ src # NoCase => Exists(src)
    /\ Begin(r, [Idle EXCEPT !.pc = "create", !.user = u, !.src = src,
                             !.no = NextNumber(BranchOf[u])])
    /\ UNCHANGED <<dbVars, year>>

Taken(no) == \E c \in Cases : Exists(c) /\ number[c] = no

\* A repeat case copies only the borrower: its financials are missing.
CreateWrite(r, c, full) ==
    /\ At(r, "create")
    /\ ~Exists(c)
    /\ ~Taken(req[r].no)
    /\ req[r].src # NoCase => ~full
    /\ status'   = [status EXCEPT ![c] = "DRAFT"]
    /\ owner'    = [owner EXCEPT ![c] = req[r].user]
    /\ source'   = [source EXCEPT ![c] = req[r].src]
    /\ number'   = [number EXCEPT ![c] = req[r].no]
    /\ complete' = [complete EXCEPT ![c] = full]
    /\ Finish(r)
    /\ UNCHANGED <<archived, contract, globalNo, yearlyNo, year>>

\* The insert violates the unique index: the caller gets an error.
CreateClash(r) ==
    /\ At(r, "create")
    /\ Taken(req[r].no)
    /\ Finish(r)
    /\ UNCHANGED <<dbVars, year>>

-----------------------------------------------------------------------------
(* updateCase and saveSection, both through applyUpdate; deleteCase and    *)
(* restoreCase.  An operator acts only on cases of their own.              *)

Owns(u, c) == RoleOf[u] = "OPERATOR" => owner[c] = u

\* Slip: the status of the case is not looked at.
EditReadAnyStatus(r, u, c) ==
    /\ MayEdit(u)
    /\ Exists(c)
    /\ Owns(u, c)
    /\ Begin(r, [Idle EXCEPT !.pc = "edit", !.case = c])
    /\ UNCHANGED <<dbVars, year>>

EditRead(r, u, c) ==
    /\ MayEdit(u)
    /\ status[c] = "DRAFT"
    /\ Owns(u, c)
    /\ Begin(r, [Idle EXCEPT !.pc = "edit", !.case = c])
    /\ UNCHANGED <<dbVars, year>>

EditWrite(r, full) ==
    /\ At(r, "edit")
    /\ complete' = [complete EXCEPT ![req[r].case] = full]
    /\ Finish(r)
    /\ UNCHANGED <<status, archived, owner, source, number, contract,
                   globalNo, yearlyNo, year>>

\* Slip: the status of the case is not looked at.
ArchiveReadAnyStatus(r, u, c) ==
    /\ MayEdit(u)
    /\ Exists(c)
    /\ ~archived[c]
    /\ Owns(u, c)
    /\ Begin(r, [Idle EXCEPT !.pc = "archive", !.case = c])
    /\ UNCHANGED <<dbVars, year>>

ArchiveRead(r, u, c) ==
    /\ MayEdit(u)
    /\ ~archived[c]
    /\ status[c] = "DRAFT"
    /\ Owns(u, c)
    /\ Begin(r, [Idle EXCEPT !.pc = "archive", !.case = c])
    /\ UNCHANGED <<dbVars, year>>

RestoreRead(r, u, c) ==
    /\ MayEdit(u)
    /\ Exists(c)
    /\ archived[c]
    /\ Owns(u, c)
    /\ Begin(r, [Idle EXCEPT !.pc = "restore", !.case = c])
    /\ UNCHANGED <<dbVars, year>>

ArchiveWrite(r) ==
    /\ req[r].pc \in {"archive", "restore"}
    /\ archived' = [archived EXCEPT ![req[r].case] = (req[r].pc = "archive")]
    /\ Finish(r)
    /\ UNCHANGED <<status, owner, source, number, complete, contract,
                   globalNo, yearlyNo, year>>

-----------------------------------------------------------------------------
(* transition.  The handler reads the case once, with its source; a submit *)
(* then runs the gate on a second read, draws the contract number when the *)
(* first read had none, and at last writes the status.                     *)

SourceMfl(c) == IF source[c] # NoCase THEN contract[source[c]].mfl ELSE NoMfl

Transition(r, c, rule, draws) ==
    /\ Begin(r, [Idle EXCEPT
            !.pc    = IF IsSubmit(rule) THEN "gate" ELSE "advance",
            !.case  = c,
            !.to    = rule.to,
            !.draws = draws,
            !.mfl   = IF draws THEN SourceMfl(c) ELSE NoMfl])
    /\ UNCHANGED <<dbVars, year>>

\* Slip: every submit draws a number, whether or not the case has one.
TransitionReadAlwaysDraws(r, u, c, rule) ==
    /\ rule.from = status[c]
    /\ rule.role = RoleOf[u]
    /\ Transition(r, c, rule, IsSubmit(rule))

TransitionRead(r, u, c, rule) ==
    /\ rule.from = status[c]
    /\ rule.role = RoleOf[u]
    /\ Transition(r, c, rule, IsSubmit(rule) /\ ~Numbered(c))

\* Slip: a submit goes on to the status before the number is drawn.
GatePassUnnumbered(r) ==
    /\ At(r, "gate")
    /\ complete[req[r].case]
    /\ req' = [req EXCEPT ![r].pc = "advance"]
    /\ UNCHANGED <<dbVars, year>>

GatePass(r) ==
    /\ At(r, "gate")
    /\ complete[req[r].case]
    /\ req' = [req EXCEPT ![r].pc = IF req[r].draws THEN "number" ELSE "advance"]
    /\ UNCHANGED <<dbVars, year>>

\* Missing fields, or more than ten media files on a collateral.
GateRefuse(r) ==
    /\ At(r, "gate")
    /\ Finish(r)
    /\ UNCHANGED <<dbVars, year>>

\* Slip: the counter row is read and not incremented.
NextCounterRead(value) == IF value = 0 THEN 1 ELSE value

NextCounter(value) == value + 1

\* Slip: the year's counter row is read and never written back.
IssueContractYearlyUnsaved(r) ==
    /\ At(r, "number")
    /\ globalNo' = NextCounter(globalNo)
    /\ contract' = [contract EXCEPT ![req[r].case] =
           [global |-> globalNo',
            mfl    |-> [yearly |-> NextCounter(yearlyNo[year]), year |-> year]]]
    /\ req' = [req EXCEPT ![r].pc = "advance", ![r].draws = FALSE, ![r].mfl = NoMfl]
    /\ UNCHANGED <<status, archived, owner, source, number, complete, yearlyNo, year>>

IssueContract(r) ==
    /\ At(r, "number")
    /\ globalNo' = NextCounter(globalNo)
    /\ \/ /\ req[r].mfl # NoMfl
          /\ contract' = [contract EXCEPT ![req[r].case] =
                 [global |-> globalNo', mfl |-> req[r].mfl]]
          /\ UNCHANGED yearlyNo
       \/ /\ req[r].mfl = NoMfl
          /\ yearlyNo' = [yearlyNo EXCEPT ![year] = NextCounter(@)]
          /\ contract' = [contract EXCEPT ![req[r].case] =
                 [global |-> globalNo',
                  mfl    |-> [yearly |-> yearlyNo'[year], year |-> year]]]
    /\ req' = [req EXCEPT ![r].pc = "advance", ![r].draws = FALSE, ![r].mfl = NoMfl]
    /\ UNCHANGED <<status, archived, owner, source, number, complete, year>>

Advance(r) ==
    /\ At(r, "advance")
    /\ status' = [status EXCEPT ![req[r].case] = req[r].to]
    /\ Finish(r)
    /\ UNCHANGED <<archived, owner, source, number, complete, contract,
                   globalNo, yearlyNo, year>>

\* A statement throws or the process restarts: the slot is lost.
Abort(r) ==
    /\ ~At(r, "idle")
    /\ Finish(r)
    /\ UNCHANGED <<dbVars, year>>

YearEnds ==
    /\ year < LastYear
    /\ year' = year + 1
    /\ UNCHANGED <<dbVars, req>>

-----------------------------------------------------------------------------
StartRequest(r) ==
    \E u \in Users :
        \/ \E src \in Cases \cup {NoCase} : CreateRead(r, u, src)
        \/ \E c \in Cases :
              \/ EditRead(r, u, c)
              \/ ArchiveRead(r, u, c)
              \/ RestoreRead(r, u, c)
              \/ \E rule \in TRANSITIONS : TransitionRead(r, u, c, rule)

ContinueRequest(r) ==
    \/ \E c \in Cases, full \in BOOLEAN : CreateWrite(r, c, full)
    \/ CreateClash(r)
    \/ \E full \in BOOLEAN : EditWrite(r, full)
    \/ ArchiveWrite(r)
    \/ GatePass(r)
    \/ GateRefuse(r)
    \/ IssueContract(r)
    \/ Advance(r)
    \/ Abort(r)

Next == \/ \E r \in Requests : StartRequest(r) \/ ContinueRequest(r)
        \/ YearEnds

Spec == Init /\ [][Next]_vars

-----------------------------------------------------------------------------
(* Properties.                                                             *)

\* Every column and every request slot holds a value of its domain, and a
\* slot that is past its first read names the case it works on.
TypeOK ==
    /\ status    \in [Cases -> Statuses]
    /\ archived  \in [Cases -> BOOLEAN]
    /\ owner     \in [Cases -> Users \cup {NoUser}]
    /\ source    \in [Cases -> Cases \cup {NoCase}]
    /\ number    \in [Cases -> CaseNumber]
    /\ complete  \in [Cases -> BOOLEAN]
    /\ contract  \in [Cases -> Contract]
    /\ globalNo  \in Nat
    /\ yearlyNo  \in [Years -> Nat]
    /\ year      \in Years
    /\ req       \in [Requests -> Request]
    /\ \A r \in Requests :
          req[r].pc \notin {"idle", "create"} => req[r].case \in Cases

\* No two cases ever hold the same company-wide number, whatever submits
\* overlap, fail half way or are repeated (nextCounter, transition).
GlobalNumbersUnique ==
    \A c, d \in Cases :
        Numbered(c) /\ contract[c].global = contract[d].global => c = d

\* The first contract of a client that the repeat cases lead back to.
Root[c \in Cases] == IF source[c] = NoCase THEN c ELSE Root[source[c]]

\* Two cases carry the same yearly number of the same year only when both
\* descend from one client's first case through createReMfl.
YearlySharedInFamily ==
    \A c, d \in Cases :
        Numbered(c) /\ contract[c].mfl = contract[d].mfl => Root[c] = Root[d]

\* A case that has left DRAFT carries a contract number, also when the
\* submit that moved it trusted a number another submit was still replacing.
SubmittedHasNumber ==
    \A c \in Cases : status[c] \notin {"NONE", "DRAFT"} => Numbered(c)

\* A create that nobody overtakes meets a number nobody has: the count of
\* rows never runs behind the numbers given (nextNumber, deleteCase keeps rows).
NextNumberFree == \A u \in Users : ~Taken(NextNumber(BranchOf[u]))

\* The submits that may still give case c a contract number.
Numberers(c) == {r \in Requests : req[r].case = c /\ req[r].draws}

\* A contract number is replaced only by a submit that read the case before
\* it had one: no request joins those, and without one the number stays.
NumberSettles ==
    [][\A c \in Cases : Numbered(c) =>
          /\ Numberers(c)' \subseteq Numberers(c)
          /\ Numberers(c) = {} => contract'[c] = contract[c]]_vars

\* The requests that may still move case c to another status.
Movers(c) == {r \in Requests :
    req[r].case = c /\ req[r].pc \in {"gate", "number", "advance"}}

\* A closed case is moved only by a request that read it while it was open:
\* no request joins those, and without one the case stays closed.
ClosedSettles ==
    [][\A c \in Cases : status[c] \in Terminal =>
          /\ Movers(c)' \subseteq Movers(c)
          /\ Movers(c) = {} => status'[c] = status[c]]_vars

\* The deletes that may still archive case c.
Archivers(c) == {r \in Requests : req[r].case = c /\ req[r].pc = "archive"}

\* The saves that may still store content in case c.
Editors(c) == {r \in Requests : req[r].case = c /\ req[r].pc = "edit"}

\* "Non-draft cases (already in the workflow) are never deletable"
\* (credit-cases.service.ts:247) nor editable (:322), up to the deletes and
\* saves that read the case while it was a draft: none joins those, and
\* without one it is not archived and keeps the content the saves gave it
\* (setRate and setSplit, which write later, are in CaseRate).
StartedSettles ==
    [][\A c \in Cases : status[c] \notin {"NONE", "DRAFT"} =>
          /\ Archivers(c)' \subseteq Archivers(c)
          /\ Archivers(c) = {} => (archived'[c] => archived[c])
          /\ Editors(c)' \subseteq Editors(c)
          /\ Editors(c) = {} => complete'[c] = complete[c]]_vars

\* "Assign the company-wide contract number exactly once, at submit"
\* (credit-cases.service.ts:738): a number, once given, is never replaced.
NumberAssignedOnce ==
    [][\A c \in Cases : Numbered(c) => contract'[c] = contract[c]]_vars

Promise == INSTANCE CaseWorkflow
           WITH status <- status, archived <- archived, complete <- complete,
                source <- source, contract <- contract

\* Requests that do not overlap implement the atomic workflow, also when they
\* are cut off between two statements: each step is one of its operations.
ImplementsWorkflow == Promise!Spec
=============================================================================
