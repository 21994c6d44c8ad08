------------------------ MODULE CaseLifecycleProofs ------------------------
(***************************************************************************)
(* Theorems about CaseLifecycle, for any set of cases, accounts, branches, *)
(* years and any number of overlapping requests.                           *)
(***************************************************************************)
EXTENDS CaseLifecycle, FiniteSetTheorems, TLAPS

\* The slot of a request that has not begun is a well-formed request.
LEMMA IdleRequest == Idle \in Request
  BY YearAssumption DEF Idle, Request, NoMfl, Mfl, Unnumbered, CaseNo,
     CaseNumber, Branches, Years, Statuses, Workflow

\* At most one rule of the table fits a status, a role and a decision, so the
\* first match findTransition returns is the only one.
LEMMA TransitionDeterministic ==
  ASSUME NEW r1 \in TRANSITIONS, NEW r2 \in TRANSITIONS,
         r1.from = r2.from, r1.role = r2.role, r1.decision = r2.decision
  PROVE  r1.to = r2.to
  BY DEF TRANSITIONS, ForwardRules, ReturnRules, CancelRules, ReopenRules, Rule

\* Every rule leads from a workflow status to a workflow status.
LEMMA RuleTypes ==
  ASSUME NEW rule \in TRANSITIONS
  PROVE  /\ rule.from \in Workflow /\ rule.to \in Workflow
         /\ rule.from \notin Terminal
         /\ rule.from = "DRAFT" => IsSubmit(rule)
  BY DEF TRANSITIONS, ForwardRules, ReturnRules, CancelRules, ReopenRules, Rule,
         Workflow, Terminal, IsSubmit

\* The next application number is a well-formed number with its prefix.
LEMMA NextNumberType ==
  ASSUME TypeOK, NEW u \in Users
  PROVE  NextNumber(BranchOf[u]) \in CaseNumber
<1> DEFINE W == WithPrefix(BranchOf[u], year)
<1>1. W \in SUBSET Cases
  BY DEF WithPrefix
<1>2. Cardinality(W) \in Nat
  BY <1>1, CasesAssumption, FS_Subset, FS_CardinalityType
<1> HIDE DEF W
<1>3. Cardinality(W) + 1 \in Nat
  BY <1>2
<1> QED
  BY <1>3 DEF NextNumber, W, CaseNo, CaseNumber, Branches, TypeOK

\* The empty database the service starts from is well typed.
THEOREM InitType == Init => TypeOK
<1> SUFFICES ASSUME Init PROVE TypeOK
  OBVIOUS
<1>1. Unnumbered \in CaseNumber /\ NoContract \in Contract
  BY YearAssumption DEF Unnumbered, CaseNo, CaseNumber, Branches, Years,
     NoContract, Contract, NoMfl, Mfl
<1> QED
  BY <1>1, IdleRequest, YearAssumption
     DEF Init, TypeOK, Idle, Statuses, Years

\* The type of the request slots, as TypeOK states it.
SlotsOK ==
    /\ req \in [Requests -> Request]
    /\ \A r \in Requests :
          req[r].pc \notin {"idle", "create"} => req[r].case \in Cases

\* Storing a well-formed request in one slot keeps the slots well-formed.
LEMMA SlotType ==
  ASSUME SlotsOK, NEW r \in Requests, NEW q \in Request,
         q.pc \notin {"idle", "create"} => q.case \in Cases,
         req' = [req EXCEPT ![r] = q]
  PROVE  SlotsOK'
  BY DEF SlotsOK

\* Ending a request keeps the slots well-formed.
LEMMA FinishType ==
  ASSUME SlotsOK, NEW r \in Requests, Finish(r)
  PROVE  SlotsOK'
<1>1. Idle.pc = "idle"
  BY DEF Idle
<1> QED
  BY <1>1, SlotType, IdleRequest DEF Finish

\* Every handler statement stores well-typed columns and slots.
LEMMA StepType ==
  ASSUME TypeOK, [Next]_vars
  PROVE  TypeOK'
<1>0. SlotsOK
  BY DEF TypeOK, SlotsOK
<1>1. ASSUME NEW r \in Requests, NEW u \in Users, NEW src \in Cases \cup {NoCase},
             CreateRead(r, u, src)
      PROVE  TypeOK'
  <2>1. [Idle EXCEPT !.pc = "create", !.user = u, !.src = src,
                     !.no = NextNumber(BranchOf[u])] \in Request
    BY IdleRequest, NextNumberType DEF Request
  <2> QED
    <3>1. SlotsOK'
      BY <1>0, <1>1, <2>1, SlotType DEF CreateRead, Begin, Idle
    <3> QED
      BY <3>1, <1>1 DEF CreateRead, dbVars, TypeOK, SlotsOK
<1>2. ASSUME NEW r \in Requests, NEW c \in Cases, NEW full \in BOOLEAN,
             CreateWrite(r, c, full)
      PROVE  TypeOK'
  <2>1. SlotsOK'
    BY <1>0, <1>2, FinishType DEF CreateWrite
  <2>2. /\ req[r].user \in Users \cup {NoUser} /\ req[r].src \in Cases \cup {NoCase}
        /\ req[r].no \in CaseNumber
    BY DEF TypeOK, Request
  <2> QED
    BY <2>1, <2>2, <1>2 DEF CreateWrite, TypeOK, SlotsOK, Statuses, Workflow
<1>3. ASSUME NEW r \in Requests, CreateClash(r) \/ GateRefuse(r) \/ Abort(r)
      PROVE  TypeOK'
  <2>1. SlotsOK' /\ UNCHANGED <<dbVars, year>>
    BY <1>0, <1>3, FinishType DEF CreateClash, GateRefuse, Abort
  <2> QED
    BY <2>1 DEF dbVars, TypeOK, SlotsOK
<1>4. ASSUME NEW r \in Requests, NEW u \in Users, NEW c \in Cases,
             EditRead(r, u, c) \/ ArchiveRead(r, u, c) \/ RestoreRead(r, u, c)
      PROVE  TypeOK'
  <2>1. \E pc \in {"edit", "archive", "restore"} :
           req' = [req EXCEPT ![r] = [Idle EXCEPT !.pc = pc, !.case = c]]
    BY <1>4 DEF EditRead, ArchiveRead, RestoreRead, Begin
  <2>2. \A pc \in {"edit", "archive", "restore"} :
           [Idle EXCEPT !.pc = pc, !.case = c] \in Request
    BY IdleRequest DEF Request
  <2>3. UNCHANGED <<dbVars, year>>
    BY <1>4 DEF EditRead, ArchiveRead, RestoreRead
  <2>4. SlotsOK'
    BY <1>0, <2>1, <2>2, SlotType DEF Idle
  <2> QED
    BY <2>3, <2>4 DEF dbVars, TypeOK, SlotsOK
<1>5. ASSUME NEW r \in Requests, NEW full \in BOOLEAN, EditWrite(r, full)
      PROVE  TypeOK'
  <2>1. SlotsOK'
    BY <1>0, <1>5, FinishType DEF EditWrite
  <2> QED
    BY <2>1, <1>5 DEF EditWrite, TypeOK, SlotsOK
<1>6. ASSUME NEW r \in Requests, ArchiveWrite(r)
      PROVE  TypeOK'
  <2>1. SlotsOK'
    BY <1>0, <1>6, FinishType DEF ArchiveWrite
  <2> QED
    BY <2>1, <1>6 DEF ArchiveWrite, TypeOK, SlotsOK
<1>7. ASSUME NEW r \in Requests, NEW u \in Users, NEW c \in Cases,
             NEW rule \in TRANSITIONS, TransitionRead(r, u, c, rule)
      PROVE  TypeOK'
  <2>1. SourceMfl(c) \in Mfl /\ NoMfl \in Mfl
    BY YearAssumption, CasesAssumption DEF SourceMfl, Contract, NoMfl, Mfl, TypeOK
  <2>2. PICK draws \in BOOLEAN : Transition(r, c, rule, draws)
    BY <1>7 DEF TransitionRead
  <2> DEFINE q == [Idle EXCEPT
            !.pc    = IF IsSubmit(rule) THEN "gate" ELSE "advance",
            !.case  = c,
            !.to    = rule.to,
            !.draws = draws,
            !.mfl   = IF draws THEN SourceMfl(c) ELSE NoMfl]
  <2>3. q \in Request /\ q.case \in Cases
    BY <2>1, IdleRequest, RuleTypes, ZenonT(60) DEF Request, Statuses, Idle
  <2>4. req' = [req EXCEPT ![r] = q] /\ UNCHANGED <<dbVars, year>>
    BY <2>2 DEF Transition, Begin
  <2> HIDE DEF q
  <2>5. SlotsOK'
    BY <1>0, <2>3, <2>4, SlotType
  <2> QED
    BY <2>4, <2>5 DEF dbVars, TypeOK, SlotsOK
<1>8. ASSUME NEW r \in Requests, GatePass(r)
      PROVE  TypeOK'
  <2> DEFINE q == [req[r] EXCEPT !.pc = IF req[r].draws THEN "number" ELSE "advance"]
  <2>1. q \in Request /\ q.case \in Cases
    BY <1>0, <1>8 DEF SlotsOK, Request, GatePass, At
  <2>2. req' = [req EXCEPT ![r] = q] /\ UNCHANGED <<dbVars, year>>
    BY <1>0, <1>8 DEF GatePass, SlotsOK, Request
  <2> HIDE DEF q
  <2>3. SlotsOK'
    BY <1>0, <2>1, <2>2, SlotType
  <2> QED
    BY <2>2, <2>3 DEF dbVars, TypeOK, SlotsOK
<1>9. ASSUME NEW r \in Requests, IssueContract(r)
      PROVE  TypeOK'
  <2>1. req[r].case \in Cases /\ NoMfl \in Mfl
    BY <1>0, <1>9, YearAssumption DEF IssueContract, At, SlotsOK, NoMfl, Mfl
  <2>2. globalNo' \in Nat /\ yearlyNo' \in [Years -> Nat]
    BY <1>9 DEF IssueContract, NextCounter, TypeOK
  <2>3. contract' \in [Cases -> Contract]
    <3>1. req[r].mfl \in Mfl /\ [yearly |-> yearlyNo'[year], year |-> year] \in Mfl
      BY <2>2 DEF TypeOK, Request, Mfl, Years
    <3>2. \A m \in Mfl : [global |-> globalNo', mfl |-> m] \in Contract
      BY <2>2 DEF Contract
    <3> QED
      BY <1>9, <3>1, <3>2 DEF IssueContract, TypeOK
  <2> DEFINE q == [req[r] EXCEPT !.pc = "advance", !.draws = FALSE, !.mfl = NoMfl]
  <2>4. q \in Request /\ q.case \in Cases
    BY <1>0, <2>1, ZenonT(60) DEF SlotsOK, Request
  <2>5. req' = [req EXCEPT ![r] = q]
    BY <1>0, <1>9 DEF IssueContract, SlotsOK, Request
  <2> HIDE DEF q
  <2>6. SlotsOK'
    BY <1>0, <2>4, <2>5, SlotType
  <2> QED
    BY <1>9, <2>2, <2>3, <2>6 DEF IssueContract, TypeOK, SlotsOK
<1>10. ASSUME NEW r \in Requests, Advance(r)
       PROVE  TypeOK'
  <2>1. SlotsOK'
    BY <1>0, <1>10, FinishType DEF Advance
  <2> QED
    BY <2>1, <1>10, ZenonT(60) DEF Advance, TypeOK, SlotsOK, Request
<1>11. ASSUME YearEnds
       PROVE  TypeOK'
  BY <1>11, YearAssumption DEF YearEnds, Years, dbVars, TypeOK
<1>12. ASSUME UNCHANGED vars
       PROVE  TypeOK'
  BY <1>12 DEF vars, dbVars, TypeOK
<1> QED
  BY <1>1, <1>2, <1>3, <1>4, <1>5, <1>6, <1>7, <1>8, <1>9, <1>10, <1>11, <1>12
     DEF Next, StartRequest, ContinueRequest

\* Type correctness: every column and slot keeps its domain (the domains of
\* the Prisma schema, and what each handler has read).
THEOREM TypeCorrect == Spec => []TypeOK
<1>1. TypeOK /\ [Next]_vars => TypeOK'
  BY StepType
<1> QED
  BY InitType, <1>1, PTL DEF Spec

-----------------------------------------------------------------------------
(* Contract numbers.  The inductive invariant adds to the two properties   *)
(* that every number is at most the counter, and what a submit knows after *)
(* each of its statements.                                                 *)

NumberingInv ==
    /\ \A c \in Cases : contract[c].global <= globalNo
    /\ \A c \in Cases : Numbered(c) => contract[c].global > 0
    /\ GlobalNumbersUnique
    /\ SubmittedHasNumber
    /\ \A r \in Requests : req[r].pc = "number" => req[r].draws
    /\ \A r \in Requests : req[r].pc = "gate" /\ ~req[r].draws => Numbered(req[r].case)
    /\ \A r \in Requests : req[r].pc = "advance" => Numbered(req[r].case)

\* With no case and the counter at zero the numbering invariant holds.
THEOREM InitNumbering == Init => NumberingInv
  BY DEF Init, NumberingInv, GlobalNumbersUnique, SubmittedHasNumber, Numbered,
         NoContract, Idle

\* A request that is not inside transition.
Quiet(q) ==
    q \in Request /\ ~q.draws /\ q.pc \notin {"gate", "number", "advance"}

\* A slot with no request in it is outside transition.
LEMMA IdleQuiet == Quiet(Idle)
  BY IdleRequest, SMTT(60) DEF Quiet, Idle

\* Every other first statement fills the slot with a quiet request.
LEMMA QuietStart ==
  ASSUME TypeOK, NEW r \in Requests, StartRequest(r),
         \A u \in Users, c \in Cases, rule \in TRANSITIONS :
            ~TransitionRead(r, u, c, rule)
  PROVE  /\ \E q : Quiet(q) /\ req' = [req EXCEPT ![r] = q]
         /\ UNCHANGED dbVars
<1>1. ASSUME NEW u \in Users, NEW src \in Cases \cup {NoCase}, CreateRead(r, u, src)
      PROVE  \E q : Quiet(q) /\ req' = [req EXCEPT ![r] = q]
  <2> DEFINE q == [Idle EXCEPT !.pc = "create", !.user = u, !.src = src,
                               !.no = NextNumber(BranchOf[u])]
  <2>1. Quiet(q)
    BY IdleRequest, NextNumberType DEF Request, Quiet, Idle
  <2>2. req' = [req EXCEPT ![r] = q]
    BY <1>1 DEF CreateRead, Begin
  <2> QED
    BY <2>1, <2>2
<1>2. ASSUME NEW u \in Users, NEW c \in Cases,
             EditRead(r, u, c) \/ ArchiveRead(r, u, c) \/ RestoreRead(r, u, c)
      PROVE  \E q : Quiet(q) /\ req' = [req EXCEPT ![r] = q]
  <2>1. PICK pc \in {"edit", "archive", "restore"} :
           req' = [req EXCEPT ![r] = [Idle EXCEPT !.pc = pc, !.case = c]]
    BY <1>2 DEF EditRead, ArchiveRead, RestoreRead, Begin
  <2>2. Quiet([Idle EXCEPT !.pc = pc, !.case = c])
    BY IdleRequest DEF Request, Quiet, Idle
  <2> QED
    BY <2>1, <2>2
<1> QED
  BY <1>1, <1>2, ZenonT(60) DEF StartRequest, CreateRead, EditRead, ArchiveRead, RestoreRead

\* A step that leaves contract numbers, the counter and the status alone keeps
\* the invariant when each slot is unchanged or starts outside transition.
LEMMA OtherStepsNumbering ==
  ASSUME TypeOK, NumberingInv, NEW r \in Requests, NEW q \in Request,
         req' = [req EXCEPT ![r] = q],
         q.pc \notin {"gate", "number", "advance"},
         UNCHANGED <<contract, globalNo>>,
         \A c \in Cases : status'[c] = status[c] \/ status'[c] = "DRAFT"
  PROVE  NumberingInv'
  BY DEF NumberingInv, TypeOK, GlobalNumbersUnique, SubmittedHasNumber, Numbered

\* Every statement keeps the numbering invariant: the counter moves and the
\* number is stored in one database transaction (nextCounter).
LEMMA StepNumbering ==
  ASSUME TypeOK, NumberingInv, [Next]_vars
  PROVE  NumberingInv'
<1>1. ASSUME NEW r \in Requests, StartRequest(r),
             \A u \in Users, c \in Cases, rule \in TRANSITIONS :
                ~TransitionRead(r, u, c, rule)
      PROVE  NumberingInv'
  BY <1>1, QuietStart, OtherStepsNumbering DEF Quiet, dbVars
<1>2. ASSUME NEW r \in Requests, NEW c \in Cases, NEW full \in BOOLEAN,
             CreateWrite(r, c, full)
      PROVE  NumberingInv'
  BY <1>2, IdleRequest, OtherStepsNumbering DEF CreateWrite, Finish, Idle, TypeOK
<1>3. ASSUME NEW r \in Requests, NEW full \in BOOLEAN,
             \/ CreateClash(r) \/ GateRefuse(r) \/ Abort(r)
             \/ EditWrite(r, full) \/ ArchiveWrite(r)
      PROVE  NumberingInv'
  BY <1>3, IdleRequest, OtherStepsNumbering
     DEF CreateClash, GateRefuse, Abort, EditWrite, ArchiveWrite, Finish, Idle, dbVars
<1>4. ASSUME NEW r \in Requests, NEW u \in Users, NEW c \in Cases,
             NEW rule \in TRANSITIONS, TransitionRead(r, u, c, rule)
      PROVE  NumberingInv'
  <2> DEFINE draws == IsSubmit(rule) /\ ~Numbered(c)
  <2> DEFINE q == [Idle EXCEPT
            !.pc    = IF IsSubmit(rule) THEN "gate" ELSE "advance",
            !.case  = c,
            !.to    = rule.to,
            !.draws = draws,
            !.mfl   = IF draws THEN SourceMfl(c) ELSE NoMfl]
  <2>1. req' = [req EXCEPT ![r] = q] /\ UNCHANGED <<status, contract, globalNo>>
    BY <1>4 DEF TransitionRead, Transition, Begin, dbVars
  <2>2. /\ q.case = c
        /\ q.pc = "gate" \/ q.pc = "advance"
        /\ q.pc = "gate" /\ ~q.draws => Numbered(c)
    BY DEF Idle
  <2>3. q.pc = "advance" => Numbered(c)
    <3>1. q.pc = "advance" => rule.from # "DRAFT" /\ rule.from # "NONE"
      BY RuleTypes DEF Idle, Workflow
    <3>2. rule.from = status[c]
      BY <1>4 DEF TransitionRead
    <3> QED
      BY <3>1, <3>2 DEF NumberingInv, SubmittedHasNumber
  <2> HIDE DEF q
  <2> QED
    BY <2>1, <2>2, <2>3
       DEF NumberingInv, TypeOK, GlobalNumbersUnique, SubmittedHasNumber, Numbered
<1>5. ASSUME NEW r \in Requests, GatePass(r)
      PROVE  NumberingInv'
  BY <1>5 DEF GatePass, At, dbVars, NumberingInv, TypeOK, Request,
     GlobalNumbersUnique, SubmittedHasNumber, Numbered
<1>6. ASSUME NEW r \in Requests, IssueContract(r)
      PROVE  NumberingInv'
  <2>0. PICK k \in Cases : k = req[r].case
    BY <1>6 DEF TypeOK, IssueContract, At
  <2>1. globalNo \in Nat /\ contract \in [Cases -> Contract]
    BY DEF TypeOK
  <2>2. globalNo' = globalNo + 1
    BY <1>6 DEF IssueContract, NextCounter
  <2>3. contract'[k].global = globalNo' /\ \A c \in Cases \ {k} : contract'[c] = contract[c]
    BY <1>6, <2>0, <2>1 DEF IssueContract
  <2>4. \A c \in Cases : contract[c].global \in Nat /\ contract[c].global <= globalNo
    BY <2>1 DEF Contract, NumberingInv
  <2>5. Numbered(k)' /\ \A c \in Cases : Numbered(c) => Numbered(c)'
    <3>1. NoContract.global = 0 /\ contract'[k].global # 0
      BY <2>1, <2>2, <2>3 DEF NoContract
    <3> QED
      BY <2>3, <3>1 DEF Numbered
  <2>6. GlobalNumbersUnique'
    BY <2>1, <2>2, <2>3, <2>4 DEF GlobalNumbersUnique, NumberingInv, Numbered
  <2>7. \A c \in Cases : contract'[c].global <= globalNo'
    BY <2>1, <2>2, <2>3, <2>4
  <2>8. \A c \in Cases : Numbered(c)' => contract'[c].global > 0
    BY <2>1, <2>2, <2>3, <2>4 DEF NumberingInv, Numbered
  <2>9. SubmittedHasNumber'
    BY <1>6, <2>5 DEF IssueContract, SubmittedHasNumber, NumberingInv
  <2>10. /\ req'[r].pc = "advance" /\ req'[r].case = k
         /\ \A q \in Requests \ {r} : req'[q] = req[q]
    BY <1>6, <2>0 DEF IssueContract, TypeOK, Request
  <2>11. ASSUME NEW q \in Requests
         PROVE  /\ req'[q].pc = "number" => req'[q].draws
                /\ req'[q].pc = "gate" /\ ~req'[q].draws => Numbered(req[q].case)'
                /\ req'[q].pc = "advance" => Numbered(req[q].case)'
    <3>1. CASE q = r
      BY <2>5, <2>10, <3>1 DEF Numbered
    <3>2. CASE q # r
      <4>1. req'[q] = req[q]
        BY <2>10, <3>2
      <4>2. req[q].pc \in {"gate", "advance"} => req[q].case \in Cases
        BY DEF TypeOK
      <4> QED
        BY <2>5, <4>1, <4>2 DEF NumberingInv, Numbered
    <3> QED
      BY <3>1, <3>2
  <2> QED
    BY <2>6, <2>7, <2>8, <2>9, <2>11 DEF NumberingInv
<1>7. ASSUME NEW r \in Requests, Advance(r)
      PROVE  NumberingInv'
  BY <1>7 DEF Advance, At, Finish, Idle, NumberingInv, TypeOK,
     GlobalNumbersUnique, SubmittedHasNumber, Numbered
<1>8. ASSUME YearEnds \/ UNCHANGED vars
      PROVE  NumberingInv'
  BY <1>8 DEF YearEnds, vars, dbVars, NumberingInv, GlobalNumbersUnique,
     SubmittedHasNumber, Numbered
<1> QED
  BY <1>1, <1>2, <1>3, <1>4, <1>5, <1>6, <1>7, <1>8 DEF Next, ContinueRequest

\* The inductive invariant holds in every reachable state.
THEOREM NumberingInvariant == Spec => []NumberingInv
<1>1. TypeOK /\ NumberingInv /\ [Next]_vars => NumberingInv'
  BY StepNumbering
<1> QED
  BY InitNumbering, <1>1, TypeCorrect, PTL DEF Spec

\* However submits overlap, abort or are repeated, two cases never share a
\* company-wide contract number (nextCounter under the counter's row lock).
THEOREM GlobalNumbersNeverShared == Spec => []GlobalNumbersUnique
<1>1. NumberingInv => GlobalNumbersUnique
  BY DEF NumberingInv
<1> QED
  BY <1>1, NumberingInvariant, PTL

\* A case past DRAFT always carries a contract number, whichever of several
\* racing submits wrote its status (the order of statements in transition).
THEOREM SubmittedCasesNumbered == Spec => []SubmittedHasNumber
<1>1. NumberingInv => SubmittedHasNumber
  BY DEF NumberingInv
<1> QED
  BY <1>1, NumberingInvariant, PTL

-----------------------------------------------------------------------------
(* Races settle.  Only a request inside transition can number or move a    *)
(* case; every other step puts a quiet request into one slot, or none.     *)

\* The steps of the requests that are not inside transition.
LEMMA QuietContinue ==
  ASSUME TypeOK, NEW r \in Requests,
         \/ \E c \in Cases, full \in BOOLEAN : CreateWrite(r, c, full)
         \/ CreateClash(r)
         \/ \E full \in BOOLEAN : EditWrite(r, full)
         \/ ArchiveWrite(r) \/ GateRefuse(r) \/ Abort(r)
  PROVE  /\ Quiet(Idle) /\ req' = [req EXCEPT ![r] = Idle]
         /\ UNCHANGED contract
         /\ \A c \in Cases : status[c] \in Terminal => status'[c] = status[c]
<1>1. CASE \E d \in Cases, full \in BOOLEAN : CreateWrite(r, d, full)
  <2>1. PICK d \in Cases : /\ status[d] = "NONE"
                           /\ status' = [status EXCEPT ![d] = "DRAFT"]
                           /\ Finish(r) /\ UNCHANGED contract
    BY <1>1 DEF CreateWrite, Exists
  <2> QED
    BY <2>1, IdleQuiet DEF Finish, TypeOK, Terminal
<1>2. CASE \/ CreateClash(r) \/ (\E full \in BOOLEAN : EditWrite(r, full))
           \/ ArchiveWrite(r) \/ GateRefuse(r) \/ Abort(r)
  BY <1>2, IdleQuiet
     DEF CreateClash, EditWrite, ArchiveWrite, GateRefuse, Abort, Finish, dbVars
<1> QED
  BY <1>1, <1>2

\* What one step may do to the requests that can still number a case or move
\* a closed one, and to the case itself when none is left.
LEMMA StepSettles ==
  ASSUME TypeOK, NumberingInv, [Next]_vars, NEW c \in Cases
  PROVE  /\ Numbered(c) =>
               /\ Numberers(c)' \subseteq Numberers(c)
               /\ Numberers(c) = {} => contract'[c] = contract[c]
         /\ status[c] \in Terminal =>
               /\ Movers(c)' \subseteq Movers(c)
               /\ Movers(c) = {} => status'[c] = status[c]
<1> DEFINE Goal ==
       /\ Numbered(c) => /\ Numberers(c)' \subseteq Numberers(c)
                         /\ Numberers(c) = {} => contract'[c] = contract[c]
       /\ status[c] \in Terminal => /\ Movers(c)' \subseteq Movers(c)
                                    /\ Movers(c) = {} => status'[c] = status[c]
<1>1. ASSUME NEW r \in Requests, NEW q, Quiet(q), req' = [req EXCEPT ![r] = q],
             UNCHANGED contract, status[c] \in Terminal => status'[c] = status[c]
      PROVE  Goal
  BY <1>1 DEF Quiet, Numberers, Movers, TypeOK
<1>2. ASSUME NEW r \in Requests, NEW u \in Users, NEW d \in Cases,
             NEW rule \in TRANSITIONS, TransitionRead(r, u, d, rule)
      PROVE  Goal
  <2>1. PICK q \in Request :
           /\ req' = [req EXCEPT ![r] = q]
           /\ q.case = d
           /\ q.draws <=> IsSubmit(rule) /\ ~Numbered(d)
    <3> DEFINE draws == IsSubmit(rule) /\ ~Numbered(d)
    <3> DEFINE q == [Idle EXCEPT
            !.pc    = IF IsSubmit(rule) THEN "gate" ELSE "advance",
            !.case  = d,
            !.to    = rule.to,
            !.draws = draws,
            !.mfl   = IF draws THEN SourceMfl(d) ELSE NoMfl]
    <3>1. SourceMfl(d) \in Mfl /\ NoMfl \in Mfl
      BY YearAssumption, CasesAssumption DEF SourceMfl, Contract, NoMfl, Mfl, TypeOK
    <3>2. q \in Request
      BY <3>1, IdleRequest, RuleTypes, ZenonT(60) DEF Request, Statuses, Idle
    <3>3. q.case = d /\ (q.draws <=> draws)
      BY DEF Idle
    <3>4. req' = [req EXCEPT ![r] = q]
      BY <1>2 DEF TransitionRead, Transition, Begin
    <3> QED
      BY <3>2, <3>3, <3>4
  <2>2. UNCHANGED <<status, contract>> /\ status[d] \notin Terminal
    BY <1>2, RuleTypes DEF TransitionRead, Transition, dbVars
  <2> QED
    BY <2>1, <2>2 DEF Numberers, Movers, TypeOK
<1>3. ASSUME NEW r \in Requests, GatePass(r)
      PROVE  Goal
  BY <1>3 DEF GatePass, At, dbVars, Numberers, Movers, TypeOK, Request
<1>4. ASSUME NEW r \in Requests, IssueContract(r)
      PROVE  Goal
  <2>1. /\ \A d \in Cases : d # req[r].case => contract'[d] = contract[d]
        /\ UNCHANGED status
        /\ req[r].pc = "number" /\ req[r].draws
        /\ req'[r].case = req[r].case /\ ~req'[r].draws
        /\ \A q \in Requests \ {r} : req'[q] = req[q]
    BY <1>4 DEF IssueContract, At, NumberingInv, TypeOK, Request
  <2>2. r \in Movers(req[r].case) /\ r \in Numberers(req[r].case)
    BY <2>1 DEF Movers, Numberers
  <2> QED
    BY <2>1, <2>2 DEF Numberers, Movers
<1>5. ASSUME NEW r \in Requests, Advance(r)
      PROVE  Goal
  <2>1. /\ \A d \in Cases : d # req[r].case => status'[d] = status[d]
        /\ UNCHANGED contract
        /\ r \in Movers(req[r].case)
        /\ req' = [req EXCEPT ![r] = Idle]
    BY <1>5 DEF Advance, At, Finish, Movers, TypeOK
  <2> QED
    BY <2>1, IdleQuiet DEF Numberers, Movers, Quiet, TypeOK
<1>6. ASSUME YearEnds \/ UNCHANGED vars
      PROVE  Goal
  BY <1>6 DEF YearEnds, vars, dbVars, Numberers, Movers
<1>7. ASSUME NEW r \in Requests, StartRequest(r)
      PROVE  Goal
  <2>1. CASE \E u \in Users, d \in Cases, rule \in TRANSITIONS : TransitionRead(r, u, d, rule)
    BY <2>1, <1>2
  <2>2. CASE \A u \in Users, d \in Cases, rule \in TRANSITIONS : ~TransitionRead(r, u, d, rule)
    BY <1>1, <1>7, <2>2, QuietStart DEF dbVars
  <2> QED
    BY <2>1, <2>2
<1>8. ASSUME NEW r \in Requests, ContinueRequest(r)
      PROVE  Goal
  <2>1. \/ GatePass(r) \/ IssueContract(r) \/ Advance(r)
        \/ /\ Quiet(Idle) /\ req' = [req EXCEPT ![r] = Idle] /\ UNCHANGED contract
           /\ \A d \in Cases : status[d] \in Terminal => status'[d] = status[d]
    BY <1>8, QuietContinue DEF ContinueRequest
  <2> QED
    BY <2>1, <1>1, <1>3, <1>4, <1>5
<1> QED
  BY <1>6, <1>7, <1>8 DEF Next

\* A contract number is replaced only by a submit that had read the case
\* before it was numbered; when none is left the number is final.
THEOREM ContractNumbersSettle == Spec => NumberSettles
<1>1. TypeOK /\ NumberingInv /\ [Next]_vars =>
        [\A c \in Cases : Numbered(c) =>
            /\ Numberers(c)' \subseteq Numberers(c)
            /\ Numberers(c) = {} => contract'[c] = contract[c]]_vars
  BY StepSettles
<1> QED
  BY <1>1, TypeCorrect, NumberingInvariant, PTL DEF Spec, NumberSettles

\* A closed case is moved only by a request that had read it while it was
\* open; when none is left it stays closed (TRANSITIONS has no way out).
THEOREM ClosedCasesSettle == Spec => ClosedSettles
<1>1. TypeOK /\ NumberingInv /\ [Next]_vars =>
        [\A c \in Cases : status[c] \in Terminal =>
            /\ Movers(c)' \subseteq Movers(c)
            /\ Movers(c) = {} => status'[c] = status[c]]_vars
  BY StepSettles
<1> QED
  BY <1>1, TypeCorrect, NumberingInvariant, PTL DEF Spec, ClosedSettles

\* What one step may do to the deletes and saves of a case that has left
\* DRAFT, and to its archive mark and its content when none of them is left.
LEMMA StepStarted ==
  ASSUME TypeOK, [Next]_vars, NEW c \in Cases, status[c] \notin {"NONE", "DRAFT"}
  PROVE  /\ Archivers(c)' \subseteq Archivers(c)
         /\ Archivers(c) = {} => (archived'[c] => archived[c])
         /\ Editors(c)' \subseteq Editors(c)
         /\ Editors(c) = {} => complete'[c] = complete[c]
<1> DEFINE Goal == /\ Archivers(c)' \subseteq Archivers(c)
                   /\ Archivers(c) = {} => (archived'[c] => archived[c])
                   /\ Editors(c)' \subseteq Editors(c)
                   /\ Editors(c) = {} => complete'[c] = complete[c]
<1>1. ASSUME NEW r \in Requests, NEW q,
             \A s \in Requests \ {r} : req'[s] = req[s],
             req'[r] = q, q.pc \in {"archive", "edit"} => q.case # c
      PROVE  Archivers(c)' \subseteq Archivers(c) /\ Editors(c)' \subseteq Editors(c)
  BY <1>1 DEF Archivers, Editors
<1>2. ASSUME NEW r \in Requests, NEW q, req' = [req EXCEPT ![r] = q],
             q.pc \in {"archive", "edit"} => q.case # c,
             UNCHANGED <<archived, complete>>
      PROVE  Goal
  <2>1. req'[r] = q /\ \A s \in Requests \ {r} : req'[s] = req[s]
    BY <1>2 DEF TypeOK
  <2> QED
    BY <1>1, <1>2, <2>1
<1>3. ASSUME NEW r \in Requests, StartRequest(r)
      PROVE  Goal
  <2>1. CASE \E u \in Users, rule \in TRANSITIONS, d \in Cases :
                TransitionRead(r, u, d, rule)
    <3>1. PICK q : /\ req' = [req EXCEPT ![r] = q] /\ q.pc \in {"gate", "advance"}
                   /\ UNCHANGED <<archived, complete>>
      BY <2>1, ZenonT(60) DEF TransitionRead, Transition, Begin, dbVars, Idle
    <3> QED
      BY <1>2, <3>1
  <2>2. CASE \E u \in Users, src \in Cases \cup {NoCase} : CreateRead(r, u, src)
    <3>1. PICK q : /\ req' = [req EXCEPT ![r] = q] /\ q.pc = "create"
                   /\ UNCHANGED <<archived, complete>>
      BY <2>2 DEF CreateRead, Begin, dbVars, Idle
    <3> QED
      BY <1>2, <3>1
  <2>3. CASE \E u \in Users, d \in Cases :
                EditRead(r, u, d) \/ ArchiveRead(r, u, d) \/ RestoreRead(r, u, d)
    <3>1. PICK d \in Cases, pc \in {"edit", "archive", "restore"} :
             /\ req' = [req EXCEPT ![r] = [Idle EXCEPT !.pc = pc, !.case = d]]
             /\ pc \in {"archive", "edit"} => status[d] = "DRAFT"
             /\ UNCHANGED <<archived, complete>>
      BY <2>3, ZenonT(60) DEF EditRead, ArchiveRead, RestoreRead, Begin, dbVars
    <3> DEFINE q == [Idle EXCEPT !.pc = pc, !.case = d]
    <3>2. q.pc = pc /\ q.case = d
      BY DEF Idle
    <3>3. q.pc \in {"archive", "edit"} => q.case # c
      BY <3>1, <3>2
    <3> QED
      BY <1>2, <3>1, <3>3
  <2> QED
    BY <1>3, <2>1, <2>2, <2>3 DEF StartRequest
<1>4. ASSUME NEW r \in Requests, ArchiveWrite(r) \/ (\E full \in BOOLEAN : EditWrite(r, full))
      PROVE  Goal
  <2>1. req' = [req EXCEPT ![r] = Idle] /\ Idle.pc \notin {"archive", "edit"}
    BY <1>4 DEF ArchiveWrite, EditWrite, Finish, Idle
  <2>2. req'[r] = Idle /\ \A s \in Requests \ {r} : req'[s] = req[s]
    BY <2>1 DEF TypeOK
  <2>3. Archivers(c)' \subseteq Archivers(c) /\ Editors(c)' \subseteq Editors(c)
    BY <1>1, <2>1, <2>2
  <2>4. ASSUME ArchiveWrite(r), Archivers(c) = {} PROVE archived'[c] => archived[c]
    <3>1. archived' = [archived EXCEPT ![req[r].case] = (req[r].pc = "archive")]
      BY <2>4 DEF ArchiveWrite
    <3>2. ~(req[r].pc = "archive" /\ req[r].case = c)
      BY <2>4 DEF Archivers
    <3> QED
      BY <3>1, <3>2 DEF TypeOK
  <2>5. ASSUME NEW full \in BOOLEAN, EditWrite(r, full), Editors(c) = {}
        PROVE  complete'[c] = complete[c]
    <3>1. req[r].case # c
      BY <2>5 DEF EditWrite, At, Editors
    <3> QED
      BY <2>5, <3>1 DEF EditWrite, TypeOK
  <2>6. /\ ArchiveWrite(r) => complete' = complete
        /\ \A full \in BOOLEAN : EditWrite(r, full) => archived' = archived
    BY DEF ArchiveWrite, EditWrite
  <2> QED
    BY <1>4, <2>3, <2>4, <2>5, <2>6
<1>5. ASSUME NEW r \in Requests, NEW d \in Cases, NEW full \in BOOLEAN,
             CreateWrite(r, d, full)
      PROVE  Goal
  <2>1. d # c
    BY <1>5 DEF CreateWrite, Exists
  <2>2. /\ archived'[c] = archived[c] /\ complete'[c] = complete[c]
        /\ req' = [req EXCEPT ![r] = Idle]
    BY <1>5, <2>1 DEF CreateWrite, Finish, TypeOK
  <2>3. /\ req'[r] = Idle /\ \A s \in Requests \ {r} : req'[s] = req[s]
        /\ Idle.pc \notin {"archive", "edit"}
    BY <2>2 DEF Idle, TypeOK
  <2> QED
    BY <1>1, <2>2, <2>3
<1>6. ASSUME NEW r \in Requests,
             CreateClash(r) \/ GateRefuse(r) \/ Advance(r) \/ Abort(r)
      PROVE  Goal
  <2>1. UNCHANGED <<archived, complete>> /\ req' = [req EXCEPT ![r] = Idle]
    BY <1>6 DEF CreateClash, GateRefuse, Advance, Abort, Finish, dbVars
  <2> QED
    BY <1>2, <2>1 DEF Idle
<1>7. ASSUME NEW r \in Requests, GatePass(r) \/ IssueContract(r)
      PROVE  Goal
  <2>1. /\ UNCHANGED <<archived, complete>> /\ req'[r].pc \notin {"archive", "edit"}
        /\ \A s \in Requests \ {r} : req'[s] = req[s]
    BY <1>7 DEF GatePass, IssueContract, At, dbVars, TypeOK, Request
  <2> QED
    BY <1>1, <2>1
<1>8. ASSUME YearEnds \/ UNCHANGED vars
      PROVE  Goal
  BY <1>8 DEF YearEnds, vars, dbVars, Archivers, Editors
<1> QED
  BY <1>3, <1>4, <1>5, <1>6, <1>7, <1>8 DEF Next, ContinueRequest

\* A case that has left DRAFT is archived or edited only by a delete or a save
\* that had read it as a draft; when none is left it is neither (deleteCase,
\* updateCase, saveSection).
THEOREM StartedCasesSettle == Spec => StartedSettles
<1>1. TypeOK /\ [Next]_vars =>
        [\A c \in Cases : status[c] \notin {"NONE", "DRAFT"} =>
            /\ Archivers(c)' \subseteq Archivers(c)
            /\ Archivers(c) = {} => (archived'[c] => archived[c])
            /\ Editors(c)' \subseteq Editors(c)
            /\ Editors(c) = {} => complete'[c] = complete[c]]_vars
  BY StepStarted
<1> QED
  BY <1>1, TypeCorrect, PTL DEF Spec, StartedSettles

-----------------------------------------------------------------------------
(* Application numbers.  nextNumber counts rows, so its answer is free only *)
(* while the ordinals of a prefix have no hole: the invariant says that,    *)
(* and that a create in flight never holds more than the next ordinal.      *)

Ordinals(b, y) == {number[c].n : c \in WithPrefix(b, y)}

Moving(q) == q.pc \in {"gate", "number", "advance"}

DenseInv ==
    /\ \A b \in Branches, y \in Years :
          Ordinals(b, y) = 1..Cardinality(WithPrefix(b, y))
    /\ \A r \in Requests : req[r].pc = "create" =>
          /\ req[r].no.n > 0
          /\ req[r].no.n <= Cardinality(WithPrefix(req[r].no.branch, req[r].no.year)) + 1
    /\ \A r \in Requests : Moving(req[r]) =>
          req[r].to \in Workflow /\ Exists(req[r].case)

\* The rows of a prefix are finitely many.
LEMMA PrefixFinite ==
  ASSUME NEW b, NEW y
  PROVE  /\ IsFiniteSet(WithPrefix(b, y))
         /\ Cardinality(WithPrefix(b, y)) \in Nat
<1>1. WithPrefix(b, y) \in SUBSET Cases
  BY DEF WithPrefix
<1> QED
  BY <1>1, CasesAssumption, FS_Subset, FS_CardinalityType

\* When the ordinals have no hole, the number a create would take is free.
LEMMA DenseMeansFree ==
  ASSUME TypeOK, DenseInv, NEW u \in Users
  PROVE  ~Taken(NextNumber(BranchOf[u]))
<1> DEFINE b == BranchOf[u]
<1> DEFINE k == Cardinality(WithPrefix(b, year))
<1>1. b \in Branches /\ year \in Years /\ k \in Nat
  BY PrefixFinite DEF Branches, TypeOK
<1>2. ASSUME NEW c \in Cases, Exists(c), number[c] = NextNumber(b)
      PROVE  FALSE
  <2>1. number[c].branch = b /\ number[c].year = year /\ number[c].n = k + 1
    BY <1>2 DEF NextNumber, CaseNo
  <2>2. number[c].n \in Ordinals(b, year)
    BY <1>2, <2>1 DEF Ordinals, WithPrefix
  <2>3. Ordinals(b, year) = 1..k
    BY <1>1 DEF DenseInv
  <2> HIDE DEF k
  <2> QED
    BY <1>1, <2>1, <2>2, <2>3
<1> QED
  BY <1>2 DEF Taken

\* No row of any prefix changes when statuses of existing rows move inside
\* the workflow and numbers stay.
LEMMA PrefixStable ==
  ASSUME UNCHANGED number, \A c \in Cases : Exists(c)' <=> Exists(c),
         NEW b, NEW y
  PROVE  WithPrefix(b, y)' = WithPrefix(b, y) /\ Ordinals(b, y)' = Ordinals(b, y)
<1>1. WithPrefix(b, y)' = WithPrefix(b, y)
  BY DEF WithPrefix
<1> QED
  BY <1>1 DEF Ordinals

\* A step that inserts no row keeps the ordinals dense, when a create that
\* begins holds the next number and a move that begins is of a stored case.
LEMMA DenseStable ==
  ASSUME TypeOK, DenseInv, UNCHANGED number,
         \A c \in Cases : Exists(c)' <=> Exists(c),
         \A r \in Requests : req'[r].pc = "create" =>
             \/ req'[r] = req[r]
             \/ \E u \in Users : req'[r].no = NextNumber(BranchOf[u]),
         \A r \in Requests : Moving(req'[r]) =>
             \E to \in Workflow, c \in Cases :
                 Exists(c) /\ req'[r].to = to /\ req'[r].case = c
  PROVE  DenseInv'
<1>1. \A b, y : /\ WithPrefix(b, y)' = WithPrefix(b, y)
                /\ Ordinals(b, y)' = Ordinals(b, y)
                /\ Cardinality(WithPrefix(b, y)) \in Nat
  BY PrefixStable, PrefixFinite
<1>2. ASSUME NEW r \in Requests, req'[r].pc = "create"
      PROVE  /\ req'[r].no.n > 0
             /\ req'[r].no.n <= Cardinality(WithPrefix(req'[r].no.branch, req'[r].no.year)) + 1
  <2>1. CASE req'[r] = req[r]
    BY <1>2, <2>1 DEF DenseInv
  <2>2. CASE \E u \in Users : req'[r].no = NextNumber(BranchOf[u])
    BY <1>1, <2>2 DEF NextNumber, CaseNo
  <2> QED
    BY <1>2, <2>1, <2>2
<1>3. \A b \in Branches, y \in Years :
         Ordinals(b, y)' = 1..Cardinality(WithPrefix(b, y)')
  BY <1>1 DEF DenseInv
<1>4. \A r \in Requests : Moving(req'[r]) =>
         req'[r].to \in Workflow /\ status'[req'[r].case] # "NONE"
  BY DEF Exists
<1> QED
  BY <1>1, <1>2, <1>3, <1>4 DEF DenseInv, Moving, Exists

\* Inserting a row takes the ordinal right after the last one.
LEMMA CreateDense ==
  ASSUME TypeOK, TypeOK', DenseInv, NEW r \in Requests, NEW c \in Cases,
         NEW full \in BOOLEAN, CreateWrite(r, c, full)
  PROVE  DenseInv'
<1>1. PICK no \in CaseNumber : no = req[r].no
  BY DEF TypeOK, Request
<1> DEFINE W == WithPrefix(no.branch, no.year)
<1> DEFINE k == Cardinality(W)
<1>2. k \in Nat /\ IsFiniteSet(W) /\ c \notin W
  <2>1. ~Exists(c)
    BY DEF CreateWrite
  <2>2. c \notin W
    BY <2>1 DEF WithPrefix
  <2> QED
    BY <2>2, PrefixFinite
<1>3. no.branch \in Branches /\ no.year \in Years /\ no.n \in Nat
  BY <1>1 DEF CaseNumber
<1>4. /\ \A d \in Cases : Exists(d)' <=> Exists(d) \/ d = c
      /\ number' = [number EXCEPT ![c] = no]
      /\ req' = [req EXCEPT ![r] = Idle]
      /\ req[r].pc = "create" /\ ~Taken(no) /\ ~Exists(c)
  BY <1>1 DEF CreateWrite, Exists, TypeOK, Finish, At
<1>5. no.n = k + 1
  <2>1. no.n > 0 /\ no.n <= k + 1
    BY <1>1, <1>4 DEF DenseInv
  <2>2. ASSUME no.n \in 1..k
        PROVE  FALSE
    <3>1. no.n \in Ordinals(no.branch, no.year)
      BY <1>3, <2>2 DEF DenseInv
    <3>2. PICK d \in W : number[d].n = no.n
      BY <3>1 DEF Ordinals
    <3>3. number[d] \in CaseNumber /\ number[d].branch = no.branch
          /\ number[d].year = no.year /\ Exists(d) /\ d \in Cases
      BY <3>2 DEF WithPrefix, TypeOK
    <3>4. number[d] = no
      BY <1>1, <3>2, <3>3 DEF CaseNumber
    <3> QED
      BY <1>4, <3>3, <3>4 DEF Taken
  <2> HIDE DEF k
  <2> QED
    BY <1>2, <1>3, <2>1, <2>2
<1>6. WithPrefix(no.branch, no.year)' = W \cup {c}
  BY <1>4 DEF WithPrefix, TypeOK
<1>7. \A b, y : <<b, y>> # <<no.branch, no.year>> => WithPrefix(b, y)' = WithPrefix(b, y)
  BY <1>4 DEF WithPrefix, TypeOK
<1>8. Cardinality(W \cup {c}) = k + 1
  BY <1>2, FS_AddElement
<1>9. ASSUME NEW b \in Branches, NEW y \in Years
      PROVE  /\ Ordinals(b, y)' = 1..Cardinality(WithPrefix(b, y)')
             /\ Cardinality(WithPrefix(b, y)) <= Cardinality(WithPrefix(b, y)')
  <2>1. CASE b = no.branch /\ y = no.year
    <3>1. Ordinals(b, y)' = Ordinals(b, y) \cup {k + 1}
      <4>1. \A d \in W : number'[d] = number[d] /\ d \in Cases
        BY <1>2, <1>4 DEF WithPrefix, TypeOK
      <4>2. number'[c].n = k + 1
        BY <1>4, <1>5 DEF TypeOK
      <4> QED
        BY <1>6, <2>1, <4>1, <4>2 DEF Ordinals
    <3>2. Ordinals(b, y) = 1..k
      BY <2>1 DEF DenseInv
    <3> HIDE DEF k, W
    <3>3. 1..(k + 1) = (1..k) \cup {k + 1} /\ k <= k + 1
      BY <1>2
    <3> QED
      BY <1>6, <1>8, <2>1, <3>1, <3>2, <3>3 DEF k, W
  <2>2. CASE <<b, y>> # <<no.branch, no.year>>
    <3>1. WithPrefix(b, y)' = WithPrefix(b, y)
      BY <1>7, <2>2
    <3>2. c \notin WithPrefix(b, y) /\ \A d \in WithPrefix(b, y) : number'[d] = number[d]
      BY <1>4 DEF WithPrefix, TypeOK
    <3>3. Ordinals(b, y)' = Ordinals(b, y)
      BY <3>1, <3>2 DEF Ordinals
    <3>4. Cardinality(WithPrefix(b, y)) \in Nat
      BY PrefixFinite
    <3> QED
      BY <3>1, <3>3, <3>4 DEF DenseInv
  <2> QED
    BY <2>1, <2>2
<1>10. ASSUME NEW q \in Requests, req'[q].pc = "create"
       PROVE  /\ req'[q].no.n > 0
              /\ req'[q].no.n <=
                    Cardinality(WithPrefix(req[q].no.branch, req[q].no.year)') + 1
  <2>1. q # r /\ req'[q] = req[q]
    BY <1>4, <1>10 DEF TypeOK, Idle
  <2>2. PICK b \in Branches, y \in Years, n \in Nat :
           b = req[q].no.branch /\ y = req[q].no.year /\ n = req[q].no.n
    BY DEF TypeOK, Request, CaseNumber
  <2>3. n > 0 /\ n <= Cardinality(WithPrefix(b, y)) + 1
    BY <1>10, <2>1, <2>2 DEF DenseInv
  <2>4. /\ Cardinality(WithPrefix(b, y)) <= Cardinality(WithPrefix(b, y)')
        /\ Cardinality(WithPrefix(b, y)) \in Nat
        /\ Cardinality(WithPrefix(b, y)') \in Nat
    <3>1. Cardinality(WithPrefix(b, y)) \in Nat
      BY PrefixFinite
    <3>2. Cardinality(WithPrefix(b, y)') \in Nat
      BY <1>2, <1>6, <1>7, <1>8, <3>1
    <3> QED
      BY <1>9, <3>1, <3>2
  <2>5. n <= Cardinality(WithPrefix(b, y)') + 1
    BY <2>3, <2>4
  <2>6. WithPrefix(req[q].no.branch, req[q].no.year)' = WithPrefix(b, y)'
    BY <2>1, <2>2 DEF WithPrefix
  <2> QED
    BY <2>1, <2>2, <2>3, <2>5, <2>6
<1>11. ASSUME NEW q \in Requests, Moving(req'[q])
       PROVE  req'[q].to \in Workflow /\ status'[req'[q].case] # "NONE"
  <2>1. q # r /\ req'[q] = req[q]
    BY <1>4, <1>11 DEF TypeOK, Idle, Moving
  <2>2. req[q].case \in Cases /\ Exists(req[q].case) /\ req[q].to \in Workflow
    BY <1>11, <2>1 DEF DenseInv, Moving, TypeOK
  <2> QED
    BY <1>4, <2>1, <2>2 DEF Exists
<1> QED
  BY <1>9, <1>10, <1>11 DEF DenseInv, Moving, Exists

\* Every statement keeps the ordinals of each prefix dense.
LEMMA StepDense ==
  ASSUME TypeOK, TypeOK', DenseInv, [Next]_vars
  PROVE  DenseInv'
<1>1. ASSUME NEW r \in Requests, StartRequest(r)
      PROVE  DenseInv'
  <2>1. CASE \E u \in Users, src \in Cases \cup {NoCase} : CreateRead(r, u, src)
    <3>1. PICK u \in Users, q \in Request :
             /\ req' = [req EXCEPT ![r] = q] /\ UNCHANGED dbVars
             /\ q.pc = "create" /\ q.no = NextNumber(BranchOf[u])
      <4>1. PICK u \in Users, src \in Cases \cup {NoCase} : CreateRead(r, u, src)
        BY <2>1
      <4> DEFINE q == [Idle EXCEPT !.pc = "create", !.user = u, !.src = src,
                                   !.no = NextNumber(BranchOf[u])]
      <4>2. q \in Request /\ q.pc = "create" /\ q.no = NextNumber(BranchOf[u])
        BY IdleRequest, NextNumberType, ZenonT(60) DEF Request, Idle
      <4>3. req' = [req EXCEPT ![r] = q] /\ UNCHANGED dbVars
        BY <4>1 DEF CreateRead, Begin
      <4> QED
        BY <4>2, <4>3
    <3> QED
      BY <3>1, DenseStable DEF dbVars, Exists, Moving, TypeOK, DenseInv
  <2>2. CASE \E u \in Users, c \in Cases :
                EditRead(r, u, c) \/ ArchiveRead(r, u, c) \/ RestoreRead(r, u, c)
    <3>1. PICK c \in Cases, pc \in {"edit", "archive", "restore"} :
             /\ req' = [req EXCEPT ![r] = [Idle EXCEPT !.pc = pc, !.case = c]]
             /\ UNCHANGED dbVars
      BY <2>2, ZenonT(60) DEF EditRead, ArchiveRead, RestoreRead, Begin
    <3> QED
      BY <3>1, DenseStable, SMTT(60) DEF dbVars, Exists, Moving, TypeOK, DenseInv, Idle
  <2>3. CASE \E u \in Users, c \in Cases, rule \in TRANSITIONS :
                TransitionRead(r, u, c, rule)
    <3>1. PICK u \in Users, c \in Cases, rule \in TRANSITIONS :
             TransitionRead(r, u, c, rule)
      BY <2>3
    <3>2. /\ \A q \in Requests \ {r} : req'[q] = req[q]
          /\ req'[r].pc # "create" /\ req'[r].to = rule.to /\ req'[r].case = c
          /\ UNCHANGED dbVars
      BY <3>1 DEF TransitionRead, Transition, Begin, TypeOK, Idle
    <3>3. rule.to \in Workflow /\ Exists(c)
      BY <3>1, RuleTypes DEF TransitionRead, Exists, Workflow
    <3> QED
      BY <3>2, <3>3, DenseStable DEF dbVars, Exists, Moving, TypeOK, DenseInv
  <2> QED
    BY <1>1, <2>1, <2>2, <2>3 DEF StartRequest
<1>2. ASSUME NEW r \in Requests,
             \/ CreateClash(r) \/ (\E full \in BOOLEAN : EditWrite(r, full))
             \/ ArchiveWrite(r) \/ GateRefuse(r) \/ Abort(r)
      PROVE  DenseInv'
  <2>1. req' = [req EXCEPT ![r] = Idle] /\ UNCHANGED <<status, number>>
    BY <1>2 DEF CreateClash, EditWrite, ArchiveWrite, GateRefuse, Abort, Finish, dbVars
  <2> QED
    BY <2>1, DenseStable DEF Exists, Moving, TypeOK, DenseInv, Idle
<1>3. ASSUME NEW r \in Requests, GatePass(r) \/ IssueContract(r)
      PROVE  DenseInv'
  <2>1. /\ \A q \in Requests \ {r} : req'[q] = req[q]
        /\ req'[r].pc # "create" /\ req'[r].to = req[r].to /\ req'[r].case = req[r].case
        /\ Moving(req[r]) /\ req[r].case \in Cases
        /\ UNCHANGED <<status, number>>
    BY <1>3 DEF GatePass, IssueContract, At, TypeOK, Request, Moving, dbVars
  <2>2. \A q \in Requests : Moving(req[q]) =>
           req[q].case \in Cases /\ Exists(req[q].case) /\ req[q].to \in Workflow
    BY DEF TypeOK, DenseInv, Moving
  <2>3. \A q \in Requests : Moving(req'[q]) =>
           /\ Moving(req[q]) /\ req'[q].case = req[q].case /\ req'[q].to = req[q].to
    BY <2>1
  <2>4. \A c \in Cases : Exists(c)' <=> Exists(c)
    BY <2>1 DEF Exists
  <2>5. \A q \in Requests : req'[q].pc = "create" => req'[q] = req[q]
    BY <2>1
  <2> QED
    BY <2>1, <2>2, <2>3, <2>4, <2>5, DenseStable
<1>4. ASSUME NEW r \in Requests, Advance(r)
      PROVE  DenseInv'
  <2>1. PICK c \in Cases : c = req[r].case /\ Exists(c) /\ req[r].to \in Workflow
    BY <1>4 DEF Advance, At, TypeOK, DenseInv, Moving
  <2>2. /\ status' = [status EXCEPT ![c] = req[r].to]
        /\ req' = [req EXCEPT ![r] = Idle] /\ UNCHANGED number
    BY <1>4, <2>1 DEF Advance, Finish
  <2>3. \A d \in Cases : Exists(d)' <=> Exists(d)
    BY <2>1, <2>2 DEF Exists, TypeOK, Workflow
  <2> QED
    BY <2>2, <2>3, DenseStable, ZenonT(60) DEF Moving, TypeOK, DenseInv, Idle
<1>5. ASSUME YearEnds \/ UNCHANGED vars
      PROVE  DenseInv'
  BY <1>5, DenseStable
     DEF YearEnds, vars, dbVars, Exists, Moving, TypeOK, DenseInv
<1> QED
  BY <1>1, <1>2, <1>3, <1>4, <1>5, CreateDense DEF Next, ContinueRequest

\* An empty table has no ordinals, so there is no hole.
LEMMA InitDense == Init => DenseInv
<1> SUFFICES ASSUME Init PROVE DenseInv
  OBVIOUS
<1>1. \A b, y : WithPrefix(b, y) = {}
  BY DEF Init, WithPrefix, Exists
<1>2. \A b, y : Ordinals(b, y) = {} /\ Cardinality(WithPrefix(b, y)) = 0
  BY <1>1, FS_EmptySet DEF Ordinals
<1>3. \A r \in Requests : req[r].pc = "idle"
  BY DEF Init, Idle
<1>4. 1..0 = {}
  OBVIOUS
<1>5. \A r \in Requests : ~Moving(req[r]) /\ req[r].pc # "create"
  BY <1>3 DEF Moving
<1> QED
  BY <1>2, <1>4, <1>5 DEF DenseInv

\* A create that nobody overtakes never meets a taken number: rows are never
\* deleted and the ordinals of a prefix have no hole (nextNumber).
THEOREM NextNumberAlwaysFree == Spec => []NextNumberFree
<1>1. TypeOK /\ TypeOK' /\ DenseInv /\ [Next]_vars => DenseInv'
  BY StepDense
<1>2. TypeOK /\ DenseInv => NextNumberFree
  BY DenseMeansFree DEF NextNumberFree
<1> QED
  BY InitDense, <1>1, <1>2, TypeCorrect, PTL DEF Spec

-----------------------------------------------------------------------------
(* Yearly numbers.  A number of the MFL identity is held by the cases that *)
(* carry it and by the submits that have read it from a source; all of     *)
(* them descend from one first case.  A drawn number is above every held   *)
(* one, and the source of a case is fixed before the case holds anything.  *)

\* Case c carries the MFL number m, or a submit of c is about to store it.
Holds(c, m) ==
    contract[c].mfl = m \/ \E r \in Requests : req[r].case = c /\ req[r].mfl = m

\* A row has a source that exists, and only once it exists itself.
SourcesInv ==
    /\ \A c \in Cases : source[c] # NoCase => Exists(c) /\ Exists(source[c])
    /\ \A r \in Requests :
          /\ req[r].pc = "create" /\ req[r].src # NoCase => Exists(req[r].src)
          /\ req[r].pc \in {"gate", "number", "advance"} =>
                Exists(req[r].case) /\ req[r].to # "NONE"

HeldInv ==
    /\ \A c \in Cases : Numbered(c) => contract[c].mfl # NoMfl
    /\ \A c \in Cases, m \in Mfl : m # NoMfl /\ Holds(c, m) =>
          Exists(c) /\ m.year \in Years /\ 0 < m.yearly /\ m.yearly <= yearlyNo[m.year]

\* R is what the recursion that defines Root has to give for the sources s,
\* and nothing else solves it.  Stated so, the recursion needs no induction
\* over the sources: each new case extends the solution by one value.
Solves(R, s)  == R = [c \in Cases |-> IF s[c] = NoCase THEN c ELSE R[s[c]]]
OneRoot(R, s) == Solves(R, s) /\ \A f : Solves(f, s) => f = R

FamilyInv ==
    \A c, d \in Cases, m \in Mfl :
        m # NoMfl /\ Holds(c, m) /\ Holds(d, m) => Root[c] = Root[d]

YearlyInv == SourcesInv /\ HeldInv /\ FamilyInv /\ OneRoot(Root, source)

\* Root is the solution of its recursion when there is exactly one.
LEMMA RootSolves ==
  ASSUME NEW R
  PROVE  /\ OneRoot(R, source) => Root = R
         /\ OneRoot(R, source') => Root' = R
<1>1. ASSUME OneRoot(R, source) PROVE Root = R
  <2>1. Solves(R, source)
    BY <1>1 DEF OneRoot
  <2>2. Root = CHOOSE f : Solves(f, source)
    BY Zenon DEF Root, Solves
  <2>3. Solves(Root, source)
    BY <2>1, <2>2, Zenon
  <2> QED
    BY <1>1, <2>3, Zenon DEF OneRoot
<1>2. ASSUME OneRoot(R, source') PROVE Root' = R
  <2>1. Solves(R, source')
    BY <1>2 DEF OneRoot
  <2>2. Root' = CHOOSE f : Solves(f, source')
    BY Zenon DEF Root, Solves
  <2>3. Solves(Root', source')
    BY <2>1, <2>2, Zenon
  <2> QED
    BY <1>2, <2>3, Zenon DEF OneRoot
<1> QED
  BY <1>1, <1>2

\* A case that nothing descends from gets its source: every other case keeps
\* its first case, and there is still one solution.
LEMMA RootGrows ==
  ASSUME source \in [Cases -> Cases \cup {NoCase}], OneRoot(Root, source),
         NEW c \in Cases, source[c] = NoCase, \A x \in Cases : source[x] # c,
         NEW src \in Cases \cup {NoCase}, src # c,
         source' = [source EXCEPT ![c] = src]
  PROVE  /\ OneRoot(Root', source')
         /\ \A x \in Cases : x # c => Root'[x] = Root[x]
<1> PICK s : s = source'
  OBVIOUS
<1> PICK R : R = Root
  OBVIOUS
<1> DEFINE N == [x \in Cases |-> IF x = c THEN IF src = NoCase THEN c ELSE R[src] ELSE R[x]]
<1>1. /\ s[c] = src /\ \A x \in Cases : x # c => s[x] = source[x] /\ s[x] # c
  OBVIOUS
<1>2. /\ OneRoot(R, source)
      /\ R = [x \in Cases |-> IF source[x] = NoCase THEN x ELSE R[source[x]]]
  BY DEF OneRoot, Solves
<1>3. Solves(N, s)
  <2>1. ASSUME NEW x \in Cases PROVE N[x] = IF s[x] = NoCase THEN x ELSE N[s[x]]
    <3>1. CASE x = c
      BY <1>1, <3>1, CasesAssumption
    <3>2. CASE x # c
      <4>1. s[x] = source[x] /\ s[x] # c /\ s[x] \in Cases \cup {NoCase}
        BY <1>1, <3>2
      <4>2. N[x] = R[x] /\ (s[x] # NoCase => N[s[x]] = R[s[x]])
        BY <3>2, <4>1
      <4>3. R[x] = IF source[x] = NoCase THEN x ELSE R[source[x]]
        BY <1>2, Zenon
      <4> QED
        BY <4>1, <4>2, <4>3
    <3> QED
      BY <3>1, <3>2
  <2>2. N = [x \in Cases |-> N[x]]
    OBVIOUS
  <2> HIDE DEF N
  <2> QED
    BY <2>1, <2>2 DEF Solves
<1>4. ASSUME NEW f, Solves(f, s) PROVE f = N
  <2> DEFINE g == [x \in Cases |-> IF x = c THEN c ELSE f[x]]
  <2>1. f = [x \in Cases |-> IF s[x] = NoCase THEN x ELSE f[s[x]]]
    BY <1>4 DEF Solves
  <2>2. \A x \in Cases : f[x] = IF s[x] = NoCase THEN x ELSE f[s[x]]
    BY <2>1, Zenon
  <2>3. Solves(g, source)
    <3>1. ASSUME NEW x \in Cases PROVE g[x] = IF source[x] = NoCase THEN x ELSE g[source[x]]
      <4>1. CASE x = c
        BY <4>1
      <4>2. CASE x # c
        <5>1. s[x] = source[x] /\ s[x] # c /\ s[x] \in Cases \cup {NoCase}
          BY <1>1, <4>2
        <5>2. g[x] = f[x] /\ (s[x] # NoCase => g[s[x]] = f[s[x]])
          BY <4>2, <5>1
        <5> QED
          BY <2>2, <5>1, <5>2
      <4> QED
        BY <4>1, <4>2
    <3>2. g = [x \in Cases |-> g[x]]
      OBVIOUS
    <3> HIDE DEF g
    <3> QED
      BY <3>1, <3>2 DEF Solves
  <2>4. g = R
    BY <1>2, <2>3, Zenon DEF OneRoot
  <2>5. \A x \in Cases : x # c => f[x] = R[x]
    BY <2>4
  <2>6. f[c] = IF src = NoCase THEN c ELSE R[src]
    BY <1>1, <2>2, <2>5
  <2>7. \A x \in Cases : f[x] = N[x]
    BY <2>5, <2>6
  <2> QED
    BY <2>1, <2>7
<1>5. OneRoot(N, s)
  BY <1>3, <1>4, Zenon DEF OneRoot
<1>6. Root' = N
  <2> HIDE DEF N
  <2> QED
    BY <1>5, RootSolves, Zenon
<1> QED
  BY <1>5, <1>6

\* As long as no source is set no case changes its first case.
LEMMA RootStays ==
  ASSUME OneRoot(Root, source), UNCHANGED source
  PROVE  Root' = Root /\ OneRoot(Root', source')
<1> PICK R : R = Root
  OBVIOUS
<1>1. OneRoot(R, source')
  BY Zenon
<1>2. Root' = R
  BY <1>1, RootSolves, Zenon
<1> QED
  BY <1>1, <1>2, Zenon

\* No case has a source or a number yet.
LEMMA InitYearly == Init => YearlyInv
<1> SUFFICES ASSUME Init PROVE YearlyInv
  OBVIOUS
<1>1. /\ \A c \in Cases : source[c] = NoCase /\ contract[c] = NoContract
      /\ \A r \in Requests : req[r].pc = "idle" /\ req[r].mfl = NoMfl
  BY DEF Init, Idle
<1>2. \A c \in Cases, m \in Mfl : Holds(c, m) => m = NoMfl
  BY <1>1 DEF Holds, NoContract
<1>3. SourcesInv /\ HeldInv /\ FamilyInv
  BY <1>1, <1>2 DEF SourcesInv, HeldInv, FamilyInv, Numbered
<1> DEFINE R == [c \in Cases |-> c]
<1>4. Solves(R, source)
  BY <1>1 DEF Solves
<1>5. ASSUME NEW f, Solves(f, source) PROVE f = R
  BY <1>1, <1>5 DEF Solves
<1> HIDE DEF R
<1>6. OneRoot(R, source)
  BY <1>4, <1>5, Zenon DEF OneRoot
<1>7. Root = R
  BY <1>6, RootSolves, Zenon
<1> QED
  BY <1>3, <1>6, <1>7 DEF YearlyInv

\* A step that fixes no source and lets nobody hold another MFL number.
LEMMA HoldersKeep ==
  ASSUME YearlyInv, UNCHANGED source, SourcesInv',
         \A c \in Cases : Exists(c) => Exists(c)',
         \A c \in Cases : Numbered(c)' => contract'[c].mfl # NoMfl,
         \A c \in Cases, m \in Mfl : m # NoMfl /\ Holds(c, m)' => Holds(c, m),
         UNCHANGED yearlyNo
  PROVE  YearlyInv'
<1>1. Root' = Root /\ OneRoot(Root', source')
  BY RootStays DEF YearlyInv
<1>2. HeldInv'
  BY Zenon DEF YearlyInv, HeldInv
<1>3. FamilyInv'
  BY <1>1, Zenon DEF YearlyInv, FamilyInv
<1> QED
  BY <1>1, <1>2, <1>3 DEF YearlyInv

\* A step of one request that only changes its slot and keeps or drops what
\* the slot holds.
LEMMA SlotKeeps ==
  ASSUME TypeOK, YearlyInv, NEW r \in Requests, NEW q \in Request,
         req' = [req EXCEPT ![r] = q], UNCHANGED <<source, contract, yearlyNo>>,
         \A c \in Cases : Exists(c) => Exists(c)',
         q.mfl = NoMfl \/ (q.mfl = req[r].mfl /\ q.case = req[r].case),
         q.pc = "create" /\ q.src # NoCase => Exists(q.src),
         q.src \in Cases \cup {NoCase},
         q.pc \in {"gate", "number", "advance"} =>
            q.case \in Cases /\ Exists(q.case) /\ q.to # "NONE"
  PROVE  YearlyInv'
<1>1. req'[r] = q /\ \A o \in Requests : o # r => req'[o] = req[o]
  BY DEF TypeOK
<1>2. \A o \in Requests :
         /\ req[o].src \in Cases \cup {NoCase}
         /\ req[o].pc \in {"gate", "number", "advance"} => req[o].case \in Cases
  BY DEF TypeOK, Request
<1>3. SourcesInv'
  <2>1. SourcesInv
    BY DEF YearlyInv
  <2>2. \A c \in Cases : source'[c] # NoCase => Exists(c)' /\ Exists(source[c])'
    BY <2>1 DEF SourcesInv, TypeOK
  <2>3. ASSUME NEW o \in Requests, o # r
        PROVE  /\ req[o].pc = "create" /\ req[o].src # NoCase => status'[req[o].src] # "NONE"
               /\ req[o].pc \in {"gate", "number", "advance"} =>
                     status'[req[o].case] # "NONE" /\ req[o].to # "NONE"
    <3>1. /\ req[o].pc = "create" /\ req[o].src # NoCase => status[req[o].src] # "NONE"
          /\ req[o].pc \in {"gate", "number", "advance"} =>
                status[req[o].case] # "NONE" /\ req[o].to # "NONE"
      BY <2>1, Zenon DEF SourcesInv, Exists
    <3>2. \A c \in Cases : status[c] # "NONE" => status'[c] # "NONE"
      BY DEF Exists
    <3> QED
      BY <1>2, <3>1, <3>2
  <2>4. /\ q.pc = "create" /\ q.src # NoCase => Exists(q.src)'
        /\ q.pc \in {"gate", "number", "advance"} => Exists(q.case)'
    OBVIOUS
  <2> QED
    BY <1>1, <2>2, <2>3, <2>4 DEF SourcesInv, Exists
<1>4. ASSUME NEW c \in Cases, NEW m \in Mfl, m # NoMfl, Holds(c, m)' PROVE Holds(c, m)
  BY <1>1, <1>4 DEF Holds
<1>5. \A c \in Cases : Numbered(c)' => contract'[c].mfl # NoMfl
  BY DEF YearlyInv, HeldInv, Numbered
<1> QED
  BY <1>3, <1>4, <1>5, HoldersKeep

\* A request that ends and touches no number keeps the invariant.
LEMMA IdleKeeps ==
  ASSUME TypeOK, YearlyInv, NEW r \in Requests, Finish(r),
         UNCHANGED <<source, contract, yearlyNo>>,
         \A c \in Cases : Exists(c) => Exists(c)'
  PROVE  YearlyInv'
<1>1. /\ Idle \in Request /\ Idle.mfl = NoMfl /\ Idle.pc = "idle" /\ Idle.src = NoCase
  BY IdleRequest, SMTT(60) DEF Idle
<1> QED
  BY <1>1, SlotKeeps, ZenonT(60) DEF Finish

\* A request that begins reads rows, and holds no number that they do not
\* give.
LEMMA StartYearly ==
  ASSUME TypeOK, YearlyInv, NEW r \in Requests, StartRequest(r)
  PROVE  YearlyInv'
<1>0. SourcesInv /\ UNCHANGED dbVars
  BY ZenonT(60) DEF StartRequest, CreateRead, EditRead, ArchiveRead, RestoreRead, TransitionRead, Transition,
         YearlyInv
<1>1. ASSUME NEW u \in Users, NEW src \in Cases \cup {NoCase}, CreateRead(r, u, src)
      PROVE  YearlyInv'
  <2> DEFINE q == [Idle EXCEPT !.pc = "create", !.user = u, !.src = src,
                               !.no = NextNumber(BranchOf[u])]
  <2>1. /\ q \in Request /\ q.mfl = NoMfl /\ q.pc = "create" /\ q.src = src
    BY IdleRequest, NextNumberType DEF Request, Idle
  <2>2. req' = [req EXCEPT ![r] = q] /\ (src # NoCase => Exists(src))
    BY <1>1 DEF CreateRead, Begin
  <2> HIDE DEF q
  <2> QED
    BY <1>0, <2>1, <2>2, SlotKeeps DEF dbVars, Exists
<1>2. ASSUME NEW u \in Users, NEW c \in Cases,
             EditRead(r, u, c) \/ ArchiveRead(r, u, c) \/ RestoreRead(r, u, c)
      PROVE  YearlyInv'
  <2>1. PICK pc \in {"edit", "archive", "restore"} :
           req' = [req EXCEPT ![r] = [Idle EXCEPT !.pc = pc, !.case = c]]
    BY <1>2 DEF EditRead, ArchiveRead, RestoreRead, Begin
  <2> DEFINE q == [Idle EXCEPT !.pc = pc, !.case = c]
  <2>2. /\ q \in Request /\ q.mfl = NoMfl /\ q.pc = pc /\ q.src = NoCase
    BY IdleRequest DEF Request, Idle
  <2>3. req' = [req EXCEPT ![r] = q]
    BY <2>1
  <2> HIDE DEF q
  <2> QED
    BY <1>0, <2>2, <2>3, SlotKeeps DEF dbVars, Exists
<1>3. ASSUME NEW u \in Users, NEW c \in Cases, NEW rule \in TRANSITIONS,
             TransitionRead(r, u, c, rule)
      PROVE  YearlyInv'
  <2>1. PICK draws \in BOOLEAN : Transition(r, c, rule, draws)
    BY <1>3 DEF TransitionRead
  <2> PICK mfl : mfl = IF draws THEN SourceMfl(c) ELSE NoMfl
    OBVIOUS
  <2> DEFINE q == [Idle EXCEPT
            !.pc    = IF IsSubmit(rule) THEN "gate" ELSE "advance",
            !.case  = c, !.to = rule.to, !.draws = draws, !.mfl = mfl]
  <2>2. mfl \in Mfl
    BY YearAssumption, CasesAssumption DEF SourceMfl, Contract, NoMfl, Mfl, TypeOK
  <2>3. /\ q \in Request /\ q.case = c /\ q.to = rule.to /\ q.mfl = mfl /\ q.src = NoCase
        /\ q.pc \in {"gate", "advance"}
    BY <2>2, IdleRequest, RuleTypes, ZenonT(60) DEF Request, Statuses, Idle
  <2>4. req' = [req EXCEPT ![r] = q]
    BY <2>1 DEF Transition, Begin
  <2> HIDE DEF q
  <2>5. Exists(c) /\ rule.to # "NONE"
    BY <1>3, RuleTypes DEF TransitionRead, Exists, Workflow
  <2>6. CASE mfl = NoMfl
    BY <1>0, <2>3, <2>4, <2>5, <2>6, SlotKeeps DEF dbVars, Exists
  <2>7. CASE mfl # NoMfl
    <3>1. source[c] # NoCase /\ source[c] \in Cases /\ contract[source[c]].mfl = mfl
      BY <2>7 DEF SourceMfl, TypeOK
    <3> PICK a \in Cases : a = source[c]
      BY <3>1
    <3>2. Holds(a, mfl)
      BY <3>1, Zenon DEF Holds
    <3>3. Root[c] = Root[a]
      <4>1. Root = [x \in Cases |-> IF source[x] = NoCase THEN x ELSE Root[source[x]]]
        BY DEF YearlyInv, OneRoot, Solves
      <4>2. Root[c] = IF source[c] = NoCase THEN c ELSE Root[source[c]]
        BY <4>1, Zenon
      <4> QED
        BY <3>1, <4>2, Zenon
    <3>4. Root' = Root /\ OneRoot(Root', source')
      BY <1>0, RootStays DEF YearlyInv, dbVars
    <3>5. req'[r] = q /\ \A o \in Requests : o # r => req'[o] = req[o]
      BY <2>4 DEF TypeOK
    <3>6. ASSUME NEW d \in Cases, NEW m \in Mfl, Holds(d, m)'
          PROVE  Holds(d, m) \/ (d = c /\ m = mfl)
      BY <1>0, <2>3, <3>5, <3>6 DEF Holds, dbVars
    <3>7. UNCHANGED <<status, source, contract, yearlyNo>>
      BY <1>0 DEF dbVars
    <3>8. HeldInv'
      <4>1. HeldInv
        BY DEF YearlyInv
      <4>2. /\ Exists(c) /\ mfl.year \in Years /\ 0 < mfl.yearly
            /\ mfl.yearly <= yearlyNo[mfl.year]
        BY <2>2, <2>5, <2>7, <3>2, <4>1 DEF HeldInv
      <4>3. \A d \in Cases : Exists(d)' = Exists(d) /\ Numbered(d)' = Numbered(d)
        BY <3>7 DEF Exists, Numbered
      <4> QED
        BY <3>6, <3>7, <4>1, <4>2, <4>3 DEF HeldInv
    <3>9. FamilyInv'
      <4>1. FamilyInv
        BY DEF YearlyInv
      <4>2. \A d \in Cases : Holds(d, mfl) => Root[d] = Root[c]
        BY <2>2, <2>7, <3>2, <3>3, <4>1, Zenon DEF FamilyInv
      <4> SUFFICES ASSUME NEW d \in Cases, NEW e \in Cases, NEW m \in Mfl, m # NoMfl,
                          Holds(d, m)', Holds(e, m)'
                   PROVE  Root[d] = Root[e]
        BY <3>4, Zenon DEF FamilyInv
      <4>3. Holds(d, m) \/ (d = c /\ m = mfl)
        BY <3>6
      <4>4. Holds(e, m) \/ (e = c /\ m = mfl)
        BY <3>6
      <4> QED
        BY <4>1, <4>2, <4>3, <4>4, Zenon DEF FamilyInv
    <3>10. SourcesInv'
      BY <1>0, <2>3, <2>5, <3>5, <3>7 DEF SourcesInv, Exists
    <3> QED
      BY <3>4, <3>8, <3>9, <3>10 DEF YearlyInv
  <2> QED
    BY <2>6, <2>7
<1> QED
  BY <1>1, <1>2, <1>3, SMTT(60) DEF StartRequest

\* A new row holds nothing yet, and it is the only one whose source is set.
LEMMA CreateYearly ==
  ASSUME TypeOK, YearlyInv, NEW r \in Requests, NEW c \in Cases, NEW full \in BOOLEAN,
         CreateWrite(r, c, full)
  PROVE  YearlyInv'
<1> PICK src \in Cases \cup {NoCase} : src = req[r].src
  BY DEF TypeOK, Request
<1>1. /\ req[r].pc = "create" /\ ~Exists(c) /\ status' = [status EXCEPT ![c] = "DRAFT"]
      /\ source' = [source EXCEPT ![c] = src] /\ UNCHANGED <<contract, yearlyNo>>
  BY DEF CreateWrite, At
<1>2. req'[r] = Idle /\ \A o \in Requests : o # r => req'[o] = req[o]
  BY DEF CreateWrite, Finish, TypeOK
<1>3. \A x \in Cases : Exists(x)' <=> Exists(x) \/ x = c
  BY <1>1 DEF Exists, TypeOK
<1>4. SourcesInv /\ HeldInv /\ FamilyInv /\ OneRoot(Root, source)
  BY DEF YearlyInv
<1>5. /\ source \in [Cases -> Cases \cup {NoCase}]
      /\ source[c] = NoCase /\ \A x \in Cases : source[x] # c
  BY <1>1, <1>4, CasesAssumption DEF TypeOK, SourcesInv
<1>6. src # NoCase => Exists(src)
  BY <1>1, <1>4 DEF SourcesInv
<1>7. src # c
  BY <1>1, <1>6, CasesAssumption
<1>8. OneRoot(Root', source') /\ \A x \in Cases : x # c => Root'[x] = Root[x]
  BY <1>1, <1>4, <1>5, <1>7, RootGrows
<1>9. \A x \in Cases, m \in Mfl : Holds(x, m)' /\ m # NoMfl => Holds(x, m)
  BY <1>1, <1>2 DEF Holds, Idle
<1>10. \A x \in Cases, m \in Mfl : Holds(x, m)' /\ m # NoMfl => x # c
  BY <1>1, <1>4, <1>9, Zenon DEF HeldInv
<1>11. SourcesInv'
  <2>1. \A x \in Cases : source'[x] # NoCase => Exists(x)' /\ Exists(source[x])'
    BY <1>1, <1>3, <1>4, <1>5, <1>6 DEF SourcesInv, Exists
  <2>2. ASSUME NEW o \in Requests, o # r
        PROVE  /\ req[o].pc = "create" /\ req[o].src # NoCase => status'[req[o].src] # "NONE"
               /\ req[o].pc \in {"gate", "number", "advance"} =>
                     status'[req[o].case] # "NONE" /\ req[o].to # "NONE"
    <3>1. /\ req[o].pc = "create" /\ req[o].src # NoCase => status[req[o].src] # "NONE"
          /\ req[o].pc \in {"gate", "number", "advance"} =>
                status[req[o].case] # "NONE" /\ req[o].to # "NONE"
      BY <1>4, Zenon DEF SourcesInv, Exists
    <3>2. \A x \in Cases : status[x] # "NONE" => status'[x] # "NONE"
      BY <1>3 DEF Exists
    <3>3. req[o].src \in Cases \cup {NoCase}
      BY DEF TypeOK, Request
    <3>4. req[o].pc \in {"gate", "number", "advance"} => req[o].case \in Cases
      BY DEF TypeOK
    <3> QED
      BY <3>1, <3>2, <3>3, <3>4
  <2>3. Idle.pc = "idle"
    BY DEF Idle
  <2> QED
    BY <1>2, <2>1, <2>2, <2>3 DEF SourcesInv, Exists
<1>12. HeldInv'
  <2>1. \A x \in Cases : Numbered(x)' = Numbered(x)
    BY <1>1 DEF Numbered
  <2> QED
    BY <1>1, <1>3, <1>4, <1>9, <2>1 DEF HeldInv
<1>13. FamilyInv'
  BY <1>4, <1>8, <1>9, <1>10, Zenon DEF FamilyInv
<1> QED
  BY <1>8, <1>11, <1>12, <1>13 DEF YearlyInv

\* The submit stores the number it has read from the source, or a fresh one
\* above all that are held.
LEMMA IssueYearly ==
  ASSUME TypeOK, YearlyInv, NEW r \in Requests, IssueContract(r)
  PROVE  YearlyInv'
<1> PICK c \in Cases : c = req[r].case
  BY DEF IssueContract, At, TypeOK
<1> PICK mfl : mfl = contract'[c].mfl
  OBVIOUS
<1> DEFINE q == [req[r] EXCEPT !.pc = "advance", !.draws = FALSE, !.mfl = NoMfl]
<1>1. req \in [Requests -> Request] /\ req[r] \in Request /\ year \in Years
  BY DEF TypeOK
<1>2. /\ req[r].pc = "number" /\ req' = [req EXCEPT ![r] = q]
      /\ UNCHANGED <<status, source>>
  BY <1>1 DEF IssueContract, At
<1>3. /\ q.pc = "advance" /\ q.mfl = NoMfl /\ q.case = c /\ q.to = req[r].to
  BY <1>1 DEF Request
<1> HIDE DEF q
<1>4. req'[r] = q /\ \A o \in Requests : o # r => req'[o] = req[o]
  BY <1>1, <1>2
<1>5. SourcesInv /\ HeldInv /\ FamilyInv /\ OneRoot(Root, source)
  BY DEF YearlyInv
<1>6. Root' = Root /\ OneRoot(Root', source')
  BY <1>2, <1>5, RootStays
<1>7. \A x \in Cases : Exists(x)' = Exists(x)
  BY <1>2 DEF Exists
<1>8. /\ \A x \in Cases : x # c => contract'[x] = contract[x]
      /\ \/ mfl = req[r].mfl /\ mfl # NoMfl /\ UNCHANGED yearlyNo
         \/ /\ mfl = [yearly |-> yearlyNo[year] + 1, year |-> year]
            /\ yearlyNo' = [yearlyNo EXCEPT ![year] = yearlyNo[year] + 1]
  <2>1. \A x \in Cases : x # c => contract'[x] = contract[x]
    BY DEF IssueContract, TypeOK
  <2>2. \/ req[r].mfl # NoMfl /\ mfl = req[r].mfl /\ UNCHANGED yearlyNo
        \/ /\ yearlyNo' = [yearlyNo EXCEPT ![year] = yearlyNo[year] + 1]
           /\ mfl = [yearly |-> yearlyNo'[year], year |-> year]
    BY DEF IssueContract, NextCounter, TypeOK
  <2> QED
    BY <1>1, <2>1, <2>2 DEF TypeOK
<1>9. /\ \A y \in Years : yearlyNo[y] \in Nat /\ yearlyNo'[y] \in Nat /\ yearlyNo[y] <= yearlyNo'[y]
  BY <1>1, <1>8 DEF TypeOK
<1>10. /\ mfl \in Mfl /\ mfl # NoMfl /\ Exists(c)
       /\ mfl.year \in Years /\ 0 < mfl.yearly /\ mfl.yearly <= yearlyNo'[mfl.year]
  <2>1. Exists(c)
    BY <1>2, <1>5, Zenon DEF SourcesInv
  <2>2. CASE mfl = req[r].mfl /\ mfl # NoMfl /\ UNCHANGED yearlyNo
    <3>1. mfl \in Mfl
      BY <1>1, <2>2 DEF Request
    <3>2. Holds(c, mfl)
      BY <2>2, Zenon DEF Holds
    <3> QED
      BY <1>5, <2>1, <2>2, <3>1, <3>2 DEF HeldInv
  <2>3. CASE /\ mfl = [yearly |-> yearlyNo[year] + 1, year |-> year]
             /\ yearlyNo' = [yearlyNo EXCEPT ![year] = yearlyNo[year] + 1]
    <3>1. yearlyNo[year] \in Nat /\ yearlyNo'[year] = yearlyNo[year] + 1
      BY <1>1, <2>3 DEF TypeOK
    <3> QED
      BY <1>1, <2>1, <2>3, <3>1 DEF Mfl, NoMfl, Years
  <2> QED
    BY <1>8, <2>2, <2>3
<1>11. ASSUME NEW d \in Cases, NEW m \in Mfl, m # NoMfl, Holds(d, m)'
       PROVE  Holds(d, m) \/ (d = c /\ m = mfl)
  BY <1>3, <1>4, <1>8, <1>11 DEF Holds
<1>12. ASSUME NEW d \in Cases, Holds(d, mfl) PROVE Root[d] = Root[c]
  <2>1. mfl.yearly <= yearlyNo[mfl.year]
    BY <1>5, <1>10, <1>12 DEF HeldInv
  <2>2. mfl = req[r].mfl
    BY <1>1, <1>8, <2>1 DEF TypeOK
  <2>3. Holds(c, mfl)
    BY <2>2, Zenon DEF Holds
  <2> QED
    BY <1>5, <1>10, <1>12, <2>3, Zenon DEF FamilyInv
<1>13. HeldInv'
  <2>1. \A d \in Cases : Numbered(d)' => contract'[d].mfl # NoMfl
    BY <1>5, <1>8, <1>10 DEF HeldInv, Numbered
  <2>2. ASSUME NEW d \in Cases, NEW m \in Mfl, m # NoMfl, Holds(d, m)'
        PROVE  Exists(d)' /\ m.year \in Years /\ 0 < m.yearly /\ m.yearly <= yearlyNo'[m.year]
    <3>1. CASE Holds(d, m)
      <4>1. Exists(d) /\ m.year \in Years /\ 0 < m.yearly /\ m.yearly <= yearlyNo[m.year]
        BY <1>5, <2>2, <3>1 DEF HeldInv
      <4> QED
        BY <1>7, <1>9, <4>1 DEF Mfl
    <3>2. CASE d = c /\ m = mfl
      BY <1>7, <1>10, <3>2
    <3> QED
      BY <1>11, <2>2, <3>1, <3>2
  <2> QED
    BY <2>1, <2>2, Zenon DEF HeldInv
<1>14. FamilyInv'
  <2> SUFFICES ASSUME NEW d \in Cases, NEW e \in Cases, NEW m \in Mfl, m # NoMfl,
                      Holds(d, m)', Holds(e, m)'
               PROVE  Root[d] = Root[e]
    BY <1>6, Zenon DEF FamilyInv
  <2>1. Holds(d, m) \/ (d = c /\ m = mfl)
    BY <1>11
  <2>2. Holds(e, m) \/ (e = c /\ m = mfl)
    BY <1>11
  <2> QED
    BY <1>5, <1>12, <2>1, <2>2, Zenon DEF FamilyInv
<1>15. SourcesInv'
  <2>1. Exists(c) /\ req[r].to # "NONE"
    BY <1>2, <1>5, Zenon DEF SourcesInv
  <2> QED
    BY <1>2, <1>3, <1>4, <1>5, <2>1 DEF SourcesInv, Exists
<1> QED
  BY <1>6, <1>13, <1>14, <1>15 DEF YearlyInv

\* A request that goes on copies or takes a number within its family.
LEMMA ContinueYearly ==
  ASSUME TypeOK, YearlyInv, NEW r \in Requests, ContinueRequest(r)
  PROVE  YearlyInv'
<1>1. CASE CreateClash(r) \/ (\E full \in BOOLEAN : EditWrite(r, full)) \/ ArchiveWrite(r)
           \/ GateRefuse(r) \/ Abort(r)
  <2>1. Finish(r) /\ UNCHANGED <<status, source, contract, yearlyNo>>
    BY <1>1 DEF CreateClash, EditWrite, ArchiveWrite, GateRefuse, Abort, dbVars
  <2> QED
    BY <2>1, IdleKeeps DEF Exists
<1>2. CASE Advance(r)
  <2>1. /\ req[r].pc = "advance" /\ Finish(r) /\ UNCHANGED <<source, contract, yearlyNo>>
        /\ status' = [status EXCEPT ![req[r].case] = req[r].to]
    BY <1>2 DEF Advance, At
  <2>2. req[r].to # "NONE"
    BY <2>1, Zenon DEF YearlyInv, SourcesInv
  <2>3. \A c \in Cases : Exists(c) => Exists(c)'
    BY <2>1, <2>2 DEF Exists, TypeOK
  <2> QED
    BY <2>1, <2>3, IdleKeeps
<1>3. CASE GatePass(r)
  <2> PICK pc \in {"number", "advance"} : pc = IF req[r].draws THEN "number" ELSE "advance"
    OBVIOUS
  <2> DEFINE q == [req[r] EXCEPT !.pc = pc]
  <2>1. /\ req[r].pc = "gate" /\ UNCHANGED dbVars /\ req' = [req EXCEPT ![r] = q]
    BY <1>3, Zenon DEF GatePass, At
  <2>2. req[r] \in Request /\ req[r].case \in Cases
    BY <2>1 DEF TypeOK
  <2>3. /\ q \in Request /\ q.pc = pc /\ q.case = req[r].case /\ q.to = req[r].to
        /\ q.mfl = req[r].mfl /\ q.src = req[r].src
    BY <2>2, Zenon DEF Request
  <2> HIDE DEF q
  <2>4. Exists(req[r].case) /\ req[r].to # "NONE" /\ req[r].src \in Cases \cup {NoCase}
    BY <2>1, <2>2 DEF YearlyInv, SourcesInv, Request
  <2> QED
    BY <2>1, <2>2, <2>3, <2>4, SlotKeeps DEF dbVars, Exists
<1> QED
  BY <1>1, <1>2, <1>3, CreateYearly, IssueYearly DEF ContinueRequest

\* The invariant holds throughout.
LEMMA YearlyAlways == Spec => []YearlyInv
<1>1. TypeOK /\ YearlyInv /\ [Next]_vars => YearlyInv'
  <2> SUFFICES ASSUME TypeOK, YearlyInv, [Next]_vars PROVE YearlyInv'
    OBVIOUS
  <2>1. CASE YearEnds \/ UNCHANGED vars
    <3>1. UNCHANGED <<status, source, contract, yearlyNo, req>>
      BY <2>1 DEF YearEnds, vars, dbVars
    <3>2. SourcesInv'
      BY <3>1, Zenon DEF YearlyInv, SourcesInv, Exists
    <3>3. /\ \A c \in Cases : Exists(c)' = Exists(c) /\ Numbered(c)' = Numbered(c)
          /\ \A c \in Cases, m \in Mfl : Holds(c, m)' => Holds(c, m)
      BY <3>1, Zenon DEF Exists, Numbered, Holds
    <3>4. \A c \in Cases : Numbered(c)' => contract'[c].mfl # NoMfl
      BY <3>1, <3>3, Zenon DEF YearlyInv, HeldInv
    <3> QED
      BY <3>1, <3>2, <3>3, <3>4, HoldersKeep
  <2> QED
    BY <2>1, StartYearly, ContinueYearly DEF Next
<1> QED
  BY InitYearly, <1>1, TypeCorrect, PTL DEF Spec

\* Two cases carry one yearly number of one year only when createReMfl leads
\* both back to one client's first case, whatever submits overlap, abort or
\* replace a number (nextCounter by year, the MFL identity of the source).
THEOREM YearlyNumbersInFamily == Spec => []YearlySharedInFamily
<1>1. TypeOK /\ YearlyInv => YearlySharedInFamily
  <2> SUFFICES ASSUME TypeOK, YearlyInv, NEW c \in Cases, NEW d \in Cases,
                      Numbered(c), contract[c].mfl = contract[d].mfl
               PROVE  Root[c] = Root[d]
    BY DEF YearlySharedInFamily
  <2>1. contract[c].mfl # NoMfl
    BY DEF YearlyInv, HeldInv
  <2>2. contract[c].mfl \in Mfl
    BY DEF TypeOK, Contract
  <2>3. Holds(c, contract[c].mfl) /\ Holds(d, contract[c].mfl)
    BY Zenon DEF Holds
  <2> QED
    BY <2>1, <2>2, <2>3, Zenon DEF YearlyInv, FamilyInv
<1> QED
  BY <1>1, YearlyAlways, TypeCorrect, PTL

-----------------------------------------------------------------------------
(* The refinement.  With one request at a time what the request has read   *)
(* is still so when it writes, and each of its statements is a step of the *)
(* abstract workflow or leaves the rows of the workflow as they are.       *)

Alone == \A r, s \in Requests : r = s

\* The statuses a case reaches; no rule leads to the others.
Reached == {"NONE", "DRAFT", "MODERATION", "DIRECTOR_REVIEW", "FINALIZED", "CANCELLED"}

\* What the only request in flight knows of its case.
StillSo(q) ==
    /\ q.pc \in {"edit", "archive", "gate", "number"} => status[q.case] = "DRAFT"
    /\ q.pc = "archive" => ~archived[q.case]
    /\ q.pc = "restore" => archived[q.case]
    /\ q.pc \in {"gate", "number"} =>
          q.to = "MODERATION" /\ (q.draws => ~Numbered(q.case) /\ q.mfl = SourceMfl(q.case))
    /\ q.pc \in {"number", "advance"} =>
          <<status[q.case], q.to>> \in Promise!Edges /\ (status[q.case] = "DRAFT" => complete[q.case])

AloneInv ==
    /\ \A c \in Cases : status[c] \in Reached
    /\ \A r \in Requests : StillSo(req[r])

\* A rule that fits a status a case reaches is an edge of the workflow.
LEMMA RulesAreEdges ==
  ASSUME NEW rule \in TRANSITIONS, rule.from \in Reached
  PROVE  <<rule.from, rule.to>> \in Promise!Edges /\ rule.to \in Reached
  BY DEF TRANSITIONS, ForwardRules, ReturnRules, CancelRules, ReopenRules, Rule, Reached,
         Promise!Edges

\* The two modules mean the same by a numbered case.
LEMMA NumberedSame ==
  ASSUME TypeOK, NumberingInv, NEW c \in Cases
  PROVE  Numbered(c) <=> Promise!Numbered(c)
  BY DEF NumberingInv, Numbered, Promise!Numbered, NoContract

\* The only request takes a turn.
LEMMA AloneTurn ==
  ASSUME Alone, TypeOK, NEW r \in Requests, NEW q, req' = [req EXCEPT ![r] = q], StillSo(q)',
         \A c \in Cases : status'[c] \in Reached
  PROVE  AloneInv'
<1>1. \A s \in Requests : req'[s] = q
  BY SMTT(60) DEF Alone, TypeOK
<1> QED
  BY <1>1 DEF AloneInv, StillSo

\* An idle slot knows nothing.
LEMMA IdleKnows == StillSo(Idle)'
  BY SMTT(60) DEF StillSo, Idle

\* A request begins: it reads, and the workflow stays as it is.
LEMMA StartAlone ==
  ASSUME Alone, TypeOK, AloneInv, NEW r \in Requests, StartRequest(r)
  PROVE  AloneInv' /\ UNCHANGED Promise!vars
<1>0. UNCHANGED dbVars
  BY ZenonT(60) DEF StartRequest, CreateRead, EditRead, ArchiveRead, RestoreRead, TransitionRead, Transition
<1>1. ASSUME NEW u \in Users, NEW src \in Cases \cup {NoCase}, CreateRead(r, u, src)
      PROVE  AloneInv'
  <2>0. PICK q : q = [Idle EXCEPT !.pc = "create", !.user = u, !.src = src,
                                  !.no = NextNumber(BranchOf[u])]
    OBVIOUS
  <2>1. req' = [req EXCEPT ![r] = q]
    BY <1>1, <2>0 DEF CreateRead, Begin
  <2>2. q.pc = "create"
    BY <2>0 DEF Idle
  <2>3. StillSo(q)'
    BY <2>2 DEF StillSo
  <2> QED
    BY <1>0, <2>1, <2>3, AloneTurn DEF dbVars, AloneInv
<1>2. ASSUME NEW c \in Cases, NEW pc \in {"edit", "archive", "restore"},
             req' = [req EXCEPT ![r] = [Idle EXCEPT !.pc = pc, !.case = c]],
             pc # "restore" => status[c] = "DRAFT", pc = "archive" => ~archived[c],
             pc = "restore" => archived[c]
      PROVE  AloneInv'
  <2> DEFINE q == [Idle EXCEPT !.pc = pc, !.case = c]
  <2>1. q.pc = pc /\ q.case = c
    BY DEF Idle
  <2> HIDE DEF q
  <2>2. StillSo(q)'
    BY <1>0, <1>2, <2>1 DEF StillSo, dbVars
  <2>3. req' = [req EXCEPT ![r] = q]
    BY <1>2 DEF q
  <2> QED
    BY <1>0, <2>2, <2>3, AloneTurn DEF dbVars, AloneInv
<1>3. ASSUME NEW u \in Users, NEW c \in Cases, NEW rule \in TRANSITIONS, TransitionRead(r, u, c, rule)
      PROVE  AloneInv'
  <2> DEFINE d == IsSubmit(rule) /\ ~Numbered(c)
  <2>0. PICK q : q = [Idle EXCEPT !.pc = IF IsSubmit(rule) THEN "gate" ELSE "advance",
                                  !.case = c, !.to = rule.to, !.draws = d,
                                  !.mfl = IF d THEN SourceMfl(c) ELSE NoMfl]
    OBVIOUS
  <2>1. req' = [req EXCEPT ![r] = q] /\ rule.from = status[c]
    BY <1>3, <2>0 DEF TransitionRead, Transition, Begin
  <2>2. /\ q.pc = IF IsSubmit(rule) THEN "gate" ELSE "advance"
        /\ q.case = c /\ q.to = rule.to /\ (q.draws <=> d) /\ (d => q.mfl = SourceMfl(c))
    BY <2>0, Zenon DEF Idle
  <2>3. <<status[c], q.to>> \in Promise!Edges
    BY <2>1, <2>2, RulesAreEdges DEF AloneInv
  <2>4. IsSubmit(rule) => status[c] = "DRAFT" /\ q.to = "MODERATION"
    BY <2>1, <2>2 DEF IsSubmit
  <2>5. ~IsSubmit(rule) => status[c] # "DRAFT"
    BY <2>1, RuleTypes
  <2>6. Numbered(c)' = Numbered(c) /\ SourceMfl(c)' = SourceMfl(c)
    BY <1>0 DEF dbVars, Numbered, SourceMfl
  <2>7. StillSo(q)'
    BY <1>0, <2>2, <2>3, <2>4, <2>5, <2>6 DEF StillSo, dbVars
  <2> QED
    BY <1>0, <2>1, <2>7, AloneTurn DEF dbVars, AloneInv
<1>4. UNCHANGED Promise!vars
  BY <1>0 DEF dbVars, Promise!vars
<1> QED
  BY <1>1, <1>2, <1>3, <1>4, ZenonT(60) DEF StartRequest, EditRead, ArchiveRead, RestoreRead, Begin

\* The new draft is opened, and its source exists.
LEMMA CreateAlone ==
  ASSUME Alone, TypeOK, YearlyInv, AloneInv, NEW r \in Requests,
         NEW c \in Cases, NEW full \in BOOLEAN, CreateWrite(r, c, full)
  PROVE  AloneInv' /\ Promise!Open(c)
<1> PICK q : q = req[r]
  OBVIOUS
<1>1. /\ q.pc = "create" /\ status[c] = "NONE"
      /\ status' = [status EXCEPT ![c] = "DRAFT"]
      /\ source' = [source EXCEPT ![c] = q.src]
      /\ complete' = [complete EXCEPT ![c] = full]
      /\ UNCHANGED <<archived, contract>> /\ Finish(r)
  BY DEF CreateWrite, At, Exists
<1>2. q.src # NoCase => status[q.src] # "NONE"
  BY <1>1 DEF YearlyInv, SourcesInv, Exists
<1>3. source'[c] = q.src /\ complete'[c] = full
  BY <1>1 DEF TypeOK
<1>4. Promise!Open(c)
  BY <1>1, <1>2, <1>3 DEF Promise!Open
<1>5. \A d \in Cases : status'[d] \in Reached
  BY <1>1 DEF AloneInv, Reached, TypeOK
<1> QED
  BY <1>1, <1>4, <1>5, IdleKnows, AloneTurn DEF Finish

\* A draft is numbered: above all numbers, with its source's MFL identity or
\* with one of this year that nobody has yet.
LEMMA IssueAlone ==
  ASSUME Alone, TypeOK, NumberingInv, YearlyInv, AloneInv, NEW r \in Requests, IssueContract(r)
  PROVE  AloneInv' /\ Promise!Number(req[r].case)
<1> PICK q : q = req[r]
  OBVIOUS
<1> PICK c : c = q.case
  OBVIOUS
<1> PICK n : n = contract'[c]
  OBVIOUS
<1>1. /\ q.pc = "number" /\ q.draws /\ c \in Cases /\ q \in Request
  BY DEF IssueContract, At, TypeOK, NumberingInv
<1>2. /\ status[c] = "DRAFT" /\ complete[c] /\ ~Numbered(c) /\ q.mfl = SourceMfl(c)
      /\ q.to = "MODERATION"
  BY <1>1 DEF AloneInv, StillSo
<1>3. /\ UNCHANGED <<status, archived, complete, source, year>>
      /\ contract' = [contract EXCEPT ![c] = n]
      /\ n = [global |-> globalNo + 1,
              mfl |-> IF q.mfl # NoMfl THEN q.mfl
                      ELSE [yearly |-> yearlyNo[year] + 1, year |-> year]]
  BY <1>1 DEF IssueContract, NextCounter, TypeOK
<1>4. \A d \in Cases : contract[d].global < n.global
  BY <1>3 DEF NumberingInv, TypeOK, Contract
<1>5. IF source[c] # NoCase /\ Promise!Numbered(source[c])
      THEN n.mfl = contract[source[c]].mfl
      ELSE \A d \in Cases : contract[d].mfl # n.mfl
  <2>1. source[c] \in Cases \cup {NoCase} /\ n.mfl = IF q.mfl # NoMfl THEN q.mfl
                      ELSE [yearly |-> yearlyNo[year] + 1, year |-> year]
    BY <1>1, <1>3 DEF TypeOK
  <2>2. CASE source[c] # NoCase /\ Promise!Numbered(source[c])
    <3>1. Numbered(source[c]) /\ source[c] \in Cases
      BY <2>1, <2>2, NumberedSame
    <3>2. q.mfl = contract[source[c]].mfl /\ q.mfl # NoMfl
      BY <1>2, <2>2, <3>1 DEF SourceMfl, YearlyInv, HeldInv
    <3> QED
      BY <2>1, <2>2, <3>2
  <2>3. CASE ~(source[c] # NoCase /\ Promise!Numbered(source[c]))
    <3>1. q.mfl = NoMfl
      <4>1. CASE source[c] = NoCase
        BY <1>2, <4>1 DEF SourceMfl
      <4>2. CASE source[c] # NoCase
        <5>1. ~Numbered(source[c])
          BY <2>1, <2>3, <4>2, NumberedSame
        <5> QED
          BY <1>2, <4>2, <5>1 DEF SourceMfl, Numbered, NoContract
      <4> QED
        BY <4>1, <4>2
    <3>2. n.mfl = [yearly |-> yearlyNo[year] + 1, year |-> year]
      BY <2>1, <3>1
    <3>3. yearlyNo[year] \in Nat /\ year \in Years
      BY DEF TypeOK
    <3>4. ASSUME NEW d \in Cases, contract[d].mfl = n.mfl PROVE FALSE
      <4>1. contract[d].mfl \in Mfl /\ n.mfl # NoMfl
        BY <3>2, <3>3, <3>4 DEF TypeOK, Contract, NoMfl
      <4>2. Holds(d, n.mfl)
        BY <3>4, Zenon DEF Holds
      <4>3. n.mfl.yearly <= yearlyNo[n.mfl.year]
        BY <3>4, <4>1, <4>2 DEF YearlyInv, HeldInv
      <4> QED
        BY <3>2, <3>3, <4>3
    <3> QED
      BY <2>3, <3>4
  <2> QED
    BY <2>2, <2>3
<1>6. ~Promise!Numbered(c)
  BY <1>1, <1>2, NumberedSame
<1>7. Promise!Number(c)
  BY <1>2, <1>3, <1>4, <1>5, <1>6 DEF Promise!Number
<1>8. AloneInv'
  <2> PICK p : p = [q EXCEPT !.pc = "advance", !.draws = FALSE, !.mfl = NoMfl]
    OBVIOUS
  <2>1. req' = [req EXCEPT ![r] = p] /\ p.pc = "advance" /\ p.case = c /\ p.to = "MODERATION"
    BY <1>1, <1>2 DEF IssueContract, TypeOK, Request
  <2>2. StillSo(p)'
    BY <1>2, <1>3, <2>1 DEF StillSo, Promise!Edges
  <2> QED
    BY <1>3, <2>1, <2>2, AloneTurn DEF AloneInv
<1> QED
  BY <1>7, <1>8

\* The statements of a request after its first are steps of the workflow.
LEMMA ContinueAlone ==
  ASSUME Alone, TypeOK, NumberingInv, YearlyInv, AloneInv, NEW r \in Requests, ContinueRequest(r)
  PROVE  AloneInv' /\ [Promise!Next]_Promise!vars
<1> PICK q : q = req[r]
  OBVIOUS
<1>0. q \in Request /\ (q.pc \notin {"idle", "create"} => q.case \in Cases) /\ StillSo(q)
  BY DEF TypeOK, AloneInv
<1>1. CASE CreateClash(r) \/ GateRefuse(r) \/ Abort(r)
  <2>1. UNCHANGED dbVars /\ Finish(r)
    BY <1>1 DEF CreateClash, GateRefuse, Abort
  <2> QED
    BY <2>1, IdleKnows, AloneTurn DEF Finish, AloneInv, dbVars, Promise!vars
<1>2. ASSUME NEW full \in BOOLEAN, EditWrite(r, full) PROVE AloneInv' /\ [Promise!Next]_Promise!vars
  <2>1. /\ q.pc = "edit" /\ complete' = [complete EXCEPT ![q.case] = full] /\ Finish(r)
        /\ UNCHANGED <<status, archived, source, contract>>
    BY <1>2 DEF EditWrite, At
  <2>2. q.case \in Cases /\ status[q.case] = "DRAFT"
    BY <1>0, <2>1 DEF StillSo
  <2>3. CASE full = complete[q.case]
    <3>1. complete' = complete
      BY <2>1, <2>2, <2>3 DEF TypeOK
    <3> QED
      BY <2>1, <3>1, IdleKnows, AloneTurn DEF Finish, AloneInv, Promise!vars
  <2>4. CASE full # complete[q.case]
    <3>1. full = ~complete[q.case]
      BY <2>2, <2>4, Zenon DEF TypeOK
    <3>2. Promise!Edit(q.case)
      BY <2>1, <2>2, <3>1, Zenon DEF Promise!Edit
    <3> QED
      BY <2>1, <2>2, <3>2, IdleKnows, AloneTurn DEF Finish, AloneInv, Promise!Next
  <2> QED
    BY <2>3, <2>4
<1>3. CASE ArchiveWrite(r)
  <2>1. /\ q.pc \in {"archive", "restore"} /\ Finish(r)
        /\ archived' = [archived EXCEPT ![q.case] = (q.pc = "archive")]
        /\ UNCHANGED <<status, complete, source, contract>>
    BY <1>3 DEF ArchiveWrite
  <2>2. q.case \in Cases
    BY <1>0, <2>1
  <2>3. q.pc = "archive" => Promise!Archive(q.case)
    BY <1>0, <2>1, Zenon DEF StillSo, Promise!Archive
  <2>4. q.pc = "restore" => Promise!Restore(q.case)
    BY <1>0, <2>1 DEF StillSo, Promise!Restore
  <2> QED
    BY <2>1, <2>2, <2>3, <2>4, IdleKnows, AloneTurn DEF Finish, AloneInv, Promise!Next
<1>4. CASE GatePass(r)
  <2> PICK p : p = [q EXCEPT !.pc = IF q.draws THEN "number" ELSE "advance"]
    OBVIOUS
  <2>1. req' = [req EXCEPT ![r] = p] /\ UNCHANGED dbVars /\ q.pc = "gate" /\ complete[q.case]
    BY <1>4 DEF GatePass, At
  <2>2. /\ p.case = q.case /\ p.to = q.to /\ p.draws = q.draws /\ p.mfl = q.mfl
        /\ p.pc = IF q.draws THEN "number" ELSE "advance"
    BY <1>0 DEF Request
  <2>3. UNCHANGED <<status, complete, archived>> /\ Numbered(q.case)' = Numbered(q.case)
        /\ SourceMfl(q.case)' = SourceMfl(q.case)
    BY <2>1 DEF dbVars, Numbered, SourceMfl
  <2>4. StillSo(p)'
    BY <1>0, <2>1, <2>2, <2>3 DEF StillSo, Promise!Edges
  <2> QED
    BY <2>1, <2>4, AloneTurn DEF AloneInv, dbVars, Promise!vars
<1>5. CASE Advance(r)
  <2>1. /\ q.pc = "advance" /\ status' = [status EXCEPT ![q.case] = q.to] /\ Finish(r)
        /\ UNCHANGED <<archived, complete, source, contract>>
    BY <1>5 DEF Advance, At
  <2>2. /\ q.case \in Cases /\ <<status[q.case], q.to>> \in Promise!Edges
        /\ status[q.case] = "DRAFT" => complete[q.case] /\ Promise!Numbered(q.case)
    BY <1>0, <2>1, NumberedSame DEF StillSo, NumberingInv
  <2>3. status'[q.case] = q.to /\ q.to \in Reached
    BY <2>1, <2>2 DEF TypeOK, Promise!Edges, Reached
  <2>4. Promise!Move(q.case)
    BY <2>1, <2>2, <2>3 DEF Promise!Move
  <2>5. \A c \in Cases : status'[c] \in Reached
    BY <2>1, <2>3 DEF AloneInv, TypeOK
  <2> QED
    BY <2>1, <2>2, <2>4, <2>5, IdleKnows, AloneTurn DEF Finish, Promise!Next
<1>6. ASSUME NEW c \in Cases, NEW full \in BOOLEAN, CreateWrite(r, c, full)
      PROVE  AloneInv' /\ [Promise!Next]_Promise!vars
  BY <1>6, CreateAlone DEF Promise!Next
<1>7. CASE IssueContract(r)
  <2>1. q.case \in Cases
    BY <1>0, <1>7 DEF IssueContract, At
  <2> QED
    BY <1>7, <2>1, IssueAlone DEF Promise!Next
<1> QED
  BY <1>1, <1>2, <1>3, <1>4, <1>5, <1>6, <1>7 DEF ContinueRequest

\* Requests that do not overlap implement the atomic workflow, cut off between
\* their statements or not: a case is numbered once and as a complete draft,
\* leaves DRAFT complete and numbered, moves along the edges, and is edited or
\* archived as a draft only (updateCase, deleteCase, transition).
THEOREM WorkflowImplemented == Alone => (Spec => ImplementsWorkflow)
<1> SUFFICES ASSUME Alone PROVE Spec => ImplementsWorkflow
  OBVIOUS
<1>1. Init => AloneInv
  <2> SUFFICES ASSUME Init PROVE AloneInv
    OBVIOUS
  <2>1. \A r \in Requests : req[r] = Idle
    BY DEF Init
  <2>2. StillSo(Idle)
    BY DEF StillSo, Idle
  <2>3. \A c \in Cases : status[c] = "NONE"
    BY DEF Init
  <2> QED
    BY <2>1, <2>2, <2>3 DEF AloneInv, Reached
<1>2. Init => Promise!Init
  BY DEF Init, Promise!Init, Promise!Numbered, NoContract
<1>3. TypeOK /\ NumberingInv /\ YearlyInv /\ AloneInv /\ [Next]_vars
         => AloneInv' /\ [Promise!Next]_Promise!vars
  <2> SUFFICES ASSUME TypeOK, NumberingInv, YearlyInv, AloneInv, [Next]_vars
               PROVE  AloneInv' /\ [Promise!Next]_Promise!vars
    OBVIOUS
  <2>1. CASE YearEnds \/ UNCHANGED vars
    <3>1. UNCHANGED <<dbVars, req>>
      BY <2>1 DEF YearEnds, vars
    <3> QED
      BY <3>1 DEF AloneInv, StillSo, dbVars, Numbered, SourceMfl, Promise!vars
  <2>2. ASSUME NEW r \in Requests, StartRequest(r)
        PROVE  AloneInv' /\ [Promise!Next]_Promise!vars
    BY <2>2, StartAlone
  <2> QED
    BY <2>1, <2>2, ContinueAlone DEF Next
<1> QED
  BY <1>1, <1>2, <1>3, TypeCorrect, NumberingInvariant, YearlyAlways, PTL
     DEF Spec, ImplementsWorkflow, Promise!Spec
=============================================================================
