------------------------------ MODULE CaseRate ------------------------------
(***************************************************************************)
(* The lending rate of one credit case and what is derived from it: the    *)
(* tranche's monthly payment, the affordability row's copy of it, the      *)
(* case-level amount and the stored score.  The handlers are               *)
(* CreditCasesService's updateCase and saveSection (one applyUpdate),      *)
(* setRate and setSplit, which all write without a transaction around the  *)
(* whole.  An action is one awaited statement or one $transaction.         *)
(*                                                                         *)
(* A payment is named by what it was computed from, the tranche principal  *)
(* and the rate; a score by what it was computed from, the income and the  *)
(* payment.  Schedule type and term, which move with the principal, are    *)
(* not told apart from it.  The insurance columns, the product's rate      *)
(* floor beside the default one, and the moderator's branches are left     *)
(* out: a caller outside them is refused before anything is written.       *)
(***************************************************************************)
EXTENDS Integers

CONSTANTS
    Amounts,      \* what a line total may be
    Principals,   \* what the tranche's principal may be, 0 when not filled in yet
    Rates,        \* the rates within the configured bounds
    DefaultRate,  \* the product's own rate
    Incomes,      \* what the borrower may declare
    Requests      \* request slots, the bound on concurrency

ASSUME AmountsAssumption == Amounts \subseteq Nat \ {0} /\ Principals \subseteq Nat
ASSUME RatesAssumption == DefaultRate \in Rates

VARIABLES
    status,     \* CreditCase.status
    line,       \* CreditLine with its one tranche
    amount,     \* CreditCase.amount, 0 for null
    afford,     \* Affordability
    score,      \* ScoringResult
    req,        \* what each request in flight has read
    decided,    \* ghost: the rate the last setRate stored
    unsettled   \* ghost: what an overlap, a cut or a partial save may have left apart

vars == <<status, line, amount, afford, score, req, decided, unsettled>>

-----------------------------------------------------------------------------
Statuses == {"DRAFT", "MODERATION", "DIRECTOR_REVIEW"}
Edges == {<<"DRAFT", "MODERATION">>, <<"MODERATION", "DRAFT">>,
          <<"MODERATION", "DIRECTOR_REVIEW">>, <<"DIRECTOR_REVIEW", "MODERATION">>,
          <<"DIRECTOR_REVIEW", "DRAFT">>}

\* What can come apart.
Concerns == {"rate", "payment", "affordability", "amount", "score"}

NoPay    == [principal |-> 0, rate |-> 0]
Payments == [principal : Principals, rate : Rates] \cup {NoPay}

monthlyPaymentFor(principal, rate) ==
    IF principal = 0 THEN NoPay ELSE [principal |-> principal, rate |-> rate]

\* total 0 and income 0 are rows that do not exist.
NoLine   == [total |-> 0, principal |-> 0, rate |-> DefaultRate, pay |-> NoPay]
NoAfford == [income |-> 0, pay |-> NoPay]
Line     == [total : Amounts \cup {0}, principal : Principals \cup {0}, rate : Rates, pay : Payments]
Afford   == [income : Incomes, pay : Payments] \cup {NoAfford}

\* trancheAmountViolations: a tranche above its line, or exactly 10, 100 or 1000 times below it.
TrancheFits(total, principal) ==
    principal <= total /\ \A k \in {10, 100, 1000} : principal = 0 \/ total # k * principal

\* scoringInputFromCase, scoreCase: the declared payment wins over the tranche's.
Score == [income : Incomes \cup {0}, pay : Payments]
ScoreOf(a, l) == [income |-> a.income, pay |-> IF a.pay # NoPay THEN a.pay ELSE l.pay]

Ops  == {"save", "rate", "split"}
Idle == [op |-> "none", pc |-> "idle", line |-> NoLine, afford |-> NoAfford, rate |-> DefaultRate,
         pay |-> NoPay, sameLine |-> TRUE, alone |-> TRUE, score |-> ScoreOf(NoAfford, NoLine)]

\* createCase from the wizard's first step, which has no credit line yet.
Init ==
    /\ status    = "DRAFT"
    /\ line      = NoLine
    /\ amount    = 0
    /\ afford    = NoAfford
    /\ score     = ScoreOf(NoAfford, NoLine)
    /\ req       = [r \in Requests |-> Idle]
    /\ decided   = 0
    /\ unsettled = {}

-----------------------------------------------------------------------------
InFlight == {r \in Requests : req[r].pc # "idle"}
At(r, op, pc) == req[r].op = op /\ req[r].pc = pc

\* A request that joins others is not alone, and neither are they.
Begin(r, q) ==
    /\ req[r].pc = "idle"
    /\ req' = [o \in Requests |->
                  IF o = r THEN [q EXCEPT !.alone = (InFlight = {})]
                  ELSE IF o \in InFlight THEN [req[o] EXCEPT !.alone = FALSE] ELSE req[o]]
    /\ unsettled' = IF InFlight = {} THEN unsettled ELSE Concerns

Goto(r, pc) == req' = [req EXCEPT ![r].pc = pc]
Finish(r)   == req' = [req EXCEPT ![r] = Idle]

\* Done alone, a write settles what it writes.
Settles(r, what) == unsettled' = IF req[r].alone THEN unsettled \ what ELSE unsettled

-----------------------------------------------------------------------------
(* updateCase and saveSection: applyUpdate.  The body has a credit line,   *)
(* an affordability section, both or neither; the payment it carries for   *)
(* the affordability is the one the form was loaded with.                  *)
\* Slip: the payment is filled only when empty.
FillDerivedWhenEmpty(q, rate) ==
    LET mp == monthlyPaymentFor(q.line.principal, rate)
    IN  [line   |-> [q.line EXCEPT !.rate = rate, !.pay = mp],
         afford |-> IF q.afford = NoAfford \/ q.afford.pay # NoPay THEN q.afford
                    ELSE [q.afford EXCEPT !.pay = mp]]

fillDerived(q, rate) ==
    LET mp == monthlyPaymentFor(q.line.principal, rate)
    IN  IF q.line.total = 0 THEN [line |-> NoLine, afford |-> q.afford]
        ELSE [line   |-> [q.line EXCEPT !.rate = rate, !.pay = mp],
              afford |-> IF q.afford = NoAfford \/ mp = NoPay THEN q.afford
                         ELSE [q.afford EXCEPT !.pay = mp]]

SaveRead(r) ==
    /\ status = "DRAFT"
    /\ \E t \in Amounts \cup {0}, p \in Principals \cup {0}, i \in Incomes \cup {0} :
          /\ t = 0 => p = 0
          /\ t # 0 => p \in Principals /\ TrancheFits(t, p)
          /\ Begin(r, [Idle EXCEPT
                 !.op = "save", !.pc = "read",
                 !.line = IF t = 0 THEN NoLine ELSE [NoLine EXCEPT !.total = t, !.principal = p],
                 !.afford = IF i = 0 THEN NoAfford ELSE [income |-> i, pay |-> afford.pay]])
    /\ UNCHANGED <<status, line, amount, afford, score, decided>>

\* Slip: a save always starts from the product's rate.
SaveRateDefault(r) ==
    /\ At(r, "save", "read")
    /\ req' = [req EXCEPT ![r].pc = "write", ![r].rate = DefaultRate]
    /\ UNCHANGED <<status, line, amount, afford, score, decided, unsettled>>

\* The rate of the stored line, or the product's when there is none.
SaveRate(r) ==
    /\ At(r, "save", "read")
    /\ req' = [req EXCEPT ![r].pc = "write", ![r].rate = IF line.total = 0 THEN DefaultRate ELSE line.rate]
    /\ UNCHANGED <<status, line, amount, afford, score, decided, unsettled>>

\* The transaction; a credit line is deleted and created anew, with a new id.
SaveWrite(r) ==
    LET q == req[r]
        d == fillDerived(q, q.rate)
        hasLine == q.line.total # 0
        hasAfford == q.afford # NoAfford
        whole == hasLine /\ hasAfford /\ q.line.principal # 0
        settles == (IF hasLine THEN {"payment", "amount"} ELSE {})
                       \cup (IF whole THEN {"affordability"} ELSE {})
    IN  /\ At(r, "save", "write")
        /\ line'   = IF hasLine THEN d.line ELSE line
        /\ amount' = IF hasLine THEN q.line.total ELSE amount
        /\ afford' = IF hasAfford THEN d.afford ELSE afford
        /\ req' = [o \in Requests |->
                      IF o = r THEN [Idle EXCEPT !.op = "save", !.pc = "score", !.alone = q.alone]
                      ELSE IF hasLine /\ req[o].op = "rate" THEN [req[o] EXCEPT !.sameLine = FALSE] ELSE req[o]]
        /\ unsettled' = (IF q.alone THEN unsettled \ settles ELSE unsettled)
                            \cup IF (hasLine \/ hasAfford) /\ ~whole THEN {"affordability"} ELSE {}
        /\ UNCHANGED <<status, score, decided>>

-----------------------------------------------------------------------------
(* setRate, in MODERATION.                                                 *)
RateLoad(r) ==
    /\ status = "MODERATION"
    /\ line.total # 0
    /\ \E rate \in Rates :
          Begin(r, [Idle EXCEPT !.op = "rate", !.pc = "write", !.rate = rate])
    /\ UNCHANGED <<status, line, amount, afford, score, decided>>

\* A save that holds the rate of before will put it back.
HoldsRate(o) == At(o, "save", "write") /\ req[o].line.total # 0

RateWrite(r) ==
    /\ At(r, "rate", "write")
    /\ line'    = [line EXCEPT !.rate = req[r].rate]
    /\ decided' = req[r].rate
    /\ unsettled' = IF \E o \in Requests : HoldsRate(o)
                    THEN unsettled \cup {"rate"} ELSE unsettled \ {"rate"}
    /\ Goto(r, "tranche")
    /\ UNCHANGED <<status, amount, afford, score>>

\* findFirst by the id of the line that was loaded: nothing if it was recreated.
RateTranche(r) ==
    LET found == req[r].sameLine /\ line.principal # 0
    IN  /\ At(r, "rate", "tranche")
        /\ req' = [req EXCEPT ![r].pc = IF found THEN "payment" ELSE "score",
                              ![r].pay = monthlyPaymentFor(line.principal, req[r].rate),
                              ![r].rate = DefaultRate]
        /\ UNCHANGED <<status, line, amount, afford, score, decided, unsettled>>

\* Slip: the instalment keeps its old value.
RatePaymentKept(r) ==
    /\ At(r, "rate", "payment")
    /\ req[r].sameLine
    /\ Goto(r, "afford")
    /\ Settles(r, {"payment"})
    /\ UNCHANGED <<status, line, amount, afford, score, decided>>

RatePayment(r) ==
    /\ At(r, "rate", "payment")
    /\ req[r].sameLine
    /\ line' = [line EXCEPT !.pay = req[r].pay]
    /\ Goto(r, "afford")
    /\ Settles(r, {"payment"})
    /\ UNCHANGED <<status, amount, afford, score, decided>>

\* Slip: the score is left as it was.
RateAffordUnscored(r) ==
    /\ At(r, "rate", "afford")
    /\ afford' = IF afford = NoAfford THEN afford ELSE [afford EXCEPT !.pay = req[r].pay]
    /\ Finish(r)
    /\ Settles(r, {"affordability", "score"})
    /\ UNCHANGED <<status, line, amount, score, decided>>

RateAfford(r) ==
    /\ At(r, "rate", "afford")
    /\ afford' = IF afford = NoAfford THEN afford ELSE [afford EXCEPT !.pay = req[r].pay]
    /\ req' = [req EXCEPT ![r].pc = "score", ![r].pay = NoPay, ![r].sameLine = TRUE]
    /\ Settles(r, {"affordability"})
    /\ UNCHANGED <<status, line, amount, score, decided>>

-----------------------------------------------------------------------------
(* setSplit, in DIRECTOR_REVIEW: the total is the sum of the two parts.    *)
SplitLoad(r) ==
    /\ status = "DIRECTOR_REVIEW"
    /\ line.total # 0
    /\ \E t \in Amounts :
          /\ TrancheFits(t, line.principal)
          /\ Begin(r, [Idle EXCEPT !.op = "split", !.pc = "write", !.line.total = t])
    /\ UNCHANGED <<status, line, amount, afford, score, decided>>

SplitWrite(r) ==
    /\ At(r, "split", "write")
    /\ line' = [line EXCEPT !.total = req[r].line.total]
    /\ Goto(r, "amount")
    /\ UNCHANGED <<status, amount, afford, score, decided, unsettled>>

\* Slip: the case keeps the amount the operator asked for.
SplitAmountKept(r) ==
    /\ At(r, "split", "amount")
    /\ Finish(r)
    /\ Settles(r, {"amount"})
    /\ UNCHANGED <<status, line, amount, afford, score, decided>>

SplitAmount(r) ==
    /\ At(r, "split", "amount")
    /\ amount' = req[r].line.total
    /\ Finish(r)
    /\ Settles(r, {"amount"})
    /\ UNCHANGED <<status, line, afford, score, decided>>

-----------------------------------------------------------------------------
(* persistScoring, at the end of a save and of a rate change.              *)
ScoreRead(r) ==
    /\ req[r].pc = "score"
    /\ req' = [req EXCEPT ![r].pc = "store", ![r].score = ScoreOf(afford, line)]
    /\ UNCHANGED <<status, line, amount, afford, score, decided, unsettled>>

ScoreStore(r) ==
    /\ req[r].pc = "store"
    /\ score' = req[r].score
    /\ Finish(r)
    /\ Settles(r, {"score"})
    /\ UNCHANGED <<status, line, amount, afford, decided>>

\* The read or the transaction fails; the error is logged and the save stands.
ScoreFails(r) ==
    /\ req[r].pc \in {"score", "store"}
    /\ Finish(r)
    /\ unsettled' = unsettled \cup {"score"}
    /\ UNCHANGED <<status, line, amount, afford, score, decided>>

\* A crash or a lost connection; also tranche.update on a row that is gone.
\* What had been written so far stays.
Cut(r) ==
    /\ req[r].pc # "idle"
    /\ Finish(r)
    /\ unsettled' = IF req[r].pc \in {"read", "write"} THEN unsettled ELSE Concerns
    /\ UNCHANGED <<status, line, amount, afford, score, decided>>

\* transition; a submit passes the gate only with a filled line, see CaseLifecycle.
Move ==
    /\ \E e \in Edges : /\ e[1] = status
                        /\ status' = e[2]
    /\ status = "DRAFT" => line.total # 0 /\ line.principal # 0 /\ TrancheFits(line.total, line.principal)
    /\ UNCHANGED <<line, amount, afford, score, req, decided, unsettled>>

Next ==
    \/ \E r \in Requests :
          \/ SaveRead(r) \/ SaveRate(r) \/ SaveWrite(r)
          \/ RateLoad(r) \/ RateWrite(r) \/ RateTranche(r) \/ RatePayment(r) \/ RateAfford(r)
          \/ SplitLoad(r) \/ SplitWrite(r) \/ SplitAmount(r)
          \/ ScoreRead(r) \/ ScoreStore(r) \/ ScoreFails(r) \/ Cut(r)
    \/ Move

Spec == Init /\ [][Next]_vars

-----------------------------------------------------------------------------
(* Every column and slot stays in its domain: the derived payment is none  *)
(* or one that a principal and a rate of the system give.                  *)
TypeOK ==
    /\ status \in Statuses
    /\ line \in Line
    /\ amount \in Amounts \cup {0}
    /\ afford \in Afford
    /\ score \in Score
    /\ req \in [Requests -> [op : Ops \cup {"none"},
                             pc : {"idle", "read", "write", "tranche", "payment", "afford",
                                   "amount", "score", "store"},
                             line : Line, afford : Afford, rate : Rates, pay : Payments,
                             sameLine : BOOLEAN, alone : BOOLEAN, score : Score]]
    /\ decided \in Rates \cup {0}
    /\ unsettled \subseteq Concerns

Settled(what) == InFlight = {} /\ what \notin unsettled

(* The tranche's payment is the one its principal and the line's rate      *)
(* give, across section saves, rate changes and returns to the draft,      *)
(* unless a request was cut between its statements or overlapped another   *)
(* and no whole one has followed (fillDerived's comment on BR-2026-0002).  *)
PaymentFollowsRate ==
    Settled("payment") => line.pay = monthlyPaymentFor(line.principal, line.rate)

(* The rate a moderator decided survives returns to the draft and re-saves *)
(* by the operator; only a save that had read the rate before the decision *)
(* and stores its line after it can undo it (applyUpdate's lineRate).      *)
DecidedRateKept ==
    "rate" \notin unsettled /\ decided # 0 /\ (\A r \in Requests : ~HoldsRate(r))
        => line.rate = decided

(* The case-level amount is the line's total and the tranche fits in it,   *)
(* whether the operator's save or the director's split wrote last, unless  *)
(* a split was cut or overlapped.                                          *)
AmountsAgree ==
    Settled("amount") /\ line.total # 0
        => amount = line.total /\ TrancheFits(line.total, line.principal)

(* The stored score is the one the case as it stands gives, unless its     *)
(* storing failed or overlapped and no whole request has followed          *)
(* (persistScoring's comment: the rows always describe the case).          *)
ScoreDescribesCase == Settled("score") => score = ScoreOf(afford, line)

(* The affordability row carries the tranche's payment after a whole       *)
(* update or rate change, until a section save takes them apart.           *)
AffordabilityFollows ==
    Settled("affordability") /\ afford # NoAfford /\ line.pay # NoPay
        => afford.pay = line.pay

(* What fillDerived's comment says of every save: affordability's          *)
(* newLoanPayment is overwritten, so a stale payment cannot survive one.   *)
PaymentsAgree ==
    unsettled \subseteq {"affordability"} /\ InFlight = {} /\ afford.pay # NoPay /\ line.pay # NoPay
        => afford.pay = line.pay
=============================================================================
