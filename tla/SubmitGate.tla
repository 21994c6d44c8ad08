----------------------------- MODULE SubmitGate -----------------------------
(***************************************************************************)
(* When an application is complete, said twice: by the wizard's `errors`,  *)
(* over the form the operator types, and by caseSubmitErrors, over the row *)
(* the server has stored, when the draft is submitted.  In between, finish *)
(* stores the form (createCase, then updateCase) and the loader turns the  *)
(* row into a form again, neither of them without loss: the kind of the    *)
(* seller is not a column, and the amount of a case is its line's total.   *)
(*                                                                         *)
(* A handler of a wizard page is one edit.  Text is filled in or not;      *)
(* `rest` stands for the borrower's PINFL, passport, phone and two         *)
(* contacts, which the two lists check alike.  A pledge says which of      *)
(* `valued`, `named` and `registered` (plate and technical passport, or    *)
(* cadastre) are entered; pledges alike in that count once.  0 stands for  *)
(* an amount or a term not entered.                                        *)
(* The section saves of the single steps are in OriginationForm.           *)
(***************************************************************************)
EXTENDS Integers, FiniteSets

CONSTANTS
    MaxEdits,   \* bound: edits of the form
    MaxPledges  \* bound: pledges of a cash loan

VARIABLES
    form,    \* what the wizard shows
    row,     \* what the server has stored
    exists,  \* there is a row
    clean,   \* the form is as it was when it was last stored or loaded
    edits

vars == <<form, row, exists, clean, edits>>

-----------------------------------------------------------------------------
MICRO_THRESHOLD == 15
LINE_TERM_CAP   == 60
TERM_CAP        == [ANNUITY |-> 30, DIFFERENTIATED |-> 48]
Methods         == DOMAIN TERM_CAP
Amounts         == {0, 1, 10, 20}
Kinds           == {"none", "LEGAL", "INDIVIDUAL"}
Pledges         == SUBSET {"valued", "named", "registered"}

Forms == [asset : BOOLEAN, name : BOOLEAN, rest : BOOLEAN, seller : Kinds, kind : Kinds,
          pledges : SUBSET Pledges, amount : Amounts, total : Amounts, term : {0, 60, 61},
          method : Methods \cup {"none"}, months : {0, 30, 31, 48, 49, 60, 61}, principal : Amounts,
          katm : BOOLEAN, employer : BOOLEAN, income : BOOLEAN]

\* A new application typed in full, a car or a flat bought from a firm among them.
Cash == [asset |-> FALSE, name |-> TRUE, rest |-> TRUE, seller |-> "none", kind |-> "none",
         pledges |-> {{"valued", "named", "registered"}}, amount |-> 0, total |-> 10, term |-> 60,
         method |-> "DIFFERENTIATED", months |-> 48, principal |-> 10,
         katm |-> TRUE, employer |-> TRUE, income |-> TRUE]
Bought == [Cash EXCEPT !.asset = TRUE, !.seller = "LEGAL", !.kind = "LEGAL", !.amount = 10,
                       !.pledges = {{"valued", "named"}}, !.method = "ANNUITY", !.months = 30]

Init ==
    /\ form \in {Cash, Bought}
    /\ row = form
    /\ exists = FALSE
    /\ clean = FALSE
    /\ edits = 0

-----------------------------------------------------------------------------
(* The rules both sides share.                                             *)
Or(a, b) == IF a # 0 THEN a ELSE b

isTermValid(method, months) == method # "none" /\ months \in 1..TERM_CAP[method]

\* Over the line, or short of it by one, two or three zeros.
trancheAmountViolations(line, drawn) ==
    /\ line > 0 /\ drawn > 0
    /\ drawn > line \/ \E k \in {10, 100, 1000} : drawn * k = line

loanRuleViolations(f) ==
    \/ f.method # "none" /\ f.months # 0 /\ ~isTermValid(f.method, f.months)
    \/ f.term > LINE_TERM_CAP
    \/ trancheAmountViolations(f.total, f.principal)

\* A newly built or bought asset has no plate, passport or cadastre yet.
collateralComplete(c, purchase) == {"valued", "named"} \subseteq c /\ (purchase \/ "registered" \in c)

\* Every pledge names an owner; with none entered the borrower stands in.
collateralOwnerErrors(f) == f.pledges # {} /\ ~f.name

-----------------------------------------------------------------------------
(* The wizard's errors, and what it takes the amount and the asset for.    *)
WizardAmount(f)  == Or(f.total, f.amount)

\* Slip: a purchase from a private owner counts as new, too.
WizardNewFirmAny(f) == f.asset

WizardNewFirm(f) == f.asset /\ f.kind = "LEGAL"

WizardErrors(f) ==
    {e \in {"borrower", "amount", "lineTerm", "collateral", "tranche", "principal", "katm", "employment"} :
        CASE e = "borrower"   -> ~(f.name /\ f.rest)
          [] e = "amount"     -> WizardAmount(f) = 0
          [] e = "lineTerm"   -> f.term \notin 1..LINE_TERM_CAP
          [] e = "collateral" -> \/ f.pledges = {}
                                 \/ f.asset /\ f.seller = "none"
                                 \/ \E c \in f.pledges : ~collateralComplete(c, WizardNewFirm(f))
          [] e = "tranche"    -> ~isTermValid(f.method, f.months)
          [] e = "principal"  -> f.principal = 0 \/ trancheAmountViolations(f.total, f.principal)
          [] e = "employment" -> WizardAmount(f) > MICRO_THRESHOLD /\ ~(f.employer /\ f.income)
          [] OTHER            -> ~f.katm}

Valid == WizardErrors(form) = {}

-----------------------------------------------------------------------------
(* The gate: caseSubmitErrors finds nothing in the stored row.             *)
NewFirm(c) == c.asset /\ c.seller = "LEGAL"

GateAccepts(c) ==
    LET amountTotal == Or(c.total, c.amount) IN
    /\ c.name /\ c.rest
    /\ amountTotal > 0
    /\ c.term \in 1..LINE_TERM_CAP
    /\ c.asset => c.seller # "none"
    /\ c.pledges # {}
    /\ \A p \in c.pledges : collateralComplete(p, NewFirm(c))
    /\ ~collateralOwnerErrors(c)
    /\ isTermValid(c.method, c.months)
    /\ c.principal > 0
    /\ ~trancheAmountViolations(amountTotal, c.principal)
    /\ c.katm
    /\ amountTotal > MICRO_THRESHOLD => c.employer /\ c.income

-----------------------------------------------------------------------------
(* The pages.                                                              *)
Patch(f) ==
    /\ edits < MaxEdits
    /\ form' = f
    /\ clean' = FALSE
    /\ edits' = edits + 1
    /\ UNCHANGED <<row, exists>>

\* Borrower, work, income and credit bureau: a field is filled in or cleared.
SetField ==
    \/ Patch([form EXCEPT !.name = ~@])
    \/ Patch([form EXCEPT !.rest = ~@])
    \/ Patch([form EXCEPT !.katm = ~@])
    \/ Patch([form EXCEPT !.employer = ~@])
    \/ Patch([form EXCEPT !.income = ~@])

\* applyPct: the loan is the price less the down payment, whose percentage
\* the page applies by itself when the seller is a firm.
Financed(f) == {[f EXCEPT !.amount = a, !.total = a] : a \in Amounts \ {0}}
Repriced(f) == IF f.asset /\ f.kind = "LEGAL" /\ \E c \in f.pledges : "valued" \in c THEN Financed(f) ELSE {f}

\* The pledges of a cash loan, the one asset of a purchase, which its page
\* adds by itself when there is none.
SetCol ==
    \/ \E c \in form.pledges, p \in Pledges :
          \E f \in Repriced([form EXCEPT !.pledges = (@ \ {c}) \cup {p}]) : Patch(f)
    \/ \E c \in form.pledges : Patch([form EXCEPT !.pledges = @ \ {c}])
    \/ /\ Cardinality(form.pledges) < IF form.asset THEN 1 ELSE MaxPledges
       /\ Patch([form EXCEPT !.pledges = @ \cup {{}}])

\* The buttons of StepSeller clear the choice; the list or the form makes it.
SetSeller ==
    /\ form.asset
    /\ \/ \E k \in {"LEGAL", "INDIVIDUAL"} :
             \E f \in Repriced([form EXCEPT !.kind = k, !.seller = "none"]) : Patch(f)
       \/ LET k == IF form.kind = "INDIVIDUAL" THEN "INDIVIDUAL" ELSE "LEGAL" IN
             \E f \in Repriced([form EXCEPT !.kind = k, !.seller = k]) : Patch(f)

SetDownPayment ==
    /\ form.asset /\ form.kind # "LEGAL" /\ \E c \in form.pledges : "valued" \in c
    /\ \E f \in Financed(form) : Patch(f)

\* setLine: the amount of a cash loan is split in two, both may be cleared.
SetLine ==
    \/ /\ ~form.asset
       /\ \E a \in Amounts : Patch([form EXCEPT !.total = a])
    \/ \E t \in {0, 60, 61} : Patch([form EXCEPT !.term = t])

\* setTr, and for an asset the defaults of the page: the whole sum is drawn.
SetTranche ==
    \E m \in Methods, n \in {0, 30, 31, 48, 49} :
        IF form.asset
        THEN Patch([form EXCEPT !.principal = Or(form.total, @), !.method = m, !.months = Or(n, form.term)])
        ELSE \E p \in Amounts : Patch([form EXCEPT !.principal = p, !.method = m, !.months = n])

-----------------------------------------------------------------------------
\* finish: createCase keeps the form's amount when the line has none; an
\* update takes the line's total.
Finish ==
    /\ Valid
    /\ ~loanRuleViolations(form)
    /\ row' = [form EXCEPT !.kind = "none", !.amount = IF exists THEN form.total ELSE Or(form.total, @)]
    /\ exists' = TRUE
    /\ clean' = TRUE
    /\ UNCHANGED <<form, edits>>

\* The draft is opened again: what the row does not hold is empty.
Reload ==
    /\ exists
    /\ form' = row
    /\ clean' = TRUE
    /\ UNCHANGED <<row, exists, edits>>

\* The operator leaves the wizard and begins another application.
Leave ==
    /\ form' \in {Cash, Bought}
    /\ row' = form'
    /\ exists' = FALSE /\ clean' = FALSE /\ edits' = 0

Next == \/ SetField \/ SetCol \/ SetSeller \/ SetDownPayment \/ SetLine \/ SetTranche
        \/ Finish \/ Reload \/ Leave

Spec == Init /\ [][Next]_vars

-----------------------------------------------------------------------------
(* Form and row stay in their domains.                                     *)
TypeOK ==
    /\ form \in Forms /\ row \in Forms
    /\ {exists, clean} \subseteq BOOLEAN
    /\ edits \in 0..MaxEdits

(* "Single source of truth mirroring the wizard's errors                   *)
(* (useOriginationForm)" (origination.ts:419): what the wizard calls       *)
(* complete the gate lets through, and the other way round.                *)
GateMirrorsWizard == clean => (Valid <=> GateAccepts(row))

(* The two lists agree on every form whose line carries the total, except  *)
(* that a purchase from a firm, once loaded again, is asked for papers the *)
(* gate does without.                                                      *)
GateAgrees ==
    clean /\ row.total > 0 =>
        /\ Valid => GateAccepts(row)
        /\ GateAccepts(row) /\ (NewFirm(row) => form.kind = "LEGAL") => Valid
=============================================================================
