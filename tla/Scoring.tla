------------------------------ MODULE Scoring -------------------------------
(***************************************************************************)
(* The credit score: scoreCase adds the points of twenty factors of a case *)
(* in the order of the sheet, a factor without its input counting nothing, *)
(* and verdictFor turns the total into a verdict.                          *)
(*                                                                         *)
(* An answer that feeds one factor is left out but for the points it can   *)
(* give; kept are the age, the number of running loans and the four sums   *)
(* of money, which decide several factors or the verdict.                  *)
(***************************************************************************)
EXTENDS Integers

CONSTANTS
    Ages,     \* ages in years, and None for no date of birth
    Incomes,  \* bound: sums of the income lines, even
    Sums      \* bound: payments and expenses

VARIABLES
    case,    \* what the case says that several factors read
    total    \* the points of the case

vars == <<case, total>>

-----------------------------------------------------------------------------
None          == -1
SCORE_MIN     == 60
SCORE_APPROVE == 70
SCORE_MAX     == 100
AGE_MIN       == 18
AGE_MAX       == 68

\* The points of the factors that are one answer each; 0 for none given.
\* scoringInputFromCase never leaves out the position and the experience.
Single ==
    [n \in 1..20 |->
        CASE n = 1  -> {1, 2}        [] n = 3  -> {0, 1, 2, 3}  [] n = 4  -> {0, 2, 3}
          [] n = 6  -> {1, 2, 3}     [] n = 8  -> {1, 2, 3}     [] n = 9  -> {5, 6}
          [] n = 10 -> {2, 4, 5}     [] n = 11 -> {1, 3, 5}     [] n = 12 -> {0, 1, 2}
          [] n = 13 -> {0, 1, 2, 3}  [] n = 15 -> {0, 2}        [] n = 17 -> {-5, 0}
          [] n = 18 -> {-5, 0}       [] OTHER  -> {}]
AlwaysGiven == {10, 11}

Unscored == -100

Cases == [age : Ages, pledged : BOOLEAN, loans : {None, 0, 1, 2, 3},
          income : Incomes, payment : Sums, existing : Sums, expense : Sums]

Init == case \in Cases /\ total = Unscored

\* Tranche and expenses of scoringInputFromCase: what is already being paid
\* counts in both.
Tranche(c)  == c.payment + c.existing
Declared(c) == c.expense + c.existing

AgePoints(c) ==
    IF c.age = None \/ c.age > 68 \/ c.age < 20 THEN 0
    ELSE IF c.age >= 50 THEN 5 ELSE IF c.age >= 30 THEN 4 ELSE 2

LoanCountPoints(c) == IF c.loans = None THEN 0 ELSE IF c.loans >= 2 THEN c.loans ELSE 1

CurrentPoints(c, overdue) ==
    IF overdue # 0 \/ c.loans = None THEN 0
    ELSE CASE c.loans = 0 -> 5 [] c.loans = 1 -> 4 [] c.loans = 2 -> 2 [] OTHER -> 0

NoMoney(c) == c.income = 0 \/ Tranche(c) = 0

TrancheToIncome(c) == IF ~NoMoney(c) /\ 2 * Tranche(c) <= c.income THEN 22 ELSE 0

\* Slip: a missing sum falls through to the sheet's last branch.
SurplusToTrancheBlank(c) ==
    IF ~NoMoney(c) /\ c.income - 2 * Declared(c) >= 2 * Tranche(c) THEN 21 ELSE 16

SurplusToTranche(c) ==
    IF NoMoney(c) THEN 0
    ELSE IF c.income - 2 * Declared(c) >= 2 * Tranche(c) THEN 21 ELSE 16

\* The points factor n may give to the case.
Points(n, c) ==
    CASE n = 2  -> {AgePoints(c)}
      [] n = 5  -> IF c.pledged THEN {2, 4} ELSE {0}
      [] n = 7  -> IF c.pledged THEN {1, 3} ELSE {0}
      [] n = 14 -> {LoanCountPoints(c)}
      [] n = 16 -> {CurrentPoints(c, overdue) : overdue \in {None, 0, 1}}
      [] n = 19 -> {TrancheToIncome(c)}
      [] n = 20 -> {SurplusToTranche(c)}
      [] OTHER  -> Single[n] \cup (IF n \in AlwaysGiven THEN {} ELSE {0})

\* The sums the factors may come to, whatever the single answers are, in the
\* order of the sheet.
Totals(c) ==
    LET sums[n \in 0..20] == IF n = 0 THEN {0} ELSE {t + p : t \in sums[n - 1], p \in Points(n, c)}
    IN  sums[20]

\* A save changes the case, and persistScoring scores it again.
Save ==
    /\ case' \in {[case EXCEPT !.age = a] : a \in Ages} \cup {[case EXCEPT !.pledged = ~@]}
          \cup {[case EXCEPT !.loans = k] : k \in {None, 0, 1, 2, 3}}
          \cup {[case EXCEPT !.income = i] : i \in Incomes} \cup {[case EXCEPT !.payment = p] : p \in Sums}
          \cup {[case EXCEPT !.existing = p] : p \in Sums} \cup {[case EXCEPT !.expense = p] : p \in Sums}
    /\ total' = Unscored

Score ==
    /\ total = Unscored
    /\ total' \in Totals(case)
    /\ UNCHANGED case

Next == Save \/ Score

Spec == Init /\ [][Next]_vars

-----------------------------------------------------------------------------
verdictFor(points, age) ==
    IF points < SCORE_MIN THEN "BELOW_MIN"
    ELSE IF age # None /\ (age > AGE_MAX \/ age < AGE_MIN) THEN "REFER_COMMITTEE"
    ELSE IF points >= SCORE_APPROVE THEN "APPROVED" ELSE "REFER_COMMITTEE"

(* The total stays in its domain.  Two points of the hundred cannot be     *)
(* had: the running loans that fill factor 14 empty factor 16.             *)
TypeOK == case \in Cases /\ total \in {Unscored} \cup -10..(SCORE_MAX - 2)

(* A case whose income or payments are not entered is refused, whatever    *)
(* the other eighteen factors give: absent data never makes it look        *)
(* creditworthy (the comment on missing inputs in scoreCase).              *)
IncomeDecides == total # Unscored /\ NoMoney(case) => verdictFor(total, case.age) = "BELOW_MIN"
=============================================================================
