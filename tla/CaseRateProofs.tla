--------------------------- MODULE CaseRateProofs ---------------------------
(***************************************************************************)
(* Theorems about CaseRate, for any amounts, principals, rates and incomes *)
(* and any number of requests in flight.                                   *)
(***************************************************************************)
EXTENDS CaseRate, TLAPS

-----------------------------------------------------------------------------
(* The inductive invariant.                                                *)
(*                                                                         *)
(* A request is alone from its begin until another one joins it, so while  *)
(* one that is not alone is in flight everything but the rate is unsettled *)
(* (CrowdInv), and one that is alone is the only one (AloneInv).  What the *)
(* properties promise between requests is kept while the only request is   *)
(* between its statements, except where it has written one side and not    *)
(* yet the other; there AloneInv says what it is about to write.           *)

\* What a slot carries, whoever else is in flight.
SlotsInv ==
    \A r \in Requests : LET q == req[r] IN
        /\ q.op = "save" /\ q.pc \in {"read", "write"} /\ q.line.total # 0
              => TrancheFits(q.line.total, q.line.principal)
        /\ q.op = "rate" /\ q.pc = "write" => line.total # 0
        /\ q.op = "split" /\ q.pc = "write" => q.line.total # 0 /\ line.total # 0

\* A request that is alone still stands on what it read.
AloneInv ==
    \A r \in Requests : LET q == req[r] IN
        q.alone /\ q.pc # "idle" =>
            /\ \A o \in Requests : o # r => req[o].pc = "idle"
            /\ q.sameLine
            /\ q.pc = "tranche" => q.rate = line.rate
            /\ q.pc = "payment" => q.pay = monthlyPaymentFor(line.principal, line.rate)
            /\ q.pc = "afford"  => /\ q.pay = line.pay
                                   /\ line.pay = monthlyPaymentFor(line.principal, line.rate)
            /\ q.op = "split" /\ q.pc = "write" => TrancheFits(q.line.total, line.principal)
            /\ q.pc = "amount" => /\ q.line.total = line.total
                                  /\ TrancheFits(line.total, line.principal)
            /\ q.pc = "store"  => q.score = ScoreOf(afford, line)

CrowdInv ==
    \A r \in Requests :
        req[r].pc # "idle" /\ ~req[r].alone => Concerns \ {"rate"} \subseteq unsettled

\* A rate change has stored the rate and not yet the payment.
PayInv ==
    "payment" \notin unsettled =>
        \/ line.pay = monthlyPaymentFor(line.principal, line.rate)
        \/ /\ \E r \in Requests : req[r].pc \in {"tranche", "payment"}
           /\ line.principal = 0 => line.pay = NoPay

\* A split has stored the line's total and not yet the case's amount.
AmountInv ==
    "amount" \notin unsettled /\ line.total # 0 =>
        \/ amount = line.total /\ TrancheFits(line.total, line.principal)
        \/ \E r \in Requests : req[r].pc = "amount"

\* A rate change has stored the payment and not yet the affordability row.
AffordInv ==
    "affordability" \notin unsettled /\ afford # NoAfford /\ line.pay # NoPay =>
        \/ afford.pay = line.pay
        \/ \E r \in Requests : req[r].pc = "afford"

\* The score has yet to be stored.
ScoreInv ==
    "score" \notin unsettled =>
        \/ score = ScoreOf(afford, line)
        \/ \E r \in Requests : req[r].pc \in {"afford", "score", "store"}

\* A save that holds a rate holds the decided one.
RateInv ==
    decided # 0 =>
        /\ line.total # 0
        /\ "rate" \notin unsettled =>
              /\ line.rate = decided
              /\ \A o \in Requests : HoldsRate(o) => req[o].rate = decided

SettleInv == PayInv /\ AmountInv /\ AffordInv /\ ScoreInv /\ RateInv

IInv == TypeOK /\ SlotsInv /\ AloneInv /\ CrowdInv /\ SettleInv

-----------------------------------------------------------------------------
Slot == [op : Ops \cup {"none"},
         pc : {"idle", "read", "write", "tranche", "payment", "afford", "amount", "score", "store"},
         line : Line, afford : Afford, rate : Rates, pay : Payments,
         sameLine : BOOLEAN, alone : BOOLEAN, score : Score]

\* The payment a principal and a rate give is one of the system's.
LEMMA PaymentType ==
  ASSUME NEW p \in Principals \cup {0}, NEW rate \in Rates
  PROVE  monthlyPaymentFor(p, rate) \in Payments
  BY DEF monthlyPaymentFor, Payments, NoPay

\* So is the score of a case.
LEMMA ScoreType ==
  ASSUME NEW a \in Afford, NEW l \in Line
  PROVE  ScoreOf(a, l) \in Score
  BY DEF ScoreOf, Score, Afford, NoAfford, Line, Payments, NoPay

\* The absent rows are rows.
LEMMA EmptyRows == NoLine \in Line /\ NoAfford \in Afford /\ NoPay \in Payments
  BY RatesAssumption DEF NoLine, NoAfford, NoPay, Line, Afford, Payments

\* A slot that has not begun is well formed, alone and on its line.
LEMMA IdleSlot ==
  /\ Idle \in Slot /\ Idle.op = "none" /\ Idle.pc = "idle" /\ Idle.sameLine = TRUE
  /\ Idle.alone = TRUE /\ Idle.line = NoLine /\ Idle.afford = NoAfford
  /\ Idle.rate = DefaultRate
<1>1. ScoreOf(NoAfford, NoLine) \in Score
  BY ScoreType, EmptyRows
<1> QED
  BY <1>1, EmptyRows, RatesAssumption, Zenon DEF Idle, Slot

\* The type invariant, with its records by name.
LEMMA TypedSlots == TypeOK <=> /\ status \in Statuses
                               /\ line \in Line
                               /\ amount \in Amounts \cup {0}
                               /\ afford \in Afford
                               /\ score \in Score
                               /\ req \in [Requests -> Slot]
                               /\ decided \in Rates \cup {0}
                               /\ unsettled \subseteq Concerns
  BY Zenon DEF TypeOK, Slot

\* While anything but the rate is settled, a request in flight is the only one.
LEMMA SettledAlone ==
  ASSUME IInv, NEW r \in Requests, req[r].pc # "idle",
         NEW c \in Concerns \ {"rate"}, c \notin unsettled
  PROVE  req[r].alone /\ \A o \in Requests : o # r => req[o].pc = "idle"
<1>1. req[r].alone
  BY Zenon DEF IInv, CrowdInv
<1> QED
  BY <1>1, Zenon DEF IInv, AloneInv

\* A case starts without a line, and with nothing decided.
LEMMA InitInv == Init => IInv
<1> SUFFICES ASSUME Init PROVE IInv
  OBVIOUS
<1> USE DEF Init
<1>1. \A r \in Requests : req[r] = Idle
  OBVIOUS
<1>2. TypeOK
  <2>1. score \in Score
    BY ScoreType, EmptyRows
  <2>2. req \in [Requests -> Slot]
    BY IdleSlot
  <2> QED
    BY <2>1, <2>2, EmptyRows, TypedSlots DEF Statuses
<1>3. SlotsInv /\ AloneInv /\ CrowdInv
  BY <1>1, IdleSlot, Zenon DEF SlotsInv, AloneInv, CrowdInv
<1>4. line.pay = monthlyPaymentFor(line.principal, line.rate) /\ line.total = 0
  BY DEF NoLine, monthlyPaymentFor
<1>5. SettleInv
  BY <1>4 DEF SettleInv, PayInv, AmountInv, AffordInv, ScoreInv, RateInv
<1> QED
  BY <1>2, <1>3, <1>5 DEF IInv

-----------------------------------------------------------------------------
(* A request begins.                                                       *)

\* Whatever a request begins with, if it is right about the line it has read.
LEMMA BeginKeeps ==
  ASSUME IInv, NEW r \in Requests, NEW q \in Slot, Begin(r, q),
         UNCHANGED <<status, line, amount, afford, score, decided>>,
         q.pc \in {"read", "write"}, q.op = "save" => q.pc = "read",
         q.op \in Ops, q.sameLine = TRUE, q.pc = "read" => q.op = "save",
         q.op = "save" /\ q.line.total # 0 => TrancheFits(q.line.total, q.line.principal),
         q.op = "rate" => line.total # 0,
         q.op = "split" => /\ q.line.total # 0 /\ line.total # 0
                           /\ TrancheFits(q.line.total, line.principal)
  PROVE  IInv'
<1>1. PICK a \in BOOLEAN : a = (InFlight = {})
  OBVIOUS
<1> DEFINE n == [q EXCEPT !.alone = a]
           b(o) == [req[o] EXCEPT !.alone = FALSE]
<1>2. /\ req[r].pc = "idle"
      /\ req' = [o \in Requests |-> IF o = r THEN n
                                    ELSE IF o \in InFlight THEN b(o) ELSE req[o]]
      /\ unsettled' = IF a THEN unsettled ELSE Concerns
  BY <1>1, Zenon DEF Begin
<1>3. req \in [Requests -> Slot] /\ unsettled \subseteq Concerns
  BY TypedSlots DEF IInv
<1>4. /\ n \in Slot /\ n.op = q.op /\ n.pc = q.pc /\ n.line = q.line /\ n.rate = q.rate
      /\ n.sameLine = TRUE /\ n.alone = a
  BY Zenon DEF Slot
<1>5. ASSUME NEW o \in Requests
      PROVE  /\ b(o) \in Slot /\ b(o).op = req[o].op /\ b(o).pc = req[o].pc
             /\ b(o).line = req[o].line /\ b(o).rate = req[o].rate /\ b(o).alone = FALSE
  BY <1>3, Zenon DEF Slot
<1> HIDE DEF n, b
<1>6. /\ req'[r] = n
      /\ \A o \in Requests : o # r => req'[o] = IF req[o].pc = "idle" THEN req[o] ELSE b(o)
  BY <1>2 DEF InFlight
<1>7. a <=> \A o \in Requests : req[o].pc = "idle"
  BY <1>1, Zenon DEF InFlight
<1>8. \A o \in Requests : o # r =>
         /\ req'[o].op = req[o].op /\ req'[o].pc = req[o].pc
         /\ req'[o].line = req[o].line /\ req'[o].rate = req[o].rate
         /\ req[o].pc # "idle" => req'[o].alone = FALSE
  BY <1>5, <1>6, ZenonT(60)
<1>9. req' \in [Requests -> Slot]
  BY <1>2, <1>3, <1>4, <1>5, Zenon
<1>10. TypeOK'
  <2>1. unsettled' \subseteq Concerns
    BY <1>2, <1>3
  <2> QED
    BY <1>9, <2>1, TypedSlots, Zenon DEF IInv, TypeOK, Slot
<1>11. SlotsInv'
  <2>1. SlotsInv
    BY DEF IInv
  <2> QED
    BY <1>4, <1>6, <1>8, <2>1 DEF SlotsInv
<1>12. AloneInv'
  <2> SUFFICES ASSUME NEW o \in Requests, req'[o].alone, req'[o].pc # "idle"
               PROVE  /\ o = r /\ a
    BY <1>4, <1>6, <1>7, <1>8 DEF AloneInv
  <2> QED
    BY <1>4, <1>6, <1>8
<1>13. CrowdInv'
  <2>1. a => \A o \in Requests : o # r => req'[o].pc = "idle"
    BY <1>7, <1>8
  <2> QED
    BY <1>2, <1>4, <1>6, <2>1 DEF CrowdInv
<1>14. SettleInv'
  <2>1. CASE a
    <3>1. unsettled' = unsettled
      BY <1>2, <2>1
    <3>2. ~HoldsRate(r)' /\ \A o \in Requests : o # r => HoldsRate(o)' = HoldsRate(o)
      BY <1>4, <1>6, <1>8 DEF HoldsRate, At
    <3>3. \A o \in Requests : req[o].pc = "idle"
      BY <1>7, <2>1
    <3>4. PayInv' /\ AmountInv' /\ AffordInv' /\ ScoreInv'
      BY <3>1, <3>3 DEF IInv, SettleInv, PayInv, AmountInv, AffordInv, ScoreInv
    <3>5. RateInv'
      BY <1>8, <3>1, <3>2 DEF IInv, SettleInv, RateInv
    <3> QED
      BY <3>4, <3>5 DEF SettleInv
  <2>2. CASE ~a
    <3>1. unsettled' = Concerns
      BY <1>2, <2>2
    <3> QED
      BY <3>1 DEF IInv, SettleInv, PayInv, AmountInv, AffordInv, ScoreInv, RateInv, Concerns
  <2> QED
    BY <2>1, <2>2
<1> QED
  BY <1>10, <1>11, <1>12, <1>13, <1>14 DEF IInv

\* A save begins, with a body whose tranche fits its total.
LEMMA SaveReadInv == ASSUME IInv, NEW r \in Requests, SaveRead(r) PROVE IInv'
<1>1. PICK t \in Amounts \cup {0}, p \in Principals \cup {0}, i \in Incomes \cup {0} :
         /\ t # 0 => p \in Principals /\ TrancheFits(t, p)
         /\ Begin(r, [Idle EXCEPT
                !.op = "save", !.pc = "read",
                !.line = IF t = 0 THEN NoLine ELSE [NoLine EXCEPT !.total = t, !.principal = p],
                !.afford = IF i = 0 THEN NoAfford ELSE [income |-> i, pay |-> afford.pay]])
  BY Zenon DEF SaveRead
<1> DEFINE l == IF t = 0 THEN NoLine ELSE [NoLine EXCEPT !.total = t, !.principal = p]
           a == IF i = 0 THEN NoAfford ELSE [income |-> i, pay |-> afford.pay]
           q == [Idle EXCEPT !.op = "save", !.pc = "read", !.line = l, !.afford = a]
<1>2. l \in Line /\ (l.total # 0 => TrancheFits(l.total, l.principal))
  BY <1>1, EmptyRows DEF Line, NoLine
<1>3. a \in Afford
  BY EmptyRows DEF IInv, TypeOK, Afford, NoAfford
<1> HIDE DEF l, a
<1>4. /\ q \in Slot /\ q.op = "save" /\ q.pc = "read" /\ q.sameLine = TRUE /\ q.line = l
  BY <1>2, <1>3, IdleSlot, Zenon DEF Slot, Ops
<1>5. Begin(r, q)
  BY <1>1, Zenon DEF q, l, a
<1>6. UNCHANGED <<status, line, amount, afford, score, decided>>
  BY DEF SaveRead
<1> HIDE DEF q
<1> QED
  BY <1>2, <1>4, <1>5, <1>6, BeginKeeps DEF Ops

\* A rate change loads the line.
LEMMA RateLoadInv == ASSUME IInv, NEW r \in Requests, RateLoad(r) PROVE IInv'
<1>1. PICK rate \in Rates : Begin(r, [Idle EXCEPT !.op = "rate", !.pc = "write", !.rate = rate])
  BY Zenon DEF RateLoad
<1> DEFINE q == [Idle EXCEPT !.op = "rate", !.pc = "write", !.rate = rate]
<1>2. q \in Slot /\ q.op = "rate" /\ q.pc = "write" /\ q.sameLine = TRUE
  BY IdleSlot, Zenon DEF Slot, Ops
<1>3. line.total # 0 /\ UNCHANGED <<status, line, amount, afford, score, decided>>
  BY DEF RateLoad
<1> HIDE DEF q
<1>4. Begin(r, q)
  BY <1>1, Zenon DEF q
<1> QED
  BY <1>2, <1>3, <1>4, BeginKeeps DEF Ops

\* A split loads the line.
LEMMA SplitLoadInv == ASSUME IInv, NEW r \in Requests, SplitLoad(r) PROVE IInv'
<1>1. PICK t \in Amounts :
         /\ TrancheFits(t, line.principal)
         /\ Begin(r, [Idle EXCEPT !.op = "split", !.pc = "write", !.line.total = t])
  BY Zenon DEF SplitLoad
<1> DEFINE l == [NoLine EXCEPT !.total = t]
           q == [Idle EXCEPT !.op = "split", !.pc = "write", !.line = l]
<1>2. l \in Line /\ l.total = t /\ t # 0
  BY EmptyRows, AmountsAssumption DEF Line, NoLine
<1>3. [Idle EXCEPT !.op = "split", !.pc = "write", !.line.total = t] = q
  BY IdleSlot DEF Slot
<1> HIDE DEF l
<1>4. q \in Slot /\ q.op = "split" /\ q.pc = "write" /\ q.sameLine = TRUE /\ q.line = l
  BY <1>2, IdleSlot, Zenon DEF Slot, Ops
<1>5. line.total # 0 /\ UNCHANGED <<status, line, amount, afford, score, decided>>
  BY DEF SplitLoad
<1> HIDE DEF q
<1>6. Begin(r, q)
  BY <1>1, <1>3, Zenon
<1> QED
  BY <1>1, <1>2, <1>4, <1>5, <1>6, BeginKeeps DEF Ops

-----------------------------------------------------------------------------
(* A request takes a step.                                                 *)

\* What the step of one request leaves of the slots: q is what it now carries.
LEMMA StepKeeps ==
  ASSUME IInv, NEW r \in Requests, req[r].pc # "idle", NEW q \in Slot,
         req' \in [Requests -> Slot], req'[r] = q,
         \A o \in Requests : o # r =>
            /\ req'[o].op = req[o].op /\ req'[o].pc = req[o].pc
            /\ req'[o].line = req[o].line /\ req'[o].alone = req[o].alone,
         ~req[r].alone => unsettled \ {"rate"} \subseteq unsettled',
         line.total # 0 => line'.total # 0,
         q.pc # "idle" =>
            /\ q.alone = req[r].alone
            /\ q.op = "save" /\ q.pc \in {"read", "write"} /\ q.line.total # 0
                  => TrancheFits(q.line.total, q.line.principal)
            /\ q.pc = "write" => q.op = "save"
            /\ q.alone =>
                  /\ q.sameLine
                  /\ q.pc = "tranche" => q.rate = line'.rate
                  /\ q.pc = "payment" => q.pay = monthlyPaymentFor(line'.principal, line'.rate)
                  /\ q.pc = "afford"  =>
                        /\ q.pay = line'.pay
                        /\ line'.pay = monthlyPaymentFor(line'.principal, line'.rate)
                  /\ q.pc = "amount" => /\ q.line.total = line'.total
                                        /\ TrancheFits(line'.total, line'.principal)
                  /\ q.pc = "store"  => q.score = ScoreOf(afford', line')
  PROVE  SlotsInv' /\ AloneInv' /\ CrowdInv'
<1>1. req \in [Requests -> Slot]
  BY TypedSlots DEF IInv
<1>2. \A o \in Requests : req[o].alone \in BOOLEAN /\ req'[o].alone \in BOOLEAN
  BY <1>1, Zenon DEF Slot
<1>3. SlotsInv'
  <2>1. SlotsInv
    BY DEF IInv
  <2> QED
    BY <2>1 DEF SlotsInv
<1>4. \A o \in Requests : o # r /\ req[o].pc # "idle" => ~req[o].alone /\ ~req[r].alone
  BY Zenon DEF IInv, AloneInv
<1>5. req[r].alone => \A o \in Requests : o # r => req[o].pc = "idle"
  BY Zenon DEF IInv, AloneInv
<1>6. AloneInv'
  <2> SUFFICES ASSUME NEW o \in Requests, req'[o].alone, req'[o].pc # "idle"
               PROVE  o = r
    BY <1>5, <1>2 DEF AloneInv
  <2> QED
    BY <1>4, Zenon
<1>7. CrowdInv'
  <2> SUFFICES ASSUME NEW o \in Requests, req'[o].pc # "idle", ~req'[o].alone
               PROVE  Concerns \ {"rate"} \subseteq unsettled'
    BY Zenon DEF CrowdInv
  <2>1. ~req[r].alone
    BY <1>4, Zenon
  <2>2. Concerns \ {"rate"} \subseteq unsettled
    BY <2>1, Zenon DEF IInv, CrowdInv
  <2> QED
    BY <2>1, <2>2
<1> QED
  BY <1>3, <1>6, <1>7

\* A request ends: what it would have settled alone is settled, or something
\* is left unsettled.
LEMMA FinishKeeps ==
  ASSUME IInv, NEW r \in Requests, req[r].pc # "idle", Finish(r),
         ~req[r].alone => unsettled \ {"rate"} \subseteq unsettled',
         line.total # 0 => line'.total # 0
  PROVE  /\ req' \in [Requests -> Slot] /\ SlotsInv' /\ AloneInv' /\ CrowdInv'
         /\ req'[r] = Idle /\ \A o \in Requests : o # r => req'[o] = req[o]
<1>1. req \in [Requests -> Slot]
  BY TypedSlots DEF IInv
<1>2. /\ req' \in [Requests -> Slot] /\ req'[r] = Idle
      /\ \A o \in Requests : o # r => req'[o] = req[o]
  BY <1>1, IdleSlot DEF Finish
<1> QED
  BY <1>2, IdleSlot, StepKeeps, Zenon

\* A save takes the rate of the stored line, or the default one.
LEMMA SaveRateInv == ASSUME IInv, NEW r \in Requests, SaveRate(r) PROVE IInv'
<1> DEFINE q == [req[r] EXCEPT !.pc = "write",
                               !.rate = IF line.total = 0 THEN DefaultRate ELSE line.rate]
<1>1. req \in [Requests -> Slot] /\ TypeOK /\ line \in Line
  BY TypedSlots DEF IInv
<1>2. /\ req[r].op = "save" /\ req[r].pc = "read"
      /\ UNCHANGED <<status, line, amount, afford, score, decided, unsettled>>
      /\ req' = [req EXCEPT ![r] = q]
  BY <1>1 DEF SaveRate, At
<1>3. line.rate \in Rates
  BY <1>1 DEF Line
<1>4. /\ q \in Slot /\ q.op = "save" /\ q.pc = "write" /\ q.line = req[r].line
      /\ q.alone = req[r].alone /\ q.sameLine = req[r].sameLine
      /\ q.rate = IF line.total = 0 THEN DefaultRate ELSE line.rate
  BY <1>1, <1>2, <1>3, RatesAssumption, Zenon DEF Slot
<1> HIDE DEF q
<1>5. /\ req' \in [Requests -> Slot] /\ req'[r] = q
      /\ \A o \in Requests : o # r => req'[o] = req[o]
  BY <1>1, <1>2, <1>4
<1>6. TypeOK'
  BY <1>1, <1>2, <1>5, TypedSlots, Zenon DEF TypeOK, Slot
<1>7. SlotsInv' /\ AloneInv' /\ CrowdInv'
  <2>1. /\ q.line.total # 0 => TrancheFits(q.line.total, q.line.principal)
        /\ q.alone => q.sameLine
    BY <1>2, <1>4, ZenonT(60) DEF IInv, SlotsInv, AloneInv
  <2> QED
    BY <1>2, <1>4, <1>5, <2>1, StepKeeps
<1>8. PayInv' /\ AmountInv' /\ AffordInv' /\ ScoreInv'
  BY <1>2, <1>4, <1>5 DEF IInv, SettleInv, PayInv, AmountInv, AffordInv, ScoreInv
<1>9. RateInv'
  <2>1. \A o \in Requests : o # r => HoldsRate(o)' = HoldsRate(o)
    BY <1>5 DEF HoldsRate, At
  <2> QED
    BY <1>2, <1>4, <1>5, <2>1 DEF IInv, SettleInv, RateInv
<1> QED
  BY <1>6, <1>7, <1>8, <1>9 DEF IInv, SettleInv

\* What fillDerived gives for a body that has a line.
LEMMA FilledIn ==
  ASSUME NEW q \in Slot
  PROVE  LET d  == fillDerived(q, q.rate)
             mp == monthlyPaymentFor(q.line.principal, q.rate)
         IN  /\ d.line \in Line /\ d.afford \in Afford
             /\ q.line.total # 0 =>
                   /\ d.line.total = q.line.total /\ d.line.principal = q.line.principal
                   /\ d.line.rate = q.rate /\ d.line.pay = mp
                   /\ mp # NoPay /\ q.afford # NoAfford => d.afford.pay = mp
             /\ q.line.principal # 0 => mp # NoPay
<1> DEFINE mp == monthlyPaymentFor(q.line.principal, q.rate)
           l  == [q.line EXCEPT !.rate = q.rate, !.pay = mp]
           a  == IF q.afford = NoAfford \/ mp = NoPay THEN q.afford ELSE [q.afford EXCEPT !.pay = mp]
<1>1. q.line \in Line /\ q.afford \in Afford /\ q.rate \in Rates
  BY Zenon DEF Slot
<1>2. q.line.principal \in Principals \cup {0}
  BY <1>1 DEF Line
<1>3. mp \in Payments
  BY <1>1, <1>2, PaymentType
<1>4. q.line.principal # 0 => mp # NoPay
  BY DEF monthlyPaymentFor, NoPay
<1> HIDE DEF mp
<1>5. /\ l \in Line /\ l.total = q.line.total /\ l.principal = q.line.principal
      /\ l.rate = q.rate /\ l.pay = mp
  BY <1>1, <1>3 DEF Line
<1>6. a \in Afford /\ (mp # NoPay /\ q.afford # NoAfford => a.pay = mp)
  BY <1>1, <1>3 DEF Afford
<1>7. fillDerived(q, q.rate) = IF q.line.total = 0 THEN [line |-> NoLine, afford |-> q.afford]
                               ELSE [line |-> l, afford |-> a]
  BY Zenon DEF fillDerived, mp
<1> HIDE DEF l, a
<1> QED
  BY <1>1, <1>4, <1>5, <1>6, <1>7, EmptyRows DEF mp

\* A save recreates the line in one transaction.
LEMMA SaveWriteInv == ASSUME IInv, NEW r \in Requests, SaveWrite(r) PROVE IInv'
<1> DEFINE n == [Idle EXCEPT !.op = "save", !.pc = "score", !.alone = req[r].alone]
           b(o) == [req[o] EXCEPT !.sameLine = FALSE]
<1>1. req \in [Requests -> Slot] /\ TypeOK /\ req[r] \in Slot
  BY TypedSlots DEF IInv
<1> PICK q \in Slot : q = req[r]
  BY <1>1
<1> PICK d : d = fillDerived(q, q.rate)
  OBVIOUS
<1> PICK hasLine \in BOOLEAN : hasLine = (q.line.total # 0)
  OBVIOUS
<1> PICK hasAfford \in BOOLEAN : hasAfford = (q.afford # NoAfford)
  OBVIOUS
<1> PICK whole \in BOOLEAN : whole = (hasLine /\ hasAfford /\ q.line.principal # 0)
  OBVIOUS
<1> PICK settles : settles = (IF hasLine THEN {"payment", "amount"} ELSE {})
                                \cup (IF whole THEN {"affordability"} ELSE {})
  OBVIOUS
<1>2. /\ q.op = "save" /\ q.pc = "write"
      /\ line'   = IF hasLine THEN d.line ELSE line
      /\ amount' = IF hasLine THEN q.line.total ELSE amount
      /\ afford' = IF hasAfford THEN d.afford ELSE afford
      /\ req' = [o \in Requests |-> IF o = r THEN n
                                    ELSE IF hasLine /\ req[o].op = "rate" THEN b(o) ELSE req[o]]
      /\ unsettled' = (IF q.alone THEN unsettled \ settles ELSE unsettled)
                          \cup IF (hasLine \/ hasAfford) /\ ~whole THEN {"affordability"} ELSE {}
      /\ UNCHANGED <<status, score, decided>>
  BY Zenon DEF SaveWrite, At
<1>3. /\ n \in Slot /\ n.op = "save" /\ n.pc = "score" /\ n.alone = q.alone
      /\ n.sameLine = TRUE
  BY IdleSlot, <1>1, Zenon DEF Slot, Ops
<1>4. ASSUME NEW o \in Requests
      PROVE  /\ b(o) \in Slot /\ b(o).op = req[o].op /\ b(o).pc = req[o].pc
             /\ b(o).line = req[o].line /\ b(o).rate = req[o].rate /\ b(o).alone = req[o].alone
  BY <1>1, Zenon DEF Slot
<1> HIDE DEF n, b
<1>5. /\ req' \in [Requests -> Slot] /\ req'[r] = n
      /\ \A o \in Requests : o # r =>
            /\ req'[o].op = req[o].op /\ req'[o].pc = req[o].pc /\ req'[o].rate = req[o].rate
            /\ req'[o].line = req[o].line /\ req'[o].alone = req[o].alone
  BY <1>1, <1>2, <1>3, <1>4, Zenon
<1> DEFINE mp == monthlyPaymentFor(q.line.principal, q.rate)
<1>6. /\ d.line \in Line /\ d.afford \in Afford
      /\ hasLine => /\ d.line.total = q.line.total /\ d.line.principal = q.line.principal
                    /\ d.line.rate = q.rate /\ d.line.pay = mp
                    /\ mp # NoPay /\ q.afford # NoAfford => d.afford.pay = mp
      /\ whole => mp # NoPay
  BY FilledIn
<1>7. hasLine => TrancheFits(q.line.total, q.line.principal) /\ q.line.total \in Amounts
  BY <1>1, <1>2 DEF IInv, SlotsInv, Slot, Line
<1>8. unsettled' \subseteq Concerns
  BY <1>1, <1>2 DEF TypeOK, Concerns
<1>9. TypeOK'
  <2>1. line' \in Line /\ afford' \in Afford /\ amount' \in Amounts \cup {0}
    BY <1>1, <1>2, <1>6, <1>7, SMTT(60) DEF TypeOK
  <2> QED
    BY <1>1, <1>2, <1>5, <1>8, <2>1, TypedSlots, Zenon DEF TypeOK, Slot
<1>10. SlotsInv' /\ AloneInv' /\ CrowdInv'
  <2>1. ~req[r].alone => unsettled \ {"rate"} \subseteq unsettled'
    BY <1>2
  <2>2. line.total # 0 => line'.total # 0
    BY <1>2, <1>6
  <2> QED
    BY <1>2, <1>3, <1>5, <2>1, <2>2, StepKeeps
<1>11. ASSUME NEW c \in Concerns \ {"rate"}, c \notin unsettled
       PROVE  req[r].alone /\ \A o \in Requests : o # r => req[o].pc = "idle"
  BY <1>2, <1>11, SettledAlone
<1>13. ASSUME NEW c \in Concerns, c \notin unsettled'
       PROVE  c \notin unsettled \/ (req[r].alone /\ c \in settles)
  <2>1. CASE req[r].alone
    BY <1>2, <1>13, <2>1
  <2>2. CASE ~req[r].alone
    <3>1. unsettled \subseteq unsettled'
      BY <1>2, <2>2, Zenon
    <3> QED
      BY <1>13, <3>1
  <2> QED
    BY <2>1, <2>2
<1>12. ASSUME NEW c \in Concerns \ {"rate"}, c \notin unsettled'
       PROVE  \A o \in Requests : o # r => req[o].pc = "idle"
  <2>1. req[r].alone => \A o \in Requests : o # r => req[o].pc = "idle"
    BY <1>2, Zenon DEF IInv, AloneInv
  <2> QED
    BY <1>11, <1>13, <1>12, <2>1, Zenon
<1>15. \A o \in Requests : req'[o].pc \in {"tranche", "payment", "amount", "afford"} =>
          o # r /\ req[o].pc = req'[o].pc
  BY <1>3, <1>5
<1> HIDE DEF mp
<1>16. PayInv'
  <2> SUFFICES ASSUME "payment" \notin unsettled'
               PROVE  line'.pay = monthlyPaymentFor(line'.principal, line'.rate)
    BY DEF PayInv
  <2>1. CASE hasLine
    BY <1>2, <1>6, <2>1 DEF mp
  <2>2. CASE ~hasLine
    <3>1. "payment" \notin unsettled /\ line' = line
      BY <1>2, <2>2
    <3>2. \A o \in Requests : req[o].pc \notin {"tranche", "payment"}
      BY <1>2, <1>12 DEF Concerns
    <3> QED
      BY <3>1, <3>2 DEF IInv, SettleInv, PayInv
  <2> QED
    BY <2>1, <2>2
<1>17. AmountInv'
  <2> SUFFICES ASSUME "amount" \notin unsettled', line'.total # 0
               PROVE  amount' = line'.total /\ TrancheFits(line'.total, line'.principal)
    BY DEF AmountInv
  <2>1. CASE hasLine
    BY <1>2, <1>6, <1>7, <2>1
  <2>2. CASE ~hasLine
    <3>1. "amount" \notin unsettled /\ line' = line /\ amount' = amount
      BY <1>2, <2>2
    <3>2. \A o \in Requests : req[o].pc # "amount"
      BY <1>2, <1>12 DEF Concerns
    <3> QED
      BY <3>1, <3>2 DEF IInv, SettleInv, AmountInv
  <2> QED
    BY <2>1, <2>2
<1>18. AffordInv'
  <2> SUFFICES ASSUME "affordability" \notin unsettled', afford' # NoAfford, line'.pay # NoPay
               PROVE  afford'.pay = line'.pay
    BY DEF AffordInv
  <2>1. whole \/ (~hasLine /\ ~hasAfford)
    BY <1>2
  <2>2. CASE whole
    BY <1>2, <1>6, <2>2
  <2>3. CASE ~hasLine /\ ~hasAfford
    <3>1. "affordability" \notin unsettled /\ line' = line /\ afford' = afford
      BY <1>2, <2>3
    <3>2. \A o \in Requests : req[o].pc # "afford"
      BY <1>2, <1>12 DEF Concerns
    <3> QED
      BY <3>1, <3>2 DEF IInv, SettleInv, AffordInv
  <2> QED
    BY <2>1, <2>2, <2>3
<1>19. ScoreInv'
  BY <1>3, <1>5 DEF ScoreInv
<1>20. RateInv'
  <2> SUFFICES ASSUME decided # 0 PROVE RateInv'
    BY <1>2 DEF RateInv
  <2>1. RateInv
    BY DEF IInv, SettleInv
  <2>2. "rate" \notin unsettled' => "rate" \notin unsettled
    BY <1>2
  <2>3. \A o \in Requests : HoldsRate(o)' => o # r /\ HoldsRate(o) /\ req'[o].rate = req[o].rate
    BY <1>3, <1>5 DEF HoldsRate, At
  <2>4. line'.total # 0
    BY <1>2, <1>6, <2>1 DEF RateInv
  <2>5. "rate" \notin unsettled /\ hasLine => line'.rate = decided
    <3>1. hasLine => HoldsRate(r)
      BY <1>2 DEF HoldsRate, At
    <3> QED
      BY <1>2, <1>6, <2>1, <3>1 DEF RateInv
  <2> QED
    BY <1>2, <2>1, <2>2, <2>3, <2>4, <2>5 DEF RateInv
<1> QED
  BY <1>9, <1>10, <1>16, <1>17, <1>18, <1>19, <1>20 DEF IInv, SettleInv

\* A step that only moves on.
LEMMA GotoSlot ==
  ASSUME IInv, NEW r \in Requests, Goto(r, "tranche") \/ Goto(r, "afford") \/ Goto(r, "amount")
  PROVE  LET q == req'[r] IN
         /\ req' \in [Requests -> Slot] /\ req[r] \in Slot
         /\ Goto(r, "tranche") => q.pc = "tranche"
         /\ Goto(r, "afford") => q.pc = "afford"
         /\ Goto(r, "amount") => q.pc = "amount"
         /\ q.pc \in {"tranche", "afford", "amount"}
         /\ q.op = req[r].op /\ q.line = req[r].line /\ q.rate = req[r].rate /\ q.pay = req[r].pay
         /\ q.sameLine = req[r].sameLine /\ q.alone = req[r].alone
         /\ \A o \in Requests : o # r => req'[o] = req[o]
<1>1. req \in [Requests -> Slot] /\ req[r] \in Slot
  BY TypedSlots DEF IInv
<1>2. PICK pc \in {"tranche", "afford", "amount"} : Goto(r, pc)
  OBVIOUS
<1> DEFINE q == [req[r] EXCEPT !.pc = pc]
<1>3. /\ q \in Slot /\ q.pc = pc
      /\ q.op = req[r].op /\ q.line = req[r].line /\ q.rate = req[r].rate /\ q.pay = req[r].pay
      /\ q.sameLine = req[r].sameLine /\ q.alone = req[r].alone
  BY <1>1, <1>2, Zenon DEF Slot
<1>4. req' = [req EXCEPT ![r] = q]
  BY <1>1, <1>2 DEF Goto
<1> HIDE DEF q
<1>5. req' \in [Requests -> Slot] /\ req'[r] = q /\ \A o \in Requests : o # r => req'[o] = req[o]
  BY <1>1, <1>3, <1>4
<1>6. ASSUME NEW x \in {"tranche", "afford", "amount"}, Goto(r, x) PROVE req'[r].pc = x
  <2> DEFINE n == [req[r] EXCEPT !.pc = x]
  <2>1. req' = [req EXCEPT ![r] = n]
    BY <1>1, <1>6 DEF Goto
  <2>2. n.pc = x
    BY <1>1, Zenon DEF Slot
  <2> HIDE DEF n
  <2> QED
    BY <1>1, <2>1, <2>2
<1> QED
  BY <1>1, <1>3, <1>5, <1>6, Zenon

\* The concerns that are settled while r is in flight are settled for r alone.
LEMMA OnlyOne ==
  ASSUME IInv, NEW r \in Requests, req[r].pc # "idle"
  PROVE  /\ \A c \in Concerns \ {"rate"} : c \notin unsettled =>
               req[r].alone /\ \A o \in Requests : o # r => req[o].pc = "idle"
         /\ req[r].alone => \A o \in Requests : o # r => req[o].pc = "idle"
<1>1. req[r].alone => \A o \in Requests : o # r => req[o].pc = "idle"
  BY Zenon DEF IInv, AloneInv
<1> QED
  BY <1>1, SettledAlone, Zenon

\* The saves that hold a rate are no others when a slot changes to one that
\* is none.
LEMMA HoldersKept ==
  ASSUME NEW r \in Requests, \A o \in Requests : o # r => req'[o] = req[o],
         req'[r].pc # "write"
  PROVE  \A o \in Requests : HoldsRate(o)' => HoldsRate(o) /\ req'[o] = req[o]
  BY DEF HoldsRate, At

\* A rate change writes the rate.
LEMMA RateWriteInv == ASSUME IInv, NEW r \in Requests, RateWrite(r) PROVE IInv'
<1>1. /\ req[r].op = "rate" /\ req[r].pc = "write" /\ Goto(r, "tranche")
      /\ line' = [line EXCEPT !.rate = req[r].rate] /\ decided' = req[r].rate
      /\ unsettled' = IF \E o \in Requests : HoldsRate(o)
                      THEN unsettled \cup {"rate"} ELSE unsettled \ {"rate"}
      /\ UNCHANGED <<status, amount, afford, score>>
  BY DEF RateWrite, At
<1>2. TypeOK /\ line \in Line
  BY DEF IInv, TypeOK
<1>3. /\ req' \in [Requests -> Slot] /\ req[r] \in Slot /\ req'[r].pc = "tranche"
      /\ req'[r].op = req[r].op /\ req'[r].line = req[r].line /\ req'[r].rate = req[r].rate
      /\ req'[r].sameLine = req[r].sameLine /\ req'[r].alone = req[r].alone
      /\ \A o \in Requests : o # r => req'[o] = req[o]
  BY <1>1, GotoSlot
<1>4. req[r].rate \in Rates
  BY <1>3 DEF Slot
<1>5. /\ line' \in Line /\ line'.rate = req[r].rate /\ line'.total = line.total
      /\ line'.principal = line.principal /\ line'.pay = line.pay
  BY <1>1, <1>2, <1>4 DEF Line
<1>6. TypeOK'
  <2>1. unsettled' \subseteq Concerns
    BY <1>1, <1>2 DEF TypeOK, Concerns
  <2> QED
    BY <1>1, <1>2, <1>3, <1>4, <1>5, <2>1, TypedSlots, Zenon DEF TypeOK, Slot
<1>7. SlotsInv' /\ AloneInv' /\ CrowdInv'
  <2>1. req[r].alone => req[r].sameLine
    BY <1>1, Zenon DEF IInv, AloneInv
  <2>2. unsettled \ {"rate"} \subseteq unsettled'
    BY <1>1
  <2> QED
    BY <1>1, <1>3, <1>5, <2>1, <2>2, StepKeeps
<1>9. /\ \A c \in Concerns \ {"rate"} : c \notin unsettled' => c \notin unsettled
      /\ \A c \in Concerns \ {"rate"} : c \notin unsettled =>
            \A o \in Requests : o # r => req[o].pc = "idle"
  BY <1>1, OnlyOne
<1>10. PayInv'
  <2> SUFFICES ASSUME "payment" \notin unsettled'
               PROVE  /\ \E o \in Requests : req'[o].pc \in {"tranche", "payment"}
                      /\ line'.principal = 0 => line'.pay = NoPay
    BY DEF PayInv
  <2>1. "payment" \notin unsettled /\ \A o \in Requests : req[o].pc \notin {"tranche", "payment"}
    BY <1>1, <1>9 DEF Concerns
  <2>2. line.pay = monthlyPaymentFor(line.principal, line.rate)
    BY <2>1 DEF IInv, SettleInv, PayInv
  <2> QED
    BY <1>3, <1>5, <2>2 DEF monthlyPaymentFor
<1>11. AmountInv' /\ AffordInv' /\ ScoreInv'
  <2>1. /\ "amount" \notin unsettled' => \A o \in Requests : req[o].pc # "amount"
        /\ "affordability" \notin unsettled' => \A o \in Requests : req[o].pc # "afford"
        /\ "score" \notin unsettled' =>
              \A o \in Requests : req[o].pc \notin {"afford", "score", "store"}
    BY <1>1, <1>9 DEF Concerns
  <2>2. ScoreOf(afford, line)' = ScoreOf(afford, line)
    BY <1>1, <1>5 DEF ScoreOf
  <2>3. AmountInv'
    BY <1>1, <1>5, <2>1, <1>9 DEF IInv, SettleInv, AmountInv, Concerns
  <2>4. AffordInv'
    BY <1>1, <1>5, <2>1, <1>9 DEF IInv, SettleInv, AffordInv, Concerns
  <2>5. ScoreInv'
    BY <1>1, <2>1, <2>2, <1>9 DEF IInv, SettleInv, ScoreInv, Concerns
  <2> QED
    BY <2>3, <2>4, <2>5
<1>12. RateInv'
  <2>1. line.total # 0
    BY <1>1 DEF IInv, SlotsInv
  <2>2. \A o \in Requests : HoldsRate(o)' => HoldsRate(o)
    BY <1>3, HoldersKept
  <2> QED
    BY <1>1, <1>5, <2>1, <2>2 DEF RateInv
<1> QED
  BY <1>6, <1>7, <1>10, <1>11, <1>12 DEF IInv, SettleInv

\* Then it looks for the tranche, and computes the payment.
LEMMA RateTrancheInv == ASSUME IInv, NEW r \in Requests, RateTranche(r) PROVE IInv'
<1>1. req \in [Requests -> Slot] /\ req[r] \in Slot /\ TypeOK /\ line \in Line
  BY TypedSlots DEF IInv, TypeOK
<1> PICK found \in BOOLEAN : found = (req[r].sameLine /\ line.principal # 0)
  OBVIOUS
<1> PICK pay : pay = monthlyPaymentFor(line.principal, req[r].rate)
  OBVIOUS
<1> PICK pc \in {"payment", "score"} : pc = IF found THEN "payment" ELSE "score"
  OBVIOUS
<1> DEFINE q == [req[r] EXCEPT !.pc = pc, !.pay = pay, !.rate = DefaultRate]
<1>2. /\ req[r].op = "rate" /\ req[r].pc = "tranche"
      /\ UNCHANGED <<status, line, amount, afford, score, decided, unsettled>>
      /\ req' = [req EXCEPT ![r] = q]
  BY <1>1 DEF RateTranche, At
<1>3. pay \in Payments
  BY <1>1, PaymentType DEF Line, Slot
<1>4. /\ q \in Slot /\ q.op = "rate" /\ q.pc = pc /\ q.pay = pay
      /\ q.sameLine = req[r].sameLine /\ q.alone = req[r].alone
  BY <1>1, <1>2, <1>3, RatesAssumption, Zenon DEF Slot
<1> HIDE DEF q
<1>5. req' \in [Requests -> Slot] /\ req'[r] = q /\ \A o \in Requests : o # r => req'[o] = req[o]
  BY <1>1, <1>2, <1>4
<1>6. TypeOK'
  BY <1>1, <1>2, <1>5, TypedSlots, Zenon DEF TypeOK, Slot
<1>7. req[r].alone => req[r].sameLine /\ req[r].rate = line.rate
  BY <1>2, Zenon DEF IInv, AloneInv
<1>8. SlotsInv' /\ AloneInv' /\ CrowdInv'
  <2>1. q.alone => q.sameLine /\ q.pay = monthlyPaymentFor(line'.principal, line'.rate)
    BY <1>2, <1>4, <1>7, Zenon
  <2> QED
    BY <1>2, <1>4, <1>5, <2>1, StepKeeps
<1>9. PayInv'
  <2> SUFFICES ASSUME "payment" \notin unsettled
               PROVE  PayInv'
    BY <1>2 DEF PayInv
  <2>1. req[r].alone
    BY <1>2, OnlyOne, Zenon DEF Concerns
  <2>2. found \/ line.principal = 0
    BY <1>7, <2>1, Zenon
  <2>3. PayInv
    BY DEF IInv, SettleInv
  <2>4. line.pay = monthlyPaymentFor(line.principal, line.rate) \/ (line.principal = 0 => line.pay = NoPay)
    BY <2>3 DEF PayInv
  <2>5. CASE found
    <3>1. line.principal # 0 /\ req'[r].pc = "payment"
      BY <1>4, <1>5, <2>5, Zenon
    <3> QED
      BY <3>1, <1>2 DEF PayInv
  <2>6. CASE line.principal = 0
    BY <1>2, <2>4, <2>6 DEF PayInv, monthlyPaymentFor
  <2> QED
    BY <2>2, <2>5, <2>6
<1>10. AmountInv' /\ AffordInv' /\ ScoreInv'
  BY <1>2, <1>4, <1>5 DEF IInv, SettleInv, AmountInv, AffordInv, ScoreInv
<1>11. RateInv'
  BY <1>2, <1>4, <1>5, HoldersKept DEF IInv, SettleInv, RateInv
<1> QED
  BY <1>6, <1>8, <1>9, <1>10, <1>11 DEF IInv, SettleInv

\* Then it writes the payment.
LEMMA RatePaymentInv == ASSUME IInv, NEW r \in Requests, RatePayment(r) PROVE IInv'
<1>1. /\ req[r].op = "rate" /\ req[r].pc = "payment" /\ Goto(r, "afford")
      /\ line' = [line EXCEPT !.pay = req[r].pay]
      /\ unsettled' = IF req[r].alone THEN unsettled \ {"payment"} ELSE unsettled
      /\ UNCHANGED <<status, amount, afford, score, decided>>
  BY Zenon DEF RatePayment, At, Settles
<1>2. TypeOK /\ line \in Line
  BY DEF IInv, TypeOK
<1>3. /\ req' \in [Requests -> Slot] /\ req[r] \in Slot /\ req'[r].pc = "afford"
      /\ req'[r].op = req[r].op /\ req'[r].line = req[r].line /\ req'[r].pay = req[r].pay
      /\ req'[r].sameLine = req[r].sameLine /\ req'[r].alone = req[r].alone
      /\ \A o \in Requests : o # r => req'[o] = req[o]
  BY <1>1, GotoSlot
<1>4. req[r].pay \in Payments
  BY <1>3 DEF Slot
<1>5. /\ line' \in Line /\ line'.rate = line.rate /\ line'.total = line.total
      /\ line'.principal = line.principal /\ line'.pay = req[r].pay
  BY <1>1, <1>2, <1>4 DEF Line
<1>6. unsettled' \subseteq unsettled /\ unsettled \ {"payment"} \subseteq unsettled'
  BY <1>1
<1>7. TypeOK'
  <2>1. unsettled' \subseteq Concerns
    BY <1>2, <1>6 DEF TypeOK
  <2> QED
    BY <1>1, <1>2, <1>3, <1>5, <2>1, TypedSlots, Zenon DEF TypeOK, Slot
<1>8. req[r].alone =>
         /\ req[r].sameLine
         /\ req[r].pay = monthlyPaymentFor(line.principal, line.rate)
  BY <1>1, Zenon DEF IInv, AloneInv
<1>9. SlotsInv' /\ AloneInv' /\ CrowdInv'
  <2>1. req[r].alone => /\ req[r].sameLine /\ req[r].pay = line'.pay
                        /\ line'.pay = monthlyPaymentFor(line'.principal, line'.rate)
    BY <1>5, <1>8, Zenon
  <2>2. ~req[r].alone => unsettled \ {"rate"} \subseteq unsettled'
    BY <1>1
  <2> QED
    BY <1>1, <1>3, <1>5, <2>1, <2>2, StepKeeps
<1>10. PayInv'
  <2> SUFFICES ASSUME "payment" \notin unsettled'
               PROVE  line'.pay = monthlyPaymentFor(line'.principal, line'.rate)
    BY DEF PayInv
  <2>1. req[r].alone
    <3> SUFFICES ASSUME ~req[r].alone PROVE FALSE
      OBVIOUS
    <3>1. unsettled' = unsettled
      BY <1>1, Zenon
    <3> QED
      BY <1>1, <3>1, OnlyOne, Zenon DEF Concerns
  <2> QED
    BY <1>5, <1>8, <2>1, Zenon
<1>11. AmountInv'
  <2>1. \A o \in Requests : req'[o].pc = "amount" <=> req[o].pc = "amount"
    BY <1>1, <1>3
  <2> QED
    BY <1>1, <1>5, <1>6, <2>1 DEF IInv, SettleInv, AmountInv
<1>12. AffordInv' /\ ScoreInv'
  BY <1>3 DEF AffordInv, ScoreInv
<1>13. RateInv'
  BY <1>1, <1>3, <1>5, <1>6, HoldersKept DEF IInv, SettleInv, RateInv
<1> QED
  BY <1>7, <1>9, <1>10, <1>11, <1>12, <1>13 DEF IInv, SettleInv

\* Then the payment of the affordability.
LEMMA RateAffordInv == ASSUME IInv, NEW r \in Requests, RateAfford(r) PROVE IInv'
<1> DEFINE q == [req[r] EXCEPT !.pc = "score", !.pay = NoPay, !.sameLine = TRUE]
<1>1. req \in [Requests -> Slot] /\ req[r] \in Slot /\ TypeOK
  BY TypedSlots DEF IInv
<1>2. /\ req[r].op = "rate" /\ req[r].pc = "afford"
      /\ afford' = IF afford = NoAfford THEN afford ELSE [afford EXCEPT !.pay = req[r].pay]
      /\ req' = [req EXCEPT ![r] = q]
      /\ UNCHANGED <<status, line, amount, score, decided>>
  BY <1>1 DEF RateAfford, At
<1>3. unsettled' = IF req[r].alone THEN unsettled \ {"affordability"} ELSE unsettled
  BY Zenon DEF RateAfford, Settles
<1>4. q \in Slot /\ q.op = "rate" /\ q.pc = "score" /\ q.sameLine = TRUE /\ q.alone = req[r].alone
  BY <1>1, <1>2, EmptyRows, Zenon DEF Slot
<1> HIDE DEF q
<1>5. req' \in [Requests -> Slot] /\ req'[r] = q /\ \A o \in Requests : o # r => req'[o] = req[o]
  BY <1>1, <1>2, <1>4
<1>6. unsettled' \subseteq unsettled /\ unsettled \ {"affordability"} \subseteq unsettled'
  BY <1>3
<1>7. afford' \in Afford /\ (afford' # NoAfford => afford'.pay = req[r].pay)
  BY <1>1, <1>2 DEF TypeOK, Slot, Afford
<1>8. TypeOK'
  <2>1. unsettled' \subseteq Concerns
    BY <1>1, <1>6 DEF TypeOK
  <2> QED
    BY <1>1, <1>2, <1>5, <1>7, <2>1, TypedSlots, Zenon DEF TypeOK, Slot
<1>9. SlotsInv' /\ AloneInv' /\ CrowdInv'
  <2>1. ~req[r].alone => unsettled \ {"rate"} \subseteq unsettled'
    BY <1>3
  <2> QED
    BY <1>2, <1>4, <1>5, <2>1, StepKeeps
<1>10. req[r].alone =>
          /\ req[r].pay = line.pay
          /\ line.pay = monthlyPaymentFor(line.principal, line.rate)
  BY <1>2, Zenon DEF IInv, AloneInv
<1>11. PayInv'
  <2> SUFFICES ASSUME "payment" \notin unsettled
               PROVE  line.pay = monthlyPaymentFor(line.principal, line.rate)
    BY <1>2, <1>6 DEF PayInv
  <2> QED
    BY <1>2, <1>10, OnlyOne, Zenon DEF Concerns
<1>12. AffordInv'
  <2> SUFFICES ASSUME "affordability" \notin unsettled', afford' # NoAfford
               PROVE  afford'.pay = line'.pay
    BY DEF AffordInv
  <2>1. req[r].alone
    <3> SUFFICES ASSUME ~req[r].alone PROVE FALSE
      OBVIOUS
    <3>1. unsettled' = unsettled
      BY <1>3, Zenon
    <3> QED
      BY <1>2, <3>1, OnlyOne, Zenon DEF Concerns
  <2> QED
    BY <1>2, <1>7, <1>10, <2>1, Zenon
<1>13. AmountInv' /\ ScoreInv'
  <2>1. \A o \in Requests : req'[o].pc = "amount" <=> req[o].pc = "amount"
    BY <1>2, <1>4, <1>5
  <2>2. AmountInv'
    BY <1>2, <1>6, <2>1 DEF IInv, SettleInv, AmountInv
  <2>3. ScoreInv'
    BY <1>4, <1>5 DEF ScoreInv
  <2> QED
    BY <2>2, <2>3
<1>14. RateInv'
  BY <1>2, <1>4, <1>5, <1>6, HoldersKept DEF IInv, SettleInv, RateInv
<1> QED
  BY <1>8, <1>9, <1>11, <1>12, <1>13, <1>14 DEF IInv, SettleInv

\* A split writes the total of the line.
LEMMA SplitWriteInv == ASSUME IInv, NEW r \in Requests, SplitWrite(r) PROVE IInv'
<1>1. /\ req[r].op = "split" /\ req[r].pc = "write" /\ Goto(r, "amount")
      /\ line' = [line EXCEPT !.total = req[r].line.total]
      /\ UNCHANGED <<status, amount, afford, score, decided, unsettled>>
  BY DEF SplitWrite, At
<1>2. TypeOK /\ line \in Line
  BY DEF IInv, TypeOK
<1>3. /\ req' \in [Requests -> Slot] /\ req[r] \in Slot /\ req'[r].pc = "amount"
      /\ req'[r].op = req[r].op /\ req'[r].line = req[r].line
      /\ req'[r].sameLine = req[r].sameLine /\ req'[r].alone = req[r].alone
      /\ \A o \in Requests : o # r => req'[o] = req[o]
  BY <1>1, GotoSlot
<1>4. req[r].line.total \in Amounts \cup {0} /\ req[r].line.total # 0
  <2>1. req[r].line.total # 0
    BY <1>1 DEF IInv, SlotsInv
  <2> QED
    BY <1>3, <2>1 DEF Slot, Line
<1>5. /\ line' \in Line /\ line'.total = req[r].line.total /\ line'.rate = line.rate
      /\ line'.principal = line.principal /\ line'.pay = line.pay
  BY <1>1, <1>2, <1>4 DEF Line
<1>6. TypeOK'
  BY <1>1, <1>2, <1>3, <1>5, TypedSlots, Zenon DEF TypeOK, Slot
<1>7. SlotsInv' /\ AloneInv' /\ CrowdInv'
  <2>1. req[r].alone => req[r].sameLine /\ TrancheFits(req[r].line.total, line.principal)
    BY <1>1, Zenon DEF IInv, AloneInv
  <2> QED
    BY <1>1, <1>3, <1>4, <1>5, <2>1, StepKeeps
<1>8. PayInv' /\ AmountInv'
  <2>1. \A o \in Requests : req[o].pc \in {"tranche", "payment"} => req'[o].pc = req[o].pc
    BY <1>1, <1>3
  <2>2. PayInv'
    BY <1>1, <1>5, <2>1 DEF IInv, SettleInv, PayInv
  <2>3. AmountInv'
    BY <1>3 DEF AmountInv
  <2> QED
    BY <2>2, <2>3
<1>9. AffordInv' /\ ScoreInv'
  <2>1. \A o \in Requests : req[o].pc \in {"afford", "score", "store"} => req'[o].pc = req[o].pc
    BY <1>1, <1>3
  <2>2. ScoreOf(afford, line)' = ScoreOf(afford, line)
    BY <1>1, <1>5 DEF ScoreOf
  <2>3. AffordInv'
    BY <1>1, <1>5, <2>1 DEF IInv, SettleInv, AffordInv
  <2>4. ScoreInv'
    BY <1>1, <2>1, <2>2 DEF IInv, SettleInv, ScoreInv
  <2> QED
    BY <2>3, <2>4
<1>10. RateInv'
  BY <1>1, <1>3, <1>4, <1>5, HoldersKept DEF IInv, SettleInv, RateInv
<1> QED
  BY <1>6, <1>7, <1>8, <1>9, <1>10 DEF IInv, SettleInv

\* Then the amount of the case.
LEMMA SplitAmountInv == ASSUME IInv, NEW r \in Requests, SplitAmount(r) PROVE IInv'
<1>1. /\ req[r].op = "split" /\ req[r].pc = "amount" /\ Finish(r)
      /\ amount' = req[r].line.total
      /\ unsettled' = IF req[r].alone THEN unsettled \ {"amount"} ELSE unsettled
      /\ UNCHANGED <<status, line, afford, score, decided>>
  BY Zenon DEF SplitAmount, At, Settles
<1>2. TypeOK /\ req[r] \in Slot
  BY TypedSlots DEF IInv
<1>3. unsettled' \subseteq unsettled /\ unsettled \ {"amount"} \subseteq unsettled'
  BY <1>1
<1>4. /\ req' \in [Requests -> Slot] /\ SlotsInv' /\ AloneInv' /\ CrowdInv'
      /\ req'[r] = Idle /\ \A o \in Requests : o # r => req'[o] = req[o]
  <2>1. ~req[r].alone => unsettled \ {"rate"} \subseteq unsettled'
    BY <1>1
  <2> QED
    BY <1>1, <2>1, FinishKeeps
<1>5. TypeOK'
  <2>1. unsettled' \subseteq Concerns
    BY <1>2, <1>3 DEF TypeOK
  <2>2. amount' \in Amounts \cup {0}
    BY <1>1, <1>2 DEF Slot, Line
  <2> QED
    BY <1>1, <1>2, <1>4, <2>1, <2>2, TypedSlots, Zenon DEF TypeOK, Slot
<1>6. \A o \in Requests : req[o].pc # "amount" => req'[o].pc = req[o].pc
  BY <1>1, <1>4
<1>7. PayInv' /\ AffordInv' /\ ScoreInv'
  BY <1>1, <1>3, <1>6 DEF IInv, SettleInv, PayInv, AffordInv, ScoreInv
<1>8. AmountInv'
  <2> SUFFICES ASSUME "amount" \notin unsettled'
               PROVE  amount' = line'.total /\ TrancheFits(line'.total, line'.principal)
    BY DEF AmountInv
  <2>1. req[r].alone
    <3> SUFFICES ASSUME ~req[r].alone PROVE FALSE
      OBVIOUS
    <3>1. unsettled' = unsettled
      BY <1>1, Zenon
    <3> QED
      BY <1>1, <3>1, OnlyOne, Zenon DEF Concerns
  <2>2. req[r].line.total = line.total /\ TrancheFits(line.total, line.principal)
    BY <1>1, <2>1, Zenon DEF IInv, AloneInv
  <2> QED
    BY <1>1, <2>2
<1>9. RateInv'
  BY <1>1, <1>3, <1>4, IdleSlot, HoldersKept DEF IInv, SettleInv, RateInv
<1> QED
  BY <1>4, <1>5, <1>7, <1>8, <1>9 DEF IInv, SettleInv

\* A scoring reads the case.
LEMMA ScoreReadInv == ASSUME IInv, NEW r \in Requests, ScoreRead(r) PROVE IInv'
<1> PICK s : s = ScoreOf(afford, line)
  OBVIOUS
<1> DEFINE q == [req[r] EXCEPT !.pc = "store", !.score = s]
<1>1. req \in [Requests -> Slot] /\ req[r] \in Slot /\ TypeOK
  BY TypedSlots DEF IInv
<1>2. /\ req[r].pc = "score" /\ req' = [req EXCEPT ![r] = q]
      /\ UNCHANGED <<status, line, amount, afford, score, decided, unsettled>>
  BY <1>1 DEF ScoreRead
<1>3. s \in Score
  BY <1>1, ScoreType DEF TypeOK
<1>4. /\ q \in Slot /\ q.op = req[r].op /\ q.pc = "store" /\ q.score = s
      /\ q.sameLine = req[r].sameLine /\ q.alone = req[r].alone
      /\ q.line = req[r].line
  BY <1>1, <1>3, Zenon DEF Slot
<1> HIDE DEF q
<1>5. req' \in [Requests -> Slot] /\ req'[r] = q /\ \A o \in Requests : o # r => req'[o] = req[o]
  BY <1>1, <1>2, <1>4
<1>6. TypeOK'
  BY <1>1, <1>2, <1>5, TypedSlots, Zenon DEF TypeOK, Slot
<1>7. SlotsInv' /\ AloneInv' /\ CrowdInv'
  <2>1. req[r].alone => req[r].sameLine
    BY <1>2, Zenon DEF IInv, AloneInv
  <2>2. ScoreOf(afford', line') = s
    BY <1>2
  <2> QED
    BY <1>2, <1>4, <1>5, <2>1, <2>2, StepKeeps
<1>8. \A o \in Requests : req[o].pc # "score" => req'[o].pc = req[o].pc
  BY <1>2, <1>5
<1>9. PayInv' /\ AmountInv' /\ AffordInv' /\ ScoreInv'
  BY <1>2, <1>4, <1>5, <1>8 DEF IInv, SettleInv, PayInv, AmountInv, AffordInv, ScoreInv
<1>10. RateInv'
  BY <1>2, <1>4, <1>5, HoldersKept DEF IInv, SettleInv, RateInv
<1> QED
  BY <1>6, <1>7, <1>9, <1>10 DEF IInv, SettleInv

\* And stores what it computed.
LEMMA ScoreStoreInv == ASSUME IInv, NEW r \in Requests, ScoreStore(r) PROVE IInv'
<1>1. /\ req[r].pc = "store" /\ Finish(r) /\ score' = req[r].score
      /\ unsettled' = IF req[r].alone THEN unsettled \ {"score"} ELSE unsettled
      /\ UNCHANGED <<status, line, amount, afford, decided>>
  BY Zenon DEF ScoreStore, Settles
<1>2. TypeOK /\ req[r] \in Slot
  BY TypedSlots DEF IInv
<1>3. unsettled' \subseteq unsettled /\ unsettled \ {"score"} \subseteq unsettled'
  BY <1>1
<1>4. /\ req' \in [Requests -> Slot] /\ SlotsInv' /\ AloneInv' /\ CrowdInv'
      /\ req'[r] = Idle /\ \A o \in Requests : o # r => req'[o] = req[o]
  <2>1. ~req[r].alone => unsettled \ {"rate"} \subseteq unsettled'
    BY <1>1
  <2> QED
    BY <1>1, <2>1, FinishKeeps
<1>5. TypeOK'
  <2>1. unsettled' \subseteq Concerns /\ score' \in Score
    BY <1>1, <1>2, <1>3 DEF TypeOK, Slot
  <2> QED
    BY <1>1, <1>2, <1>4, <2>1, TypedSlots, Zenon DEF TypeOK, Slot
<1>6. \A o \in Requests : req[o].pc # "store" => req'[o].pc = req[o].pc
  BY <1>1, <1>4
<1>7. PayInv' /\ AmountInv' /\ AffordInv'
  BY <1>1, <1>3, <1>6 DEF IInv, SettleInv, PayInv, AmountInv, AffordInv
<1>8. ScoreInv'
  <2> SUFFICES ASSUME "score" \notin unsettled' PROVE score' = ScoreOf(afford, line)
    BY <1>1 DEF ScoreInv
  <2>1. req[r].alone
    <3> SUFFICES ASSUME ~req[r].alone PROVE FALSE
      OBVIOUS
    <3>1. unsettled' = unsettled
      BY <1>1, Zenon
    <3> QED
      BY <1>1, <3>1, OnlyOne, Zenon DEF Concerns
  <2> QED
    BY <1>1, <2>1, Zenon DEF IInv, AloneInv
<1>9. RateInv'
  BY <1>1, <1>3, <1>4, IdleSlot, HoldersKept DEF IInv, SettleInv, RateInv
<1> QED
  BY <1>4, <1>5, <1>7, <1>8, <1>9 DEF IInv, SettleInv

\* A scoring that fails stores nothing.
LEMMA ScoreFailsInv == ASSUME IInv, NEW r \in Requests, ScoreFails(r) PROVE IInv'
<1>1. /\ req[r].pc \in {"score", "store"} /\ Finish(r)
      /\ unsettled' = unsettled \cup {"score"}
      /\ UNCHANGED <<status, line, amount, afford, score, decided>>
  BY DEF ScoreFails
<1>2. TypeOK
  BY DEF IInv
<1>3. /\ req' \in [Requests -> Slot] /\ SlotsInv' /\ AloneInv' /\ CrowdInv'
      /\ req'[r] = Idle /\ \A o \in Requests : o # r => req'[o] = req[o]
  BY <1>1, FinishKeeps
<1>4. TypeOK'
  <2>1. unsettled' \subseteq Concerns
    BY <1>1, <1>2 DEF TypeOK, Concerns
  <2> QED
    BY <1>1, <1>2, <1>3, <2>1, TypedSlots, Zenon DEF TypeOK, Slot
<1>5. \A o \in Requests : req[o].pc \notin {"score", "store"} => req'[o].pc = req[o].pc
  BY <1>1, <1>3
<1>6. PayInv' /\ AmountInv' /\ AffordInv' /\ ScoreInv'
  BY <1>1, <1>5 DEF IInv, SettleInv, PayInv, AmountInv, AffordInv, ScoreInv
<1>7. RateInv'
  BY <1>1, <1>3, IdleSlot, HoldersKept DEF IInv, SettleInv, RateInv
<1> QED
  BY <1>3, <1>4, <1>6, <1>7 DEF IInv, SettleInv

\* A request is cut off between two statements.
LEMMA CutInv == ASSUME IInv, NEW r \in Requests, Cut(r) PROVE IInv'
<1>1. /\ req[r].pc # "idle" /\ Finish(r)
      /\ unsettled' = IF req[r].pc \in {"read", "write"} THEN unsettled ELSE Concerns
      /\ UNCHANGED <<status, line, amount, afford, score, decided>>
  BY DEF Cut
<1>2. TypeOK /\ unsettled \subseteq Concerns
  BY DEF IInv, TypeOK
<1>3. unsettled \subseteq unsettled' /\ unsettled' \subseteq Concerns
  BY <1>1, <1>2
<1>4. /\ req' \in [Requests -> Slot] /\ SlotsInv' /\ AloneInv' /\ CrowdInv'
      /\ req'[r] = Idle /\ \A o \in Requests : o # r => req'[o] = req[o]
  BY <1>1, <1>3, FinishKeeps
<1>5. TypeOK'
  BY <1>1, <1>2, <1>3, <1>4, TypedSlots, Zenon DEF TypeOK, Slot
<1>6. PayInv' /\ AmountInv' /\ AffordInv' /\ ScoreInv'
  <2>1. CASE req[r].pc \in {"read", "write"}
    <3>1. \A o \in Requests : req[o].pc \notin {"read", "write"} => req'[o].pc = req[o].pc
      BY <1>4, <2>1
    <3> QED
      BY <1>1, <2>1, <3>1 DEF IInv, SettleInv, PayInv, AmountInv, AffordInv, ScoreInv
  <2>2. CASE req[r].pc \notin {"read", "write"}
    BY <1>1, <2>2 DEF PayInv, AmountInv, AffordInv, ScoreInv, Concerns
  <2> QED
    BY <2>1, <2>2
<1>7. RateInv'
  BY <1>1, <1>3, <1>4, IdleSlot, HoldersKept DEF IInv, SettleInv, RateInv
<1> QED
  BY <1>4, <1>5, <1>6, <1>7 DEF IInv, SettleInv

\* A step that only moves the status keeps the invariant.
LEMMA SameInv ==
  ASSUME IInv, UNCHANGED <<line, amount, afford, score, req, decided, unsettled>>,
         status' \in Statuses
  PROVE  IInv'
<1>1. TypeOK' /\ SlotsInv' /\ AloneInv' /\ CrowdInv'
  BY ZenonT(60) DEF IInv, TypeOK, SlotsInv, AloneInv, CrowdInv
<1>2. SettleInv'
  BY Zenon DEF IInv, SettleInv, PayInv, AmountInv, AffordInv, ScoreInv, RateInv, HoldsRate, At
<1> QED
  BY <1>1, <1>2 DEF IInv

\* A transition only moves the status.
LEMMA MoveInv == ASSUME IInv, Move PROVE IInv'
<1>1. /\ UNCHANGED <<line, amount, afford, score, req, decided, unsettled>>
      /\ status' \in Statuses
  BY DEF Move, Edges, Statuses
<1> QED
  BY <1>1, SameInv

-----------------------------------------------------------------------------
(* What follows.                                                           *)

\* Every step keeps the invariant.
LEMMA NextInv == IInv /\ [Next]_vars => IInv'
<1>1. ASSUME IInv, UNCHANGED vars PROVE IInv'
  BY <1>1, SameInv DEF vars, IInv, TypeOK
<1>2. ASSUME IInv, Next PROVE IInv'
  BY <1>2, SaveReadInv, SaveRateInv, SaveWriteInv, RateLoadInv, RateWriteInv, RateTrancheInv,
     RatePaymentInv, RateAffordInv, SplitLoadInv, SplitWriteInv, SplitAmountInv, ScoreReadInv,
     ScoreStoreInv, ScoreFailsInv, CutInv, MoveInv, Zenon DEF Next
<1> QED
  BY <1>1, <1>2

\* The invariant holds throughout, as the theorems below need.
LEMMA InvAlways == Spec => []IInv
  BY InitInv, NextInv, PTL DEF Spec

\* Every column and every slot stays in its domain, whatever the amounts and
\* the rates: the derived payment is none or one that they give.
THEOREM TypesKept == Spec => []TypeOK
<1>1. IInv => TypeOK
  BY DEF IInv
<1> QED
  BY <1>1, InvAlways, PTL

\* setRate decides: the line has the rate the moderator stored last, also
\* after returns to the draft and re-saves by the operator, unless a save was
\* holding the rate of before when the decision was stored (applyUpdate).
THEOREM RateSurvives == Spec => []DecidedRateKept
<1>1. IInv => DecidedRateKept
  BY DEF IInv, SettleInv, RateInv, DecidedRateKept
<1> QED
  BY <1>1, InvAlways, PTL

\* The tranche's payment is the one of its principal and the line's rate once
\* the last of saves, rate changes and splits has ended, unless one was cut or
\* overlapped and none has put it right (fillDerived, setRate).
THEOREM PaymentSettles == Spec => []PaymentFollowsRate
<1>1. IInv => PaymentFollowsRate
  BY DEF IInv, SettleInv, PayInv, PaymentFollowsRate, Settled, InFlight
<1> QED
  BY <1>1, InvAlways, PTL

\* The case's amount is the line's total and the tranche fits in it, whether
\* applyUpdate or setSplit wrote last.
THEOREM AmountSettles == Spec => []AmountsAgree
<1>1. IInv => AmountsAgree
  BY DEF IInv, SettleInv, AmountInv, AmountsAgree, Settled, InFlight
<1> QED
  BY <1>1, InvAlways, PTL

\* The stored score is the one of the case as it stands, unless persistScoring
\* failed or overlapped and none has followed.
THEOREM ScoreSettles == Spec => []ScoreDescribesCase
<1>1. IInv => ScoreDescribesCase
  BY DEF IInv, SettleInv, ScoreInv, ScoreDescribesCase, Settled, InFlight
<1> QED
  BY <1>1, InvAlways, PTL

\* The affordability row has the tranche's payment after a whole update or a
\* rate change, until a save of one section takes them apart.
THEOREM AffordabilitySettles == Spec => []AffordabilityFollows
<1>1. IInv => AffordabilityFollows
  BY DEF IInv, SettleInv, AffordInv, AffordabilityFollows, Settled, InFlight
<1> QED
  BY <1>1, InvAlways, PTL
=============================================================================
