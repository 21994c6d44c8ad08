------------------------- MODULE CollectionsProofs -------------------------
(***************************************************************************)
(* Theorems about Collections, for any set of collections and requests and *)
(* any amounts.                                                            *)
(***************************************************************************)
EXTENDS Collections, TLAPS

(* What a request in flight carries: the columns of a patch have the values *)
(* of the columns of a row, and closedAt comes with the status.             *)

PatchTyped(p) ==
    /\ DOMAIN p \subseteq Columns
    /\ "status"  \in DOMAIN p => p["status"]  \in Statuses
    /\ "closed"  \in DOMAIN p => p["closed"]  \in BOOLEAN /\ "status" \in DOMAIN p
    /\ "months"  \in DOMAIN p => p["months"]  \in Amounts
    /\ "penalty" \in DOMAIN p => p["penalty"] \in Amounts
    /\ "total"   \in DOMAIN p => p["total"]   \in Nat

SlotTyped(q) ==
    /\ q.pc \in {"idle", "create", "update", "remove", "visit"}
    /\ IF q.pc \in {"update", "remove", "visit"}
       THEN q.on \in Collections ELSE q.on = NoCollection
    /\ PatchTyped(q.patch)

SlotsTyped == DOMAIN req = Requests /\ \A r \in Requests : SlotTyped(req[r])

TypeInv == TypeOK /\ SlotsTyped

\* The slot of a request that has not begun is well formed.
LEMMA IdleSlot ==
  /\ SlotTyped(Idle) /\ Idle.pc = "idle" /\ Idle.on = NoCollection
  /\ DOMAIN Idle.patch = {} /\ PatchTyped(NoPatch) /\ DOMAIN NoPatch = {}
  BY DEF SlotTyped, PatchTyped, Idle, NoPatch, Columns

\* A body names months, penalty, assigned and status, each with a value of
\* its column.
LEMMA BodyType ==
  ASSUME NEW body \in Bodies
  PROVE  /\ "months"  \in DOMAIN body => body["months"]  \in Amounts
         /\ "penalty" \in DOMAIN body => body["penalty"] \in Amounts
         /\ "status"  \in DOMAIN body => body["status"]  \in Statuses
<1>1. PICK m \in MoneyFields, a \in AssignFields, s \in StatusFields :
         body = Merged(m, Merged(a, s))
  BY DEF Bodies
<1>2. /\ DOMAIN m \subseteq {"months", "penalty"} /\ \A f \in DOMAIN m : m[f] \in Amounts
      /\ DOMAIN a \subseteq {"assigned"}
      /\ DOMAIN s \subseteq {"status"} /\ \A f \in DOMAIN s : s[f] \in Statuses
  BY DEF NoPatch, MoneyFields, AssignFields, StatusFields
<1>3. DOMAIN body = DOMAIN m \cup (DOMAIN a \cup DOMAIN s)
  BY <1>1 DEF Merged
<1>4. \A f \in DOMAIN body : body[f] = IF f \in DOMAIN m THEN m[f]
                                       ELSE IF f \in DOMAIN a THEN a[f] ELSE s[f]
  BY <1>1 DEF Merged
<1> QED
  BY <1>2, <1>3, <1>4

\* A change of money writes typed columns, whose total is right for the row.
LEMMA MoneyPatchType ==
  ASSUME NEW old \in Row, NEW body \in Bodies
  PROVE  LET p == MoneyPatch(old, body)
         IN  /\ PatchTyped(p) /\ DOMAIN p \subseteq {"months", "penalty", "total"}
             /\ DOMAIN p # {} => Patched(old, p).total
                                   = Patched(old, p).months + Patched(old, p).penalty
  BY BodyType, IdleSlot, BoundsAssumption
     DEF MoneyPatch, PatchTyped, Columns, NextMonths, Given, Total, Row, Amounts, Patched

\* A change of status writes typed columns, and stamps closedAt with CLOSED.
LEMMA StatusPatchType ==
  ASSUME NEW old \in Row, NEW body \in Bodies
  PROVE  LET p == StatusPatch(old, body)
         IN  /\ PatchTyped(p) /\ DOMAIN p \subseteq {"status", "closed"}
             /\ old.closed = (old.status = "CLOSED") =>
                   Patched(old, p).closed = (Patched(old, p).status = "CLOSED")
  BY BodyType, IdleSlot
     DEF StatusPatch, PatchTyped, Columns, Given, Row, Statuses, Patched

\* What UpdateRead puts into its slot: a typed patch, from which a row that
\* has the right total and stamp gets the right total and stamp.
LEMMA PatchType ==
  ASSUME NEW old \in Row, NEW body \in Bodies
  PROVE  LET p == Merged(MoneyPatch(old, body), StatusPatch(old, body))
         IN  /\ PatchTyped(p)
             /\ old.total = old.months + old.penalty =>
                   Patched(old, p).total = Patched(old, p).months + Patched(old, p).penalty
             /\ old.closed = (old.status = "CLOSED") =>
                   Patched(old, p).closed = (Patched(old, p).status = "CLOSED")
<1> DEFINE m == MoneyPatch(old, body)
           s == StatusPatch(old, body)
           p == Merged(m, s)
<1>1. /\ PatchTyped(m) /\ DOMAIN m \subseteq {"months", "penalty", "total"}
      /\ DOMAIN m # {} => Patched(old, m).total
                            = Patched(old, m).months + Patched(old, m).penalty
  BY MoneyPatchType
<1>2. /\ PatchTyped(s) /\ DOMAIN s \subseteq {"status", "closed"}
      /\ old.closed = (old.status = "CLOSED") =>
            Patched(old, s).closed = (Patched(old, s).status = "CLOSED")
  BY StatusPatchType
<1> HIDE DEF m, s
<1>3. /\ DOMAIN p = DOMAIN m \cup DOMAIN s
      /\ \A c \in DOMAIN m : p[c] = m[c]
      /\ \A c \in DOMAIN s : p[c] = s[c]
  BY <1>1, <1>2 DEF Merged
<1> HIDE DEF p
<1>4. PatchTyped(p)
  BY <1>1, <1>2, <1>3 DEF PatchTyped
<1>5. /\ Patched(old, p).total   = Patched(old, m).total
      /\ Patched(old, p).months  = Patched(old, m).months
      /\ Patched(old, p).penalty = Patched(old, m).penalty
      /\ Patched(old, p).status  = Patched(old, s).status
      /\ Patched(old, p).closed  = Patched(old, s).closed
  BY <1>1, <1>2, <1>3 DEF Patched, Given, Row
<1>6. DOMAIN m = {} => /\ Patched(old, m).total = old.total
                       /\ Patched(old, m).months = old.months
                       /\ Patched(old, m).penalty = old.penalty
  BY DEF Patched, Given, Row
<1> QED
  BY <1>1, <1>2, <1>4, <1>5, <1>6 DEF p, m, s

\* A typed patch leaves a row well typed.
LEMMA PatchedType ==
  ASSUME NEW old \in Row, NEW p, PatchTyped(p)
  PROVE  /\ Patched(old, p) \in Row
         /\ Patched(old, p).collected = old.collected
         /\ old.status \in Statuses => Patched(old, p).status \in Statuses
  BY ZenonT(60) DEF Patched, PatchTyped, Given, Row

-----------------------------------------------------------------------------
(* Types.                                                                  *)

\* Storing a well-formed slot keeps the slots well formed.
LEMMA SlotsStay ==
  ASSUME SlotsTyped, NEW r \in Requests, NEW q, SlotTyped(q),
         req' = [req EXCEPT ![r] = q]
  PROVE  SlotsTyped'
  BY DEF SlotsTyped

\* Begin stores one slot, and the rows stay.
LEMMA BeginFacts ==
  ASSUME NEW r \in Requests, NEW q, Begin(r, q)
  PROVE  /\ req[r].pc = "idle" /\ req' = [req EXCEPT ![r] = q]
         /\ UNCHANGED <<row, visits>>
  BY DEF Begin, At

\* A request that begins with slot q: which row it may have read, and the
\* patch it worked out from it.
Started(r, q) ==
    /\ Begin(r, q) /\ SlotTyped(q)
    /\ q.pc # "idle"
    /\ q.pc = "create" => Open = {}
    /\ q.pc \in {"visit", "remove"} => q.on \in Open
    /\ q.pc = "update" =>
          /\ Exists(q.on)
          /\ \E body \in Bodies :
                q.patch = Merged(MoneyPatch(row[q.on], body), StatusPatch(row[q.on], body))

\* Every first statement is one of those.
LEMMA StartSlot ==
  ASSUME TypeInv, NEW r \in Requests, StartRequest(r)
  PROVE  \E q : Started(r, q)
<1>1. CASE CreateRead(r)
  <2> DEFINE q == [Idle EXCEPT !.pc = "create"]
  <2>1. SlotTyped(q) /\ q.pc = "create"
    BY IdleSlot DEF SlotTyped, Idle
  <2> QED
    BY <1>1, <2>1 DEF CreateRead, Started
<1>2. ASSUME NEW k \in Collections, NEW body \in Bodies, UpdateRead(r, k, body)
      PROVE  \E q : /\ Begin(r, q) /\ SlotTyped(q) /\ q.pc = "update"
                   /\ Exists(q.on)
                   /\ q.patch = Merged(MoneyPatch(row[q.on], body),
                                       StatusPatch(row[q.on], body))
  <2> DEFINE p == Merged(MoneyPatch(row[k], body), StatusPatch(row[k], body))
             q == [pc |-> "update", on |-> k, patch |-> p]
  <2>1. PatchTyped(p)
    BY PatchType DEF TypeInv, TypeOK
  <2> HIDE DEF p
  <2>2. SlotTyped(q) /\ q.pc = "update" /\ q.on = k /\ q.patch = p
    BY <2>1 DEF SlotTyped
  <2>3. Begin(r, q) /\ Exists(k)
    BY <1>2 DEF UpdateRead, p
  <2> QED
    BY <2>2, <2>3 DEF p
<1>3. ASSUME NEW k \in Collections, RemoveRead(r, k) \/ VisitRead(r, k)
      PROVE  \E q : /\ Begin(r, q) /\ SlotTyped(q) /\ q.pc \in {"visit", "remove"}
                   /\ q.on \in Open
  <2>1. PICK pc \in {"visit", "remove"} : Begin(r, [Idle EXCEPT !.pc = pc, !.on = k])
    BY <1>3 DEF RemoveRead, VisitRead
  <2> DEFINE q == [Idle EXCEPT !.pc = pc, !.on = k]
  <2>2. SlotTyped(q) /\ q.pc = pc /\ q.on = k
    BY IdleSlot DEF SlotTyped, Idle
  <2> QED
    BY <1>3, <2>1, <2>2 DEF RemoveRead, VisitRead
<1> QED
  BY <1>1, <1>2, <1>3 DEF StartRequest, Started

\* The empty row is well typed.
LEMMA NoRowType ==
  /\ NoRow \in Row /\ NoRow.collected = 0 /\ ~NoRow.closed
  /\ NoRow.months = 0 /\ NoRow.penalty = 0 /\ NoRow.total = 0
  BY BoundsAssumption DEF NoRow, Row, Amounts

\* The row that create inserts.
LEMMA NewRowType ==
  ASSUME NEW st, st \in {"ASSIGNED", "NEW"}, NEW m \in Amounts, NEW p \in Amounts
  PROVE  LET new == [NoRow EXCEPT !.status = st, !.months = m, !.penalty = p,
                                  !.total = Total(m, p)]
         IN  /\ new \in Row /\ new.status \in Statuses \ {"CLOSED"} /\ ~new.closed /\ new.collected = 0
             /\ new.total = new.months + new.penalty
<1>1. PICK x \in Row : x = NoRow /\ ~x.closed /\ x.collected = 0
  BY NoRowType
<1>2. PICK t \in Nat : t = Total(m, p) /\ t = m + p
  BY BoundsAssumption DEF Total, Amounts
<1>3. LET new == [x EXCEPT !.status = st, !.months = m, !.penalty = p, !.total = t]
      IN  /\ new \in Row /\ new.status \in Statuses \ {"CLOSED"} /\ ~new.closed
          /\ new.collected = 0 /\ new.total = new.months + new.penalty
  BY <1>1, <1>2 DEF Row, Statuses
<1> QED
  BY <1>1, <1>2, <1>3

\* The row that remove leaves behind.
LEMMA GoneType ==
  LET gone == [NoRow EXCEPT !.status = "DELETED"]
  IN  /\ gone \in Row /\ gone.status = "DELETED" /\ ~gone.closed
      /\ gone.collected = 0 /\ gone.total = gone.months + gone.penalty
<1>1. PICK x \in Row : /\ x = NoRow /\ ~x.closed /\ x.collected = 0
                       /\ x.months = 0 /\ x.penalty = 0 /\ x.total = 0
  BY NoRowType
<1>2. LET gone == [x EXCEPT !.status = "DELETED"]
      IN  /\ gone \in Row /\ gone.status = "DELETED" /\ ~gone.closed
          /\ gone.collected = 0 /\ gone.total = gone.months + gone.penalty
  BY <1>1 DEF Row
<1> QED
  BY <1>1, <1>2

\* The row after a visit.
LEMMA VisitedType ==
  ASSUME NEW x \in Row, NEW a \in 0..MaxCollected
  PROVE  LET new == [x EXCEPT !.collected = @ + a, !.status = "IN_PROGRESS"]
         IN  /\ new \in Row /\ new.status = "IN_PROGRESS" /\ new.closed = x.closed
             /\ new.collected = x.collected + a
             /\ new.total = x.total /\ new.months = x.months /\ new.penalty = x.penalty
<1>1. x.collected \in Nat /\ a \in Nat
  BY BoundsAssumption DEF Row
<1>2. PICK n \in Nat : n = x.collected + a
  BY <1>1
<1>3. LET new == [x EXCEPT !.collected = n, !.status = "IN_PROGRESS"]
      IN  /\ new \in Row /\ new.status = "IN_PROGRESS" /\ new.closed = x.closed
          /\ new.collected = n
          /\ new.total = x.total /\ new.months = x.months /\ new.penalty = x.penalty
  BY DEF Row, Statuses
<1> QED
  BY <1>2, <1>3

\* With no collection and every slot idle, everything is well typed.
LEMMA InitType == Init => TypeInv
  BY IdleSlot, BoundsAssumption
     DEF Init, TypeInv, TypeOK, SlotsTyped, Row, NoRow, Amounts, Exists, Statuses

\* Ending a request keeps the slots well formed.
LEMMA FinishType ==
  ASSUME SlotsTyped, NEW r \in Requests, Finish(r)
  PROVE  SlotsTyped'
  BY IdleSlot, SlotsStay DEF Finish

\* What TypeOK says of the slots follows from their form.
LEMMA SlotsGive ==
  ASSUME SlotsTyped
  PROVE  \A r \in Requests :
            /\ req[r].pc \in {"idle", "create", "update", "remove", "visit"}
            /\ req[r].pc \in {"update", "remove", "visit"} => req[r].on \in Collections
            /\ DOMAIN req[r].patch \subseteq Columns
  BY DEF SlotsTyped, SlotTyped, PatchTyped

\* Every statement stores typed rows and slots, and no visit outlives its row.
LEMMA StepType ==
  ASSUME TypeInv, [Next]_vars
  PROVE  TypeInv'
<1>1. ASSUME NEW r \in Requests, StartRequest(r)
      PROVE  TypeInv'
  <2>0. PICK q : Started(r, q)
    BY <1>1, StartSlot
  <2>1. Begin(r, q) /\ SlotTyped(q)
    BY <2>0 DEF Started
  <2>2. SlotsTyped'
    BY <2>1, BeginFacts, SlotsStay DEF TypeInv
  <2>3. overlapped' \subseteq Collections
    BY <2>1 DEF Begin, SlotTyped, TypeInv, TypeOK
  <2>4. UNCHANGED <<row, visits>>
    BY <2>1, BeginFacts
  <2> QED
    BY <2>2, <2>3, <2>4, SlotsGive DEF TypeInv, TypeOK, Exists, SlotsTyped, SlotTyped, PatchTyped
<1>2. ASSUME NEW r \in Requests, NEW k \in Collections, NEW assigned \in BOOLEAN,
             NEW months \in Amounts, NEW penalty \in Amounts,
             CreateWrite(r, k, assigned, months, penalty)
      PROVE  TypeInv'
  <2> DEFINE new == [NoRow EXCEPT !.status  = IF assigned THEN "ASSIGNED" ELSE "NEW",
                         !.months  = months,
                         !.penalty = penalty,
                         !.total   = Total(months, penalty)]
  <2>0. (IF assigned THEN "ASSIGNED" ELSE "NEW") \in {"ASSIGNED", "NEW"}
    OBVIOUS
  <2>1. new \in Row /\ new.status \in Statuses
    BY <2>0, NewRowType, Zenon
  <2>2. row' = [row EXCEPT ![k] = new] /\ UNCHANGED <<visits, overlapped>> /\ Finish(r)
    BY <1>2 DEF CreateWrite
  <2> HIDE DEF new
  <2>3. SlotsTyped'
    BY <2>2, FinishType DEF TypeInv
  <2>4. row' \in [Collections -> Row] /\ \A d \in Collections : ~Exists(d)' => visits'[d] = 0
    BY <2>1, <2>2 DEF TypeInv, TypeOK, Exists
  <2> QED
    BY <2>2, <2>3, <2>4 DEF TypeInv, TypeOK, SlotsTyped, SlotTyped, PatchTyped
<1>3. ASSUME NEW r \in Requests, UpdateWrite(r)
      PROVE  TypeInv'
  <2>1. PICK k \in Collections :
           /\ k = req[r].on /\ Exists(k)
           /\ row' = [row EXCEPT ![k] = Patched(row[k], req[r].patch)]
           /\ UNCHANGED <<visits, overlapped>> /\ Finish(r)
    BY <1>3 DEF UpdateWrite, At, TypeInv, TypeOK
  <2>2. row[k] \in Row /\ PatchTyped(req[r].patch)
    BY DEF TypeInv, TypeOK, SlotsTyped, SlotTyped
  <2>3. /\ Patched(row[k], req[r].patch) \in Row
        /\ Patched(row[k], req[r].patch).status \in Statuses
    BY <2>1, <2>2, PatchedType DEF Exists
  <2>4. SlotsTyped'
    BY <2>1, FinishType DEF TypeInv
  <2>5. row' \in [Collections -> Row] /\ \A d \in Collections : ~Exists(d)' => visits'[d] = 0
    BY <2>1, <2>3 DEF TypeInv, TypeOK, Exists
  <2> QED
    BY <2>1, <2>4, <2>5 DEF TypeInv, TypeOK, SlotsTyped, SlotTyped, PatchTyped
<1>4. ASSUME NEW r \in Requests, RemoveWrite(r)
      PROVE  TypeInv'
  <2> DEFINE gone == [NoRow EXCEPT !.status = "DELETED"]
  <2>1. gone \in Row /\ 0 \in 0..MaxCollected
    BY GoneType, BoundsAssumption
  <2>2. PICK k \in Collections :
           /\ row'    = [row EXCEPT ![k] = gone]
           /\ visits' = [visits EXCEPT ![k] = 0]
           /\ UNCHANGED overlapped /\ Finish(r)
    BY <1>4 DEF RemoveWrite, At, TypeInv, TypeOK
  <2> HIDE DEF gone
  <2>3. SlotsTyped'
    BY <2>2, FinishType DEF TypeInv
  <2>4. /\ row' \in [Collections -> Row] /\ visits' \in [Collections -> 0..MaxCollected]
        /\ \A d \in Collections : ~Exists(d)' => visits'[d] = 0
    BY <2>1, <2>2 DEF TypeInv, TypeOK, Exists
  <2> QED
    BY <2>2, <2>3, <2>4 DEF TypeInv, TypeOK, SlotsTyped, SlotTyped, PatchTyped
<1>5. ASSUME NEW r \in Requests, NEW amount \in 0..MaxCollected, VisitWrite(r, amount)
      PROVE  TypeInv'
  <2>1. PICK k \in Collections :
           /\ Exists(k) /\ visits[k] + amount <= MaxCollected
           /\ visits' = [visits EXCEPT ![k] = @ + amount]
           /\ row'    = [row EXCEPT ![k].collected = @ + amount, ![k].status = "IN_PROGRESS"]
           /\ UNCHANGED overlapped /\ Finish(r)
    BY <1>5 DEF VisitWrite, At, TypeInv, TypeOK
  <2>2. /\ \A d \in Collections \ {k} : row'[d] = row[d]
        /\ row'[k] = [row[k] EXCEPT !.collected = @ + amount, !.status = "IN_PROGRESS"]
        /\ DOMAIN row' = Collections
    BY <2>1 DEF TypeInv, TypeOK
  <2>3. row'[k] \in Row /\ row'[k].status \in Statuses
    <3>1. PICK x : x = row[k]
      OBVIOUS
    <3>2. x \in Row
      BY <3>1 DEF TypeInv, TypeOK
    <3>3. PICK y : y = [x EXCEPT !.collected = @ + amount, !.status = "IN_PROGRESS"]
      OBVIOUS
    <3>4. y \in Row /\ y.status = "IN_PROGRESS"
      BY <3>2, <3>3, VisitedType, Zenon
    <3>5. row'[k] = y
      BY <2>2, <3>1, <3>3, Zenon
    <3> QED
      BY <3>4, <3>5 DEF Statuses
  <2>4. SlotsTyped'
    BY <2>1, FinishType DEF TypeInv
  <2>5. visits' \in [Collections -> 0..MaxCollected]
    BY <2>1, BoundsAssumption DEF TypeInv, TypeOK
  <2>6. row' \in [Collections -> Row]
    BY <2>1, <2>2, <2>3 DEF TypeInv, TypeOK
  <2>7. \A d \in Collections : ~Exists(d)' => visits'[d] = 0
    BY <2>1, <2>2, <2>3 DEF TypeInv, TypeOK, Exists
  <2> QED
    BY <2>1, <2>4, <2>5, <2>6, <2>7 DEF TypeInv, TypeOK, SlotsTyped, SlotTyped, PatchTyped
<1>6. ASSUME NEW r \in Requests, Abort(r)
      PROVE  TypeInv'
  <2>1. SlotsTyped'
    BY <1>6, FinishType DEF Abort, TypeInv
  <2> QED
    BY <1>6, <2>1 DEF Abort, TypeInv, TypeOK, SlotsTyped, SlotTyped, PatchTyped, Exists
<1>7. ASSUME UNCHANGED vars
      PROVE  TypeInv'
  BY <1>7 DEF vars, TypeInv, TypeOK, SlotsTyped, Exists
<1> QED
  BY <1>1, <1>2, <1>3, <1>4, <1>5, <1>6, <1>7 DEF Next, ContinueRequest

\* The inductive form of type correctness, with the form of every slot.
THEOREM TypeInvariant == Spec => []TypeInv
  BY InitType, StepType, PTL DEF Spec

\* Type correctness: rows and visits keep their domains (schema.prisma), and a
\* deleted collection has no visits left (remove cascades).
THEOREM TypeCorrect == Spec => []TypeOK
<1>1. TypeInv => TypeOK
  BY DEF TypeInv
<1> QED
  BY <1>1, TypeInvariant, PTL

-----------------------------------------------------------------------------
(* Collected money.  The amount of a visit is added to the row in the       *)
(* transaction that inserts the visit, and no patch names `collected', so   *)
(* overlapping requests cannot lose it.                                     *)

\* Every statement keeps the collected amounts equal to the visits.
LEMMA StepCollected ==
  ASSUME TypeInv, CollectedIsSumOfVisits, [Next]_vars
  PROVE  CollectedIsSumOfVisits'
<1>1. ASSUME NEW r \in Requests, StartRequest(r)
      PROVE  UNCHANGED <<row, visits>>
  BY <1>1, StartSlot, BeginFacts DEF Started
<1>2. ASSUME NEW r \in Requests, NEW k \in Collections, NEW assigned \in BOOLEAN,
             NEW months \in Amounts, NEW penalty \in Amounts,
             CreateWrite(r, k, assigned, months, penalty)
      PROVE  CollectedIsSumOfVisits'
  <2> DEFINE new == [NoRow EXCEPT !.status  = IF assigned THEN "ASSIGNED" ELSE "NEW",
                         !.months  = months,
                         !.penalty = penalty,
                         !.total   = Total(months, penalty)]
  <2>0. (IF assigned THEN "ASSIGNED" ELSE "NEW") \in {"ASSIGNED", "NEW"}
    OBVIOUS
  <2>1. new.collected = 0
    BY <2>0, NewRowType, ZenonT(60)
  <2>2. row' = [row EXCEPT ![k] = new] /\ UNCHANGED visits
    BY <1>2 DEF CreateWrite
  <2>3. visits[k] = 0
    BY <1>2 DEF CreateWrite, TypeInv, TypeOK, Exists, Statuses
  <2> HIDE DEF new
  <2> QED
    BY <2>1, <2>2, <2>3 DEF CollectedIsSumOfVisits, TypeInv, TypeOK
<1>3. ASSUME NEW r \in Requests, UpdateWrite(r)
      PROVE  CollectedIsSumOfVisits'
  <2>1. PICK k \in Collections :
           /\ k = req[r].on /\ row' = [row EXCEPT ![k] = Patched(row[k], req[r].patch)]
           /\ UNCHANGED visits
    BY <1>3 DEF UpdateWrite, At, TypeInv, TypeOK
  <2>2. row[k] \in Row /\ PatchTyped(req[r].patch)
    BY DEF TypeInv, TypeOK, SlotsTyped, SlotTyped
  <2>3. Patched(row[k], req[r].patch).collected = row[k].collected
    BY <2>2, PatchedType
  <2> QED
    BY <2>1, <2>3 DEF CollectedIsSumOfVisits, TypeInv, TypeOK
<1>4. ASSUME NEW r \in Requests, RemoveWrite(r)
      PROVE  CollectedIsSumOfVisits'
  <2> DEFINE gone == [NoRow EXCEPT !.status = "DELETED"]
  <2>1. gone.collected = 0
    BY GoneType
  <2>2. PICK k \in Collections : /\ row'    = [row EXCEPT ![k] = gone]
                                 /\ visits' = [visits EXCEPT ![k] = 0]
    BY <1>4 DEF RemoveWrite, At, TypeInv, TypeOK
  <2> HIDE DEF gone
  <2> QED
    BY <2>1, <2>2 DEF CollectedIsSumOfVisits, TypeInv, TypeOK
<1>5. ASSUME NEW r \in Requests, NEW amount \in 0..MaxCollected, VisitWrite(r, amount)
      PROVE  CollectedIsSumOfVisits'
  <2>1. PICK k \in Collections :
           /\ visits' = [visits EXCEPT ![k] = @ + amount]
           /\ row' = [row EXCEPT ![k].collected = @ + amount, ![k].status = "IN_PROGRESS"]
    BY <1>5 DEF VisitWrite, At, TypeInv, TypeOK
  <2>2. /\ \A d \in Collections \ {k} : row'[d] = row[d] /\ visits'[d] = visits[d]
        /\ row'[k] = [row[k] EXCEPT !.collected = @ + amount, !.status = "IN_PROGRESS"]
        /\ visits'[k] = visits[k] + amount
    BY <2>1 DEF TypeInv, TypeOK
  <2>3. row'[k].collected = row[k].collected + amount
    <3>1. row[k] \in Row
      BY DEF TypeInv, TypeOK
    <3>2. [row[k] EXCEPT !.collected = @ + amount, !.status = "IN_PROGRESS"].collected
            = row[k].collected + amount
      BY <3>1, VisitedType, Zenon
    <3> QED
      BY <2>2, <3>2
  <2> QED
    BY <2>2, <2>3 DEF CollectedIsSumOfVisits
<1>6. ASSUME NEW r \in Requests, Abort(r)
      PROVE  UNCHANGED <<row, visits>>
  BY <1>6 DEF Abort
<1>7. (UNCHANGED <<row, visits>>) => CollectedIsSumOfVisits'
  BY DEF CollectedIsSumOfVisits
<1> QED
  BY <1>1, <1>2, <1>3, <1>4, <1>5, <1>6, <1>7 DEF Next, ContinueRequest, vars

\* The collected amount of a collection is the sum of its visits, whatever
\* visits, edits and removals overlap (createVisit).
THEOREM CollectedMoneyKept == Spec => []CollectedIsSumOfVisits
<1>1. Init => CollectedIsSumOfVisits
  BY NoRowType DEF Init, CollectedIsSumOfVisits
<1>2. TypeInv /\ CollectedIsSumOfVisits /\ [Next]_vars => CollectedIsSumOfVisits'
  BY StepCollected
<1> QED
  BY <1>1, <1>2, TypeInvariant, PTL DEF Spec

-----------------------------------------------------------------------------
(* The total and the stamp.  They hold on a row no two requests overlapped *)
(* on, because its only request has read the row as it still is: so its    *)
(* patch leads to a right row, and a visit is of a row that is not closed. *)

Right(x) == x.total = x.months + x.penalty /\ x.closed = (x.status = "CLOSED")

Fits(q, k) == /\ Exists(k)
              /\ q.pc = "visit"  => row[k].status # "CLOSED"
              /\ q.pc = "update" => Right(Patched(row[k], q.patch))

OneEach == \A r, s \in Requests :
    r # s /\ req[r].on = req[s].on => req[r].on \in overlapped \cup {NoCollection}

RightInv ==
    /\ OneEach
    /\ \A k \in Collections \ overlapped :
          /\ Right(row[k])
          /\ \A r \in Requests : req[r].on = k => Fits(req[r], k)

\* A request that begins on a row alone fits the row.
LEMMA StartFits ==
  ASSUME TypeInv, NEW r, NEW q, Started(r, q), NEW k \in Collections, q.on = k,
         Right(row[k])
  PROVE  Fits(q, k)
<1>1. q.pc \in {"update", "remove", "visit"}
  BY CollectionsAssumption DEF Started, SlotTyped
<1>2. Exists(k) /\ (q.pc = "visit" => row[k].status # "CLOSED")
  BY <1>1 DEF Started, Open
<1>3. ASSUME q.pc = "update"
      PROVE  Right(Patched(row[k], q.patch))
  <2>1. PICK body \in Bodies :
           q.patch = Merged(MoneyPatch(row[k], body), StatusPatch(row[k], body))
    BY <1>3 DEF Started
  <2>2. row[k] \in Row
    BY DEF TypeInv, TypeOK
  <2> QED
    BY <2>1, <2>2, PatchType DEF Right
<1> QED
  BY <1>2, <1>3 DEF Fits

\* The last statement of a request on row k, or of one on no row, keeps the
\* invariant if it leaves a row right that nobody else works on.
LEMMA RowChange ==
  ASSUME TypeInv, RightInv, NEW r \in Requests, Finish(r), UNCHANGED overlapped,
         NEW k \in Collections, \A d \in Collections \ {k} : row'[d] = row[d],
         k \notin overlapped =>
            /\ \A s \in Requests \ {r} : req[s].on # k
            /\ Right(row'[k])
  PROVE  RightInv'
<1>1. /\ req'[r].on = NoCollection
      /\ \A s \in Requests \ {r} : req'[s] = req[s]
  BY IdleSlot DEF Finish, TypeInv, SlotsTyped
<1>2. OneEach'
  BY <1>1 DEF RightInv, OneEach
<1>3. ASSUME NEW d \in Collections \ overlapped
      PROVE  /\ Right(row'[d])
             /\ \A s \in Requests : req'[s].on = d => Fits(req[s], d)' 
  <2>1. CASE d = k
    BY <1>1, <1>3, <2>1, CollectionsAssumption
  <2>2. CASE d # k
    BY <1>1, <1>3, <2>2, CollectionsAssumption DEF RightInv, Fits, Exists
  <2> QED
    BY <2>1, <2>2
<1> QED
  BY <1>2, <1>3 DEF RightInv

\* Every statement keeps it.
LEMMA StepRight ==
  ASSUME TypeInv, RightInv, [Next]_vars
  PROVE  RightInv'
<1>1. ASSUME NEW r \in Requests, StartRequest(r)
      PROVE  RightInv'
  <2>1. PICK q : Started(r, q)
    BY <1>1, StartSlot
  <2>2. /\ req'[r] = q /\ \A s \in Requests \ {r} : req'[s] = req[s]
        /\ UNCHANGED <<row, visits>> /\ SlotTyped(q)
        /\ overlapped' = IF q.on # NoCollection /\ InFlight(q.on) # {}
                         THEN overlapped \cup {q.on} ELSE overlapped
    BY <2>1 DEF Started, Begin, TypeInv, SlotsTyped
  <2>3. \A s \in Requests \ {r} : req[s].on = q.on =>
           q.on \in overlapped' \cup {NoCollection}
    BY <2>2 DEF InFlight
  <2>4. OneEach'
    BY <2>2, <2>3 DEF RightInv, OneEach
  <2>5. ASSUME NEW k \in Collections \ overlapped'
        PROVE  /\ Right(row'[k])
               /\ \A s \in Requests : req'[s].on = k => Fits(req[s], k)'
    <3>1. k \notin overlapped
      BY <2>2, <2>5
    <3>2. Right(row[k]) /\ \A s \in Requests : req[s].on = k => Fits(req[s], k)
      BY <3>1 DEF RightInv
    <3>3. q.on = k => Fits(q, k)
      BY <2>1, <3>2, StartFits
    <3> QED
      BY <2>2, <3>2, <3>3 DEF Fits, Exists
  <2> QED
    BY <2>4, <2>5 DEF RightInv
<1>2. ASSUME NEW r \in Requests, NEW k \in Collections, NEW assigned \in BOOLEAN,
             NEW months \in Amounts, NEW penalty \in Amounts,
             CreateWrite(r, k, assigned, months, penalty)
      PROVE  RightInv'
  <2> DEFINE new == [NoRow EXCEPT !.status  = IF assigned THEN "ASSIGNED" ELSE "NEW",
                         !.months  = months,
                         !.penalty = penalty,
                         !.total   = Total(months, penalty)]
  <2>0. (IF assigned THEN "ASSIGNED" ELSE "NEW") \in {"ASSIGNED", "NEW"}
    OBVIOUS
  <2>1. /\ new.status \in Statuses \ {"CLOSED"} /\ ~new.closed
        /\ new.total = new.months + new.penalty /\ new \in Row
    BY <2>0, NewRowType, ZenonT(60)
  <2>2. /\ row' = [row EXCEPT ![k] = new] /\ Finish(r) /\ UNCHANGED overlapped
        /\ row[k].status = "NONE"
    BY <1>2 DEF CreateWrite
  <2> HIDE DEF new
  <2>3. Right(new)
    BY <2>1 DEF Right, Row
  <2>4. row'[k] = new /\ \A d \in Collections \ {k} : row'[d] = row[d]
    BY <2>2 DEF TypeInv, TypeOK
  <2>5. k \notin overlapped => \A s \in Requests : req[s].on # k
    BY <2>2 DEF RightInv, Fits, Exists, Statuses
  <2> QED
    BY <2>2, <2>3, <2>4, <2>5, RowChange
<1>3. ASSUME NEW r \in Requests, UpdateWrite(r) \/ RemoveWrite(r)
      PROVE  RightInv'
  <2>1. PICK k \in Collections : k = req[r].on
    BY <1>3 DEF UpdateWrite, RemoveWrite, At, TypeInv, TypeOK
  <2>2. k \notin overlapped => \A s \in Requests \ {r} : req[s].on # k
    BY <2>1, CollectionsAssumption DEF RightInv, OneEach
  <2>3. /\ Finish(r) /\ UNCHANGED overlapped
        /\ \A d \in Collections \ {k} : row'[d] = row[d]
    BY <1>3, <2>1 DEF UpdateWrite, RemoveWrite, TypeInv, TypeOK
  <2>4. k \notin overlapped => Right(row'[k])
    <3>1. CASE UpdateWrite(r)
      <4>1. row'[k] = Patched(row[k], req[r].patch) /\ req[r].pc = "update"
        BY <2>1, <3>1 DEF UpdateWrite, At, TypeInv, TypeOK
      <4> QED
        BY <2>1, <4>1 DEF RightInv, Fits
    <3>2. CASE RemoveWrite(r)
      <4> DEFINE gone == [NoRow EXCEPT !.status = "DELETED"]
      <4>1. /\ gone.status = "DELETED" /\ ~gone.closed /\ gone \in Row
            /\ gone.total = gone.months + gone.penalty
        BY GoneType
      <4>2. row'[k] = gone
        BY <2>1, <3>2 DEF RemoveWrite, TypeInv, TypeOK
      <4> HIDE DEF gone
      <4> QED
        BY <4>1, <4>2 DEF Right, Row
    <3> QED
      BY <1>3, <3>1, <3>2
  <2> QED
    BY <2>2, <2>3, <2>4, RowChange
<1>4. ASSUME NEW r \in Requests, NEW amount \in 0..MaxCollected, VisitWrite(r, amount)
      PROVE  RightInv'
  <2>1. PICK k \in Collections :
           /\ k = req[r].on /\ req[r].pc = "visit" /\ Finish(r) /\ UNCHANGED overlapped
           /\ row' = [row EXCEPT ![k].collected = @ + amount, ![k].status = "IN_PROGRESS"]
    BY <1>4 DEF VisitWrite, At, TypeInv, TypeOK
  <2>2. k \notin overlapped => \A s \in Requests \ {r} : req[s].on # k
    BY <2>1, CollectionsAssumption DEF RightInv, OneEach
  <2>3. /\ \A d \in Collections \ {k} : row'[d] = row[d]
        /\ row'[k] = [row[k] EXCEPT !.collected = @ + amount, !.status = "IN_PROGRESS"]
    BY <2>1 DEF TypeInv, TypeOK
  <2>4. k \notin overlapped => Right(row[k]) /\ row[k].status # "CLOSED"
    BY <2>1 DEF RightInv, Fits
  <2> DEFINE new == [row[k] EXCEPT !.collected = @ + amount, !.status = "IN_PROGRESS"]
  <2>5. /\ new.status = "IN_PROGRESS" /\ new.closed = row[k].closed
        /\ new.total = row[k].total /\ new.months = row[k].months
        /\ new.penalty = row[k].penalty /\ row[k] \in Row
    <3>1. row[k] \in Row
      BY DEF TypeInv, TypeOK
    <3> QED
      BY <3>1, VisitedType, Zenon
  <2>6. row'[k] = new
    BY <2>3
  <2> HIDE DEF new
  <2>7. k \notin overlapped => Right(row'[k])
    BY <2>4, <2>5, <2>6 DEF Right, Row
  <2> QED
    BY <2>1, <2>2, <2>3, <2>7, RowChange
<1>5. ASSUME NEW r \in Requests, Abort(r)
      PROVE  RightInv'
  <2>1. /\ req'[r].on = NoCollection /\ \A s \in Requests \ {r} : req'[s] = req[s]
        /\ UNCHANGED <<row, overlapped>>
    BY <1>5, IdleSlot DEF Abort, Finish, TypeInv, SlotsTyped
  <2>2. OneEach'
    BY <2>1 DEF RightInv, OneEach
  <2> QED
    BY <2>1, <2>2, CollectionsAssumption DEF RightInv, Fits, Exists
<1>6. ASSUME UNCHANGED vars
      PROVE  RightInv'
  BY <1>6 DEF vars, RightInv, OneEach, Fits, Exists
<1> QED
  BY <1>1, <1>2, <1>3, <1>4, <1>5, <1>6 DEF Next, ContinueRequest

\* The inductive invariant: one request per row that is not overlapped, which
\* has read the row as it still is.
THEOREM RightInvariant == Spec => []RightInv
<1>1. ASSUME Init PROVE RightInv
  <2>1. Right(NoRow)
    <3>1. NoRow.status # "CLOSED"
      BY DEF NoRow
    <3>2. PICK x \in Row : x = NoRow /\ x.status # "CLOSED" /\ ~x.closed
                          /\ x.total = 0 /\ x.months = 0 /\ x.penalty = 0
      BY <3>1, NoRowType
    <3>3. Right(x)
      BY <3>2 DEF Right, Row
    <3> QED
      BY <3>2, <3>3
  <2>2. \A r \in Requests : req[r].on = NoCollection
    BY <1>1, IdleSlot DEF Init
  <2>3. \A k \in Collections : row[k] = NoRow
    BY <1>1 DEF Init
  <2> QED
    BY <2>1, <2>2, <2>3, CollectionsAssumption DEF RightInv, OneEach
<1>2. TypeInv /\ RightInv /\ [Next]_vars => RightInv'
  BY StepRight
<1> QED
  BY <1>1, <1>2, TypeInvariant, PTL DEF Spec

\* Edits that do not overlap keep the denormalised total (update).
THEOREM TotalKept == Spec => []TotalIsSum
<1>1. RightInv => TotalIsSum
  BY DEF RightInv, Right, TotalIsSum
<1> QED
  BY <1>1, RightInvariant, PTL

\* Requests that do not overlap keep closedAt in step with the status.
THEOREM ClosedStampKept == Spec => []ClosedIsStamped
<1>1. RightInv => ClosedIsStamped
  BY DEF RightInv, Right, ClosedIsStamped
<1> QED
  BY <1>1, RightInvariant, PTL

-----------------------------------------------------------------------------
(* Races settle.                                                           *)

\* What one step may do to a closed collection.
LEMMA StepClosed ==
  ASSUME TypeInv, [Next]_vars, NEW k \in Collections, row[k].status = "CLOSED"
  PROVE  /\ {r \in InFlight(k)' : req'[r].pc \in {"visit", "remove"}} \subseteq InFlight(k)
         /\ Disturbing(k) = {} => /\ row'[k].status = "CLOSED"
                                  /\ row'[k].closed = row[k].closed
                                  /\ visits'[k] = visits[k]
<1> DEFINE Same == row'[k] = row[k] /\ visits'[k] = visits[k]
           Kept == /\ row'[k].status = "CLOSED" /\ row'[k].closed = row[k].closed
                   /\ visits'[k] = visits[k]
           Goal == /\ {r \in InFlight(k)' : req'[r].pc \in {"visit", "remove"}}
                        \subseteq InFlight(k)
                   /\ Disturbing(k) = {} => Kept
<1>1. ASSUME NEW r \in Requests, StartRequest(r)
      PROVE  Goal
  <2>1. PICK q : Started(r, q)
    BY <1>1, StartSlot
  <2>2. /\ req'[r] = q /\ \A s \in Requests \ {r} : req'[s] = req[s]
        /\ UNCHANGED <<row, visits>>
        /\ q.pc \in {"visit", "remove"} => q.on # k
    BY <2>1 DEF Started, Begin, TypeInv, SlotsTyped, Open
  <2> QED
    BY <2>2 DEF InFlight
<1>2. ASSUME NEW r \in Requests, Finish(r), Disturbing(k) = {} => Kept
      PROVE  Goal
  <2>1. req'[r].pc = "idle" /\ \A s \in Requests \ {r} : req'[s] = req[s]
    BY <1>2, IdleSlot DEF Finish, TypeInv, SlotsTyped
  <2> QED
    BY <1>2, <2>1 DEF InFlight
<1>3. ASSUME NEW r \in Requests, NEW d \in Collections, NEW assigned \in BOOLEAN,
             NEW months \in Amounts, NEW penalty \in Amounts,
             CreateWrite(r, d, assigned, months, penalty)
      PROVE  Goal
  <2>1. Finish(r) /\ Kept
    BY <1>3 DEF CreateWrite, TypeInv, TypeOK
  <2> QED
    BY <1>2, <2>1
<1>4. ASSUME NEW r \in Requests, UpdateWrite(r)
      PROVE  Goal
  <2>1. /\ Finish(r) /\ visits' = visits
        /\ row'[k] = IF req[r].on = k THEN Patched(row[k], req[r].patch) ELSE row[k]
    BY <1>4 DEF UpdateWrite, TypeInv, TypeOK
  <2>2. ASSUME Disturbing(k) = {}, req[r].on = k
        PROVE  Kept
    <3>1. "status" \notin DOMAIN req[r].patch
      BY <2>2 DEF Disturbing, InFlight
    <3>2. "closed" \notin DOMAIN req[r].patch
      BY <3>1 DEF TypeInv, SlotsTyped, SlotTyped, PatchTyped
    <3>3. row[k] \in Row
      BY DEF TypeInv, TypeOK
    <3>4. /\ Patched(row[k], req[r].patch).status = row[k].status
          /\ Patched(row[k], req[r].patch).closed = row[k].closed
      BY <3>1, <3>2, <3>3 DEF Patched, Given, Row
    <3> QED
      BY <2>1, <2>2, <3>4
  <2> QED
    BY <1>2, <2>1, <2>2
<1>5. ASSUME NEW r \in Requests,
             RemoveWrite(r) \/ \E amount \in 0..MaxCollected : VisitWrite(r, amount)
      PROVE  Goal
  <2>1. /\ Finish(r) /\ req[r].pc \in {"visit", "remove"}
        /\ req[r].on # k => Same
    BY <1>5 DEF RemoveWrite, VisitWrite, At, TypeInv, TypeOK
  <2>2. Disturbing(k) = {} => req[r].on # k
    BY <2>1 DEF Disturbing, InFlight
  <2> QED
    BY <1>2, <2>1, <2>2
<1>6. ASSUME NEW r \in Requests, Abort(r)
      PROVE  Goal
  BY <1>2, <1>6 DEF Abort
<1>7. ASSUME UNCHANGED vars
      PROVE  Goal
  BY <1>7 DEF vars, InFlight
<1> QED
  BY <1>1, <1>3, <1>4, <1>5, <1>6, <1>7 DEF Next, ContinueRequest

\* A closed collection is disturbed only by requests that read it while it was
\* open, or by an update that names a status (createVisit, remove, update).
THEOREM ClosedCollectionsSettle == Spec => ClosedSettles
<1>1. TypeInv /\ [Next]_vars =>
        [\A k \in Collections : row[k].status = "CLOSED" =>
          /\ {r \in InFlight(k)' : req'[r].pc \in {"visit", "remove"}} \subseteq InFlight(k)
          /\ Disturbing(k) = {} =>
                /\ row'[k].status = "CLOSED"
                /\ row'[k].closed = row[k].closed
                /\ visits'[k] = visits[k]]_vars
  BY StepClosed
<1> QED
  BY <1>1, TypeInvariant, PTL DEF Spec, ClosedSettles

\* What one step may do while a collection is open.
LEMMA StepOpen ==
  ASSUME TypeInv, [Next]_vars, Open # {}
  PROVE  /\ Creators' \subseteq Creators
         /\ Creators = {} => \A k \in Open' \ Open : row[k].status = "CLOSED"
<1> DEFINE Joined == \A k \in Open' \ Open : row[k].status = "CLOSED"
           Goal   == /\ Creators' \subseteq Creators
                     /\ Creators = {} => Joined
<1>1. ASSUME NEW r \in Requests, StartRequest(r)
      PROVE  Goal
  <2>1. PICK q : Started(r, q)
    BY <1>1, StartSlot
  <2>2. /\ req'[r] = q /\ \A s \in Requests \ {r} : req'[s] = req[s]
        /\ UNCHANGED row /\ q.pc # "create"
    BY <2>1 DEF Started, Begin, TypeInv, SlotsTyped
  <2> QED
    BY <2>2 DEF Creators, Open, Exists
<1>2. ASSUME NEW r \in Requests, Finish(r), Creators = {} => Joined
      PROVE  Goal
  <2>1. req'[r].pc = "idle" /\ \A s \in Requests \ {r} : req'[s] = req[s]
    BY <1>2, IdleSlot DEF Finish, TypeInv, SlotsTyped
  <2> QED
    BY <1>2, <2>1 DEF Creators
<1>3. ASSUME NEW r \in Requests, NEW d \in Collections, NEW assigned \in BOOLEAN,
             NEW months \in Amounts, NEW penalty \in Amounts,
             CreateWrite(r, d, assigned, months, penalty)
      PROVE  Goal
  <2>1. Finish(r) /\ r \in Creators
    BY <1>3 DEF CreateWrite, At, Creators
  <2> QED
    BY <1>2, <2>1
<1>4. ASSUME NEW r \in Requests,
             \/ UpdateWrite(r) \/ RemoveWrite(r)
             \/ \E amount \in 0..MaxCollected : VisitWrite(r, amount)
      PROVE  Goal
  <2>1. /\ Finish(r) /\ Exists(req[r].on)
        /\ \A k \in Collections : k # req[r].on => row'[k] = row[k]
    BY <1>4 DEF UpdateWrite, RemoveWrite, VisitWrite, TypeInv, TypeOK
  <2>2. Joined
    BY <2>1 DEF Open, Exists
  <2> QED
    BY <1>2, <2>1, <2>2
<1>5. ASSUME NEW r \in Requests, Abort(r)
      PROVE  Goal
  BY <1>2, <1>5 DEF Abort, Open, Exists
<1>6. ASSUME UNCHANGED vars
      PROVE  Goal
  BY <1>6 DEF vars, Creators, Open, Exists
<1> QED
  BY <1>1, <1>3, <1>4, <1>5, <1>6 DEF Next, ContinueRequest

\* While a collection is open no create gets past the count, and only a
\* reopened one joins it (create, update).
THEOREM OpenCollectionsSettle == Spec => OpenSettles
<1>1. TypeInv /\ [Next]_vars =>
        [Open # {} =>
          /\ Creators' \subseteq Creators
          /\ Creators = {} => \A k \in Open' \ Open : row[k].status = "CLOSED"]_vars
  BY StepOpen
<1> QED
  BY <1>1, TypeInvariant, PTL DEF Spec, OpenSettles
=============================================================================
