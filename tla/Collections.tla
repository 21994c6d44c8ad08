---------------------------- MODULE Collections ----------------------------
(***************************************************************************)
(* The debt collections (undiruv) of one credit case: CollectionsService's *)
(* create, update, remove and createVisit on the Collection rows, their    *)
(* months and their field visits.                                          *)
(*                                                                         *)
(* As in CaseLifecycle an action is one awaited statement or $transaction  *)
(* and a slot of `req' remembers what a handler has read.  An update works *)
(* out its patch from the row it read and writes only the columns of the   *)
(* patch, as Prisma's update does.                                         *)
(*                                                                         *)
(* Money is counted in units.  `months' is the sum of the month rows, and  *)
(* `penalty' stands for penya and shtraf, which the code treats alike.     *)
(* Which collector is assigned, and the deadline that follows from it, are *)
(* not modelled here, nor are the notifications, whose failures change     *)
(* nothing.  A caller without the role or the branch is refused before     *)
(* anything is read, which is no step.                                     *)
(***************************************************************************)
EXTENDS Integers, FiniteSets

CONSTANTS
    Collections,  \* identities a Collection row may take
    NoCollection, \* the null reference
    Requests,     \* request slots, the bound on concurrency
    MaxAmount,    \* bound: the largest sum of months, and the largest penalty
    MaxCollected  \* bound: the most that is collected

ASSUME CollectionsAssumption == /\ NoCollection \notin Collections
                                /\ IsFiniteSet(Collections)
ASSUME BoundsAssumption == MaxAmount \in Nat /\ MaxCollected \in Nat

VARIABLES
    row,        \* the Collection rows
    visits,     \* the sum of the amounts of each row's CollectionVisit rows
    overlapped, \* the rows on which two requests were in flight at a time
    req         \* what each request in flight has read

vars == <<row, visits, overlapped, req>>

-----------------------------------------------------------------------------
Statuses == {"NEW", "ASSIGNED", "IN_PROGRESS", "CLOSED"}
Amounts  == 0..MaxAmount

\* closed: closedAt is set.
Row == [status : Statuses \cup {"NONE", "DELETED"}, closed : BOOLEAN,
        months : Amounts, penalty : Amounts, total : Nat, collected : Nat]

NoRow == [status |-> "NONE", closed |-> FALSE,
          months |-> 0, penalty |-> 0, total |-> 0, collected |-> 0]

Columns == {"status", "closed", "months", "penalty", "total"}
NoPatch == [c \in {} |-> 0]

Given(body, field, else) == IF field \in DOMAIN body THEN body[field] ELSE else

\* The fields of both, as object spread joins them.
Merged(a, b) == [f \in DOMAIN a \cup DOMAIN b |-> IF f \in DOMAIN a THEN a[f] ELSE b[f]]

Patched(old, patch) ==
    [old EXCEPT !.status = Given(patch, "status", @), !.closed  = Given(patch, "closed", @),
                !.months = Given(patch, "months", @), !.penalty = Given(patch, "penalty", @),
                !.total  = Given(patch, "total", @)]

Idle == [pc |-> "idle", on |-> NoCollection, patch |-> NoPatch]

Init ==
    /\ row        = [k \in Collections |-> NoRow]
    /\ visits     = [k \in Collections |-> 0]
    /\ overlapped = {}
    /\ req        = [r \in Requests |-> Idle]

Exists(k) == row[k].status \in Statuses
Open      == {k \in Collections : Exists(k) /\ row[k].status # "CLOSED"}
InFlight(k) == {r \in Requests : req[r].on = k}

At(r, pc) == req[r].pc = pc
Finish(r) == req' = [req EXCEPT ![r] = Idle]

\* A request on row k has read it; the ghost notes whether it is alone there.
Begin(r, q) ==
    /\ At(r, "idle")
    /\ req' = [req EXCEPT ![r] = q]
    /\ overlapped' = IF q.on # NoCollection /\ InFlight(q.on) # {}
                     THEN overlapped \cup {q.on} ELSE overlapped
    /\ UNCHANGED <<row, visits>>

\* collectionTotal; no amount is negative (dto.ts).
Total(months, penalty) == months + penalty

-----------------------------------------------------------------------------
\* Slip: only the collections nobody has started are counted.
CreateReadCountsNew(r) ==
    /\ \A k \in Open : row[k].status # "NEW"
    /\ Begin(r, [Idle EXCEPT !.pc = "create"])

CreateRead(r) ==
    /\ Open = {}
    /\ Begin(r, [Idle EXCEPT !.pc = "create"])

CreateWrite(r, k, assigned, months, penalty) ==
    /\ At(r, "create")
    /\ row[k].status = "NONE"
    /\ row' = [row EXCEPT ![k] =
           [NoRow EXCEPT !.status  = IF assigned THEN "ASSIGNED" ELSE "NEW",
                         !.months  = months,
                         !.penalty = penalty,
                         !.total   = Total(months, penalty)]]
    /\ Finish(r)
    /\ UNCHANGED <<visits, overlapped>>

-----------------------------------------------------------------------------
(* update.  The body of the request is itself a partial record: months and *)
(* penalty, assigned (a collector is named, or cleared) and status.        *)

\* Slip: months that are not in the body count as none.
NextMonthsOfBody(old, body) == Given(body, "months", 0)

NextMonths(old, body) == Given(body, "months", old.months)

\* The penalty and the total are written with any change of money, the month
\* rows only when the body has them.
MoneyPatch(old, body) ==
    IF {"months", "penalty"} \cap DOMAIN body = {} THEN NoPatch
    ELSE LET m == NextMonths(old, body)
             p == Given(body, "penalty", old.penalty)
         IN  [c \in {"penalty", "total"} \cup ({"months"} \cap DOMAIN body) |->
                  CASE c = "penalty" -> p [] c = "total" -> Total(m, p) [] c = "months" -> m]

\* An explicit status wins over the ASSIGNED that an assignment brings.
StatusPatch(old, body) ==
    IF "status" \in DOMAIN body
    THEN [status |-> body.status, closed |-> body.status = "CLOSED"]
    ELSE IF Given(body, "assigned", FALSE) /\ old.status = "NEW"
    THEN [status |-> "ASSIGNED"]
    ELSE NoPatch

UpdateRead(r, k, body) ==
    /\ Exists(k)
    /\ Begin(r, [pc |-> "update", on |-> k,
                 patch |-> Merged(MoneyPatch(row[k], body), StatusPatch(row[k], body))])

UpdateWrite(r) ==
    LET k == req[r].on
    IN  /\ At(r, "update")
        /\ Exists(k)
        /\ row' = [row EXCEPT ![k] = Patched(row[k], req[r].patch)]
        /\ Finish(r)
        /\ UNCHANGED <<visits, overlapped>>

-----------------------------------------------------------------------------
(* remove: only while the collection is not closed; the months and the     *)
(* visits go with the row.                                                 *)

RemoveRead(r, k) ==
    /\ k \in Open
    /\ Begin(r, [Idle EXCEPT !.pc = "remove", !.on = k])

RemoveWrite(r) ==
    /\ At(r, "remove")
    /\ Exists(req[r].on)
    /\ row'    = [row EXCEPT ![req[r].on] = [NoRow EXCEPT !.status = "DELETED"]]
    /\ visits' = [visits EXCEPT ![req[r].on] = 0]
    /\ Finish(r)
    /\ UNCHANGED overlapped

-----------------------------------------------------------------------------
(* createVisit: the media files are stored between the read and the        *)
(* transaction that inserts the visit and updates the collection.          *)

\* Slip: a closed collection takes visits.
VisitReadClosedToo(r, k) ==
    /\ Exists(k)
    /\ Begin(r, [Idle EXCEPT !.pc = "visit", !.on = k])

VisitRead(r, k) ==
    /\ k \in Open
    /\ Begin(r, [Idle EXCEPT !.pc = "visit", !.on = k])

\* Slip: the last visit's amount is stored, not added.
VisitWriteLast(r, amount) ==
    LET k == req[r].on
    IN  /\ At(r, "visit")
        /\ Exists(k)
        /\ visits[k] + amount <= MaxCollected
        /\ visits' = [visits EXCEPT ![k] = @ + amount]
        /\ row'    = [row EXCEPT ![k].collected = amount, ![k].status = "IN_PROGRESS"]
        /\ Finish(r)
        /\ UNCHANGED overlapped

VisitWrite(r, amount) ==
    LET k == req[r].on
    IN  /\ At(r, "visit")
        /\ Exists(k)
        /\ visits[k] + amount <= MaxCollected
        /\ visits' = [visits EXCEPT ![k] = @ + amount]
        /\ row'    = [row EXCEPT ![k].collected = @ + amount, ![k].status = "IN_PROGRESS"]
        /\ Finish(r)
        /\ UNCHANGED overlapped

\* A statement throws (the row is gone) or the process restarts.
Abort(r) ==
    /\ ~At(r, "idle")
    /\ Finish(r)
    /\ UNCHANGED <<row, visits, overlapped>>

-----------------------------------------------------------------------------
\* The bodies of an update, one per set of fields that is given.
MoneyFields  == {NoPatch} \cup [{"months"} -> Amounts] \cup [{"penalty"} -> Amounts]
                  \cup [{"months", "penalty"} -> Amounts]
AssignFields == {NoPatch} \cup [{"assigned"} -> BOOLEAN]
StatusFields == {NoPatch} \cup [{"status"} -> Statuses]

Bodies == {Merged(m, Merged(a, s)) : m \in MoneyFields, a \in AssignFields, s \in StatusFields}

StartRequest(r) ==
    \/ CreateRead(r)
    \/ \E k \in Collections :
          \/ \E body \in Bodies : UpdateRead(r, k, body)
          \/ RemoveRead(r, k)
          \/ VisitRead(r, k)

ContinueRequest(r) ==
    \/ \E k \in Collections, assigned \in BOOLEAN, months, penalty \in Amounts :
          CreateWrite(r, k, assigned, months, penalty)
    \/ UpdateWrite(r)
    \/ RemoveWrite(r)
    \/ \E amount \in 0..MaxCollected : VisitWrite(r, amount)
    \/ Abort(r)

Next == \E r \in Requests : StartRequest(r) \/ ContinueRequest(r)

Spec == Init /\ [][Next]_vars

-----------------------------------------------------------------------------
(* Properties.                                                             *)

\* Every row and slot holds a value of its domain, a request past its read
\* names its row, and no visit outlives its collection.
TypeOK ==
    /\ row        \in [Collections -> Row]
    /\ visits     \in [Collections -> 0..MaxCollected]
    /\ overlapped \subseteq Collections
    /\ \A r \in Requests :
          /\ req[r].pc \in {"idle", "create", "update", "remove", "visit"}
          /\ req[r].pc \in {"update", "remove", "visit"} => req[r].on \in Collections
          /\ DOMAIN req[r].patch \subseteq Columns
    /\ \A k \in Collections : ~Exists(k) => visits[k] = 0

\* "collectedAmount ... filled by SP-2 visits" (schema.prisma:538): whatever
\* visits, edits and removals overlap, no visit's money is lost or doubled.
CollectedIsSumOfVisits == \A k \in Collections : row[k].collected = visits[k]

\* "totalDebt ... months + penya + shtraf (denormalized)" (schema.prisma:537),
\* as long as no two requests overlapped on the collection.
TotalIsSum ==
    \A k \in Collections \ overlapped :
        row[k].total = row[k].months + row[k].penalty

\* closedAt is set exactly while the status is CLOSED, which forCase sorts by,
\* as long as no two requests overlapped on the collection.
ClosedIsStamped ==
    \A k \in Collections \ overlapped : row[k].closed = (row[k].status = "CLOSED")

\* The requests that may still change the status of row k, or delete it.
Disturbing(k) == {r \in InFlight(k) :
    req[r].pc \in {"visit", "remove"} \/ "status" \in DOMAIN req[r].patch}

\* A closed collection takes no visit and is not deleted, but by requests that
\* read it while it was open; without such a request, and unless an update
\* names a status, it stays closed with what was collected.
ClosedSettles ==
    [][\A k \in Collections : row[k].status = "CLOSED" =>
          /\ {r \in InFlight(k)' : req'[r].pc \in {"visit", "remove"}} \subseteq InFlight(k)
          /\ Disturbing(k) = {} =>
                /\ row'[k].status = "CLOSED"
                /\ row'[k].closed = row[k].closed
                /\ visits'[k] = visits[k]]_vars

Creators == {r \in Requests : req[r].pc = "create"}

\* While a collection is open, no create gets past the count, and without one
\* that got past it before, the open ones are joined only by a reopened one.
OpenSettles ==
    [][Open # {} =>
          /\ Creators' \subseteq Creators
          /\ Creators = {} => \A k \in Open' \ Open : row[k].status = "CLOSED"]_vars

\* "One active (unclosed) collection per case" (collections.service.ts:154).
OneOpen == Cardinality(Open) <= 1
=============================================================================
