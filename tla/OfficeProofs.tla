---------------------------- MODULE OfficeProofs ----------------------------
(***************************************************************************)
(* Proofs about three of the office's components, for any accounts,        *)
(* collectors, sessions, requests, rates and terms: staff, work shifts,    *)
(* payment schedule. The components share no state, so each proof is about *)
(* one of them; its "...Steps" lemma says that a step of the office, while *)
(* the component runs, is a step of the component or leaves it as it is.   *)
(* Each invariant has a part that always holds and a part that holds until *)
(* the requests overlap as the property excuses (unseated, crossed, late): *)
(* those ghosts only grow, so the second part is what a step has to keep.  *)
(***************************************************************************)
EXTENDS Office, TLAPS, FiniteSetTheorems

-----------------------------------------------------------------------------
(* Staff.                                                                  *)
\* A step of the office is one of the staff, or leaves them alone.
LEMMA PeopleSteps ==
    ASSUME [OfficeNext]_officeVars
    PROVE  part' = part /\ (part = "people" => [People!Next]_aVars)
  <1>1. CASE UNCHANGED officeVars
    BY <1>1 DEF officeVars, aVars
  <1>2. CASE OfficeNext
    BY <1>2 DEF OfficeNext, IdleBut, aVars
  <1> QED BY <1>1, <1>2

\* What Staff!TypeOK says of a request.
SeatSlots == [pc : {"idle", "count", "update"}, actor : Accounts \cup {Nobody}, on : Accounts \cup {Nobody},
              role : People!Roles \cup {"NONE"}, active : {"KEEP", "YES", "NO"}]

\* Two requests that take an admin are one.
Apart(r, o) == People!Unseating(aReq[r]) /\ People!Unseating(aReq[o]) => r = o

\* A request that is about to take an admin leaves another.
Spares(q)   == q.pc = "update" /\ People!Unseating(q) => People!ActiveAdmins \ {q.on} # {}

\* What holds until two such requests are in flight together.
Seated ==
    /\ People!ActiveAdmins # {}
    /\ \A r, o \in Requests : Apart(r, o)
    /\ \A r \in Requests : Spares(aReq[r])

\* The invariant; without Seated an admin may be gone, and with it the count
\* of a request still stands when it writes.
SeatInv ==
    /\ People!TypeOK
    /\ \A r \in Requests : aReq[r].pc = "idle" => ~People!Unseating(aReq[r])
    /\ aUnseated \/ Seated

\* The founder is an active admin.
LEMMA SeatInit == ASSUME People!Init PROVE SeatInv
  BY AccountsAssumption DEF People!Init, SeatInv, Seated, People!TypeOK, People!ActiveAdmins, People!Unseating,
     People!Deactivating, People!Demoting, People!Idle, People!Roles, People!NoUser, Apart, Spares

\* A handler begins.
LEMMA SeatBegin ==
    ASSUME SeatInv, NEW r \in Requests, NEW q \in SeatSlots, People!Begin(r, q), UNCHANGED aUser, Spares(q), q.pc # "idle"
    PROVE  SeatInv'
  <1>1. aReq' = [aReq EXCEPT ![r] = q] /\ aReq[r].pc = "idle"
    BY DEF People!Begin, People!At
  <1>2. aReq' \in [Requests -> SeatSlots]
    BY <1>1 DEF SeatInv, People!TypeOK, SeatSlots
  <1>3. aUnseated' \in BOOLEAN
    BY Zenon DEF People!Begin
  <1>4. People!TypeOK'
    BY <1>2, <1>3 DEF People!TypeOK, SeatInv, SeatSlots
  <1>7. ASSUME NEW o \in Requests, aReq'[o].pc = "idle" PROVE ~People!Unseating(aReq'[o])
    BY <1>1, <1>7 DEF SeatInv, People!TypeOK, SeatSlots
  <1>5. CASE aUnseated'
    BY <1>4, <1>5, <1>7 DEF SeatInv
  <1>6. CASE ~aUnseated'
    <2>1. ~aUnseated /\ (People!Unseating(q) => \A o \in People!InFlight : ~People!Unseating(aReq[o]))
      BY <1>6, Zenon DEF People!Begin
    <2>2. Seated
      BY <2>1 DEF SeatInv
    <2>3. People!ActiveAdmins' = People!ActiveAdmins
      BY DEF People!ActiveAdmins
    <2>4. ASSUME NEW o \in Requests, NEW p \in Requests, People!Unseating(aReq[o])', People!Unseating(aReq[p])'
          PROVE  o = p
      <3>1. ASSUME NEW k \in Requests PROVE aReq'[k] = IF k = r THEN q ELSE aReq[k]
        BY <1>1 DEF SeatInv, People!TypeOK
      <3>2. ASSUME NEW k \in Requests, People!Unseating(aReq[k]) PROVE k \in People!InFlight
        BY <3>2 DEF SeatInv, People!InFlight
      <3> QED BY <2>1, <2>2, <2>4, <3>1, <3>2 DEF Seated, Apart, People!Unseating, People!Deactivating, People!Demoting
    <2>5. ASSUME NEW o \in Requests PROVE Spares(aReq[o])'
      BY <1>1, <2>2, <2>3 DEF Seated, Spares, SeatInv, People!TypeOK, People!Unseating, People!Deactivating, People!Demoting
    <2>6. Seated'
      BY <2>2, <2>3, <2>4, <2>5 DEF Seated, Apart
    <2> QED BY <1>4, <1>7, <2>6 DEF SeatInv
  <1> QED BY <1>5, <1>6

\* Handlers go on, or end, and no admin is lost.
LEMMA SeatKept ==
    ASSUME SeatInv, People!TypeOK', UNCHANGED aUnseated, People!ActiveAdmins \subseteq People!ActiveAdmins',
           \A r \in Requests : People!Unseating(aReq[r])' => People!Unseating(aReq[r]) /\ aReq'[r].pc # "idle",
           Seated => \A r \in Requests : Spares(aReq[r])'
    PROVE  SeatInv'
  BY DEF SeatInv, Seated, Apart

\* An update of a row that takes no admin, or spares one.
LEMMA SeatWrite ==
    ASSUME SeatInv, NEW r \in Requests, People!UpdateWrite(r), People!TypeOK'
    PROVE  SeatInv'
  <1> DEFINE q == aReq[r]
  <1>1. /\ q.pc = "update" /\ aReq' = [aReq EXCEPT ![r] = People!Idle] /\ UNCHANGED aUnseated
        /\ aUser' = [aUser EXCEPT ![q.on] =
                        [role   |-> IF q.role = "NONE" THEN @.role ELSE q.role,
                         active |-> IF q.active = "KEEP" THEN @.active ELSE q.active = "YES"]]
    BY DEF People!UpdateWrite, People!At, People!Finish
  <1>2. ASSUME NEW o \in Requests PROVE aReq'[o] = IF o = r THEN People!Idle ELSE aReq[o]
    BY <1>1 DEF SeatInv, People!TypeOK
  <1>3. ~People!Unseating(People!Idle)
    BY DEF People!Unseating, People!Deactivating, People!Demoting, People!Idle
  <1>4. ASSUME NEW o \in Requests, People!Unseating(aReq'[o])
        PROVE  o # r /\ People!Unseating(aReq[o]) /\ aReq'[o].pc # "idle" /\ aReq'[o] = aReq[o]
    BY <1>2, <1>3, <1>4 DEF SeatInv
  <1>5. ASSUME NEW a \in Accounts, a # q.on PROVE aUser'[a] = aUser[a]
    BY <1>1, <1>5 DEF SeatInv, People!TypeOK
  <1>6. CASE People!Unseating(q)
    <2>1. CASE ~Seated
      BY <1>1, <1>4, <2>1 DEF SeatInv
    <2>2. CASE Seated
      <3>1. People!ActiveAdmins \ {q.on} # {}
        BY <1>1, <1>6, <2>2 DEF Seated, Spares
      <3>2. People!ActiveAdmins' # {}
        BY <1>5, <3>1 DEF People!ActiveAdmins
      <3>3. ASSUME NEW o \in Requests PROVE ~People!Unseating(aReq'[o])
        BY <1>4, <1>6, <2>2 DEF Seated, Apart
      <3>4. Seated'
        BY <3>2, <3>3 DEF Seated, Apart, Spares, People!Unseating, People!Deactivating, People!Demoting
      <3> QED BY <3>3, <3>4 DEF SeatInv, People!Unseating, People!Deactivating, People!Demoting
    <2> QED BY <2>1, <2>2
  <1>7. CASE ~People!Unseating(q)
    <2>1. People!ActiveAdmins \subseteq People!ActiveAdmins'
      <3> SUFFICES ASSUME NEW a \in Accounts, aUser[a] = [role |-> "ADMIN", active |-> TRUE]
                   PROVE  aUser'[a] = [role |-> "ADMIN", active |-> TRUE]
        BY DEF People!ActiveAdmins
      <3>1. CASE a # q.on
        BY <1>5, <3>1
      <3>2. CASE a = q.on
        BY <1>1, <1>7, <3>2 DEF SeatInv, People!TypeOK, People!Unseating, People!Deactivating, People!Demoting
      <3> QED BY <3>1, <3>2
    <2>2. ASSUME Seated, NEW o \in Requests PROVE Spares(aReq[o])'
      BY <1>4, <2>1, <2>2 DEF Seated, Spares, People!Unseating, People!Deactivating, People!Demoting
    <2>3. \A o \in Requests : People!Unseating(aReq[o])' => People!Unseating(aReq[o]) /\ aReq'[o].pc # "idle"
      BY <1>4 DEF People!Unseating, People!Deactivating, People!Demoting
    <2> QED BY <1>1, <2>1, <2>2, <2>3, SeatKept
  <1> QED BY <1>6, <1>7

\* Every step of the staff keeps the invariant.
LEMMA SeatStep ==
    ASSUME SeatInv, [People!Next]_aVars
    PROVE  SeatInv'
  <1>0. aUser \in [Accounts -> [role : People!Roles \cup {"NONE"}, active : BOOLEAN]]
    BY DEF SeatInv, People!TypeOK
  <1>1. CASE People!Create
    <2>1. PICK a \in Accounts, role \in People!Roles :
              ~People!Exists(a) /\ aUser' = [aUser EXCEPT ![a] = [role |-> role, active |-> TRUE]]
      BY <1>1 DEF People!Create
    <2>2. UNCHANGED <<aReq, aUnseated>>
      BY <1>1 DEF People!Create
    <2>3. People!TypeOK'
      BY <2>1, <2>2 DEF SeatInv, People!TypeOK
    <2>4. ASSUME NEW b \in Accounts, aUser[b] = [role |-> "ADMIN", active |-> TRUE] PROVE aUser'[b] = aUser[b]
      <3>1. b # a
        BY <2>1, <2>4 DEF People!Exists
      <3> QED BY <1>0, <2>1, <3>1
    <2>6. People!ActiveAdmins \subseteq People!ActiveAdmins'
      BY <2>4 DEF People!ActiveAdmins
    <2>5. ASSUME NEW o \in Requests
          PROVE  /\ People!Unseating(aReq[o])' => People!Unseating(aReq[o]) /\ aReq'[o].pc # "idle"
                 /\ Seated => Spares(aReq[o])'
      BY <2>2, <2>3, <2>6 DEF SeatInv, People!TypeOK, Seated, Spares, People!Unseating, People!Deactivating, People!Demoting
    <2> QED BY <2>2, <2>3, <2>6, <2>5, SeatKept
  <1>2. CASE People!Seed
    <2>1. aUser' = [aUser EXCEPT ![Founder].role = "ADMIN"] /\ UNCHANGED <<aReq, aUnseated>>
      BY <1>2 DEF People!Seed
    <2>2. People!TypeOK'
      BY <2>1, AccountsAssumption DEF SeatInv, People!TypeOK, People!Roles
    <2>4. ASSUME NEW b \in Accounts, aUser[b] = [role |-> "ADMIN", active |-> TRUE] PROVE aUser'[b] = aUser[b]
      <3>1. CASE b = Founder
        <4>1. aUser'[b] = [aUser[b] EXCEPT !.role = "ADMIN"]
          BY <1>0, <2>1, <3>1
        <4>2. [[role |-> "ADMIN", active |-> TRUE] EXCEPT !.role = "ADMIN"] = [role |-> "ADMIN", active |-> TRUE]
          OBVIOUS
        <4> QED BY <2>4, <4>1, <4>2
      <3>2. CASE b # Founder
        BY <1>0, <2>1, <3>2
      <3> QED BY <3>1, <3>2
    <2>3. People!ActiveAdmins \subseteq People!ActiveAdmins'
      BY <2>4 DEF People!ActiveAdmins
    <2>5. ASSUME NEW o \in Requests
          PROVE  /\ People!Unseating(aReq[o])' => People!Unseating(aReq[o]) /\ aReq'[o].pc # "idle"
                 /\ Seated => Spares(aReq[o])'
      BY <2>1, <2>2, <2>3 DEF SeatInv, People!TypeOK, Seated, Spares, People!Unseating, People!Deactivating, People!Demoting
    <2> QED BY <2>1, <2>2, <2>3, <2>5, SeatKept
  <1>3. ASSUME NEW r \in Requests, People!UpdateRead(r) PROVE SeatInv'
    <2>1. PICK actor \in Accounts, a \in Accounts, role \in People!Roles \cup {"NONE"}, active \in {"KEEP", "YES", "NO"} :
              LET q == [People!Idle EXCEPT !.actor = actor, !.on = a, !.role = role, !.active = active]
              IN  /\ People!Admits(actor, "ADMIN")
                  /\ People!Exists(a)
                  /\ People!Deactivating(q) => a # actor
                  /\ People!Begin(r, [q EXCEPT !.pc = IF People!Counted(q) THEN "count" ELSE "update"])
      BY <1>3, Zenon DEF People!UpdateRead
    <2> DEFINE p == [People!Idle EXCEPT !.actor = actor, !.on = a, !.role = role, !.active = active]
               q == [p EXCEPT !.pc = IF People!Counted(p) THEN "count" ELSE "update"]
    <2>2. q \in SeatSlots /\ q.pc # "idle" /\ p.on = a /\ q.on = a
      BY DEF People!Idle, SeatSlots, People!Roles
    <2>3. Spares(q)
      <3>1. People!Unseating(q) => People!Unseating(p)
        BY DEF People!Unseating, People!Deactivating, People!Demoting, People!Idle
      <3>2. ASSUME q.pc = "update", People!Unseating(p) PROVE aUser[a].role # "ADMIN"
        BY <2>2, <3>2 DEF People!Counted, People!Idle
      <3>3. actor \in People!ActiveAdmins
        BY <2>1 DEF People!Admits, People!ActiveAdmins
      <3> QED BY <2>2, <3>1, <3>2, <3>3 DEF Spares, People!ActiveAdmins
    <2> QED BY <2>1, <2>2, <2>3, SeatBegin, <1>3 DEF People!UpdateRead
  <1>4. ASSUME NEW r \in Requests, People!UpdateCount(r) PROVE SeatInv'
    <2>1. /\ aReq[r].pc = "count" /\ aReq' = [aReq EXCEPT ![r].pc = "update"] /\ UNCHANGED <<aUser, aUnseated>>
          /\ Cardinality(People!ActiveAdmins) > 1
      BY <1>4 DEF People!UpdateCount, People!At, People!Cardinality, Cardinality
    <2>2. People!TypeOK'
      BY <2>1 DEF SeatInv, People!TypeOK
    <2>3. ASSUME NEW a PROVE People!ActiveAdmins \ {a} # {}
      <3>1. CASE People!ActiveAdmins = {}
        BY <2>1, <3>1, FS_EmptySet
      <3>2. CASE People!ActiveAdmins = {a}
        <4>1. Cardinality({a}) = 1
          BY FS_Singleton
        <4> QED BY <2>1, <3>2, <4>1
      <3> QED BY <3>1, <3>2
    <2>4. People!ActiveAdmins' = People!ActiveAdmins
      BY <2>1 DEF People!ActiveAdmins
    <2>5. ASSUME NEW o \in Requests
          PROVE  People!Unseating(aReq[o])' => People!Unseating(aReq[o]) /\ aReq'[o].pc # "idle"
      BY <2>1 DEF SeatInv, People!TypeOK, People!Unseating, People!Deactivating, People!Demoting
    <2>6. ASSUME Seated, NEW o \in Requests PROVE Spares(aReq[o])'
      BY <2>1, <2>3, <2>4, <2>5, <2>6, ZenonT(60) DEF SeatInv, People!TypeOK, Seated, Spares, People!Unseating, People!Deactivating, People!Demoting
    <2> QED BY <2>1, <2>2, <2>4, <2>5, <2>6, SeatKept
  <1>5. ASSUME NEW r \in Requests, People!CollectorRead(r) PROVE SeatInv'
    <2>1. PICK actor \in Accounts, a \in Accounts, active \in {"KEEP", "YES", "NO"} :
              /\ People!Admits(actor, "ADMIN") /\ aUser[a].role = "COLLECTOR"
              /\ People!Begin(r, [People!Idle EXCEPT !.pc = "update", !.actor = actor, !.on = a, !.active = active])
      BY <1>5, ZenonT(60) DEF People!CollectorRead
    <2> DEFINE q == [People!Idle EXCEPT !.pc = "update", !.actor = actor, !.on = a, !.active = active]
    <2>2. q \in SeatSlots /\ q.pc # "idle" /\ q.on = a
      BY DEF People!Idle, SeatSlots, People!Roles
    <2>3. actor \in People!ActiveAdmins \ {a}
      BY <2>1 DEF People!Admits, People!ActiveAdmins
    <2> QED BY <2>1, <2>2, <2>3, SeatBegin, <1>5, ZenonT(60) DEF Spares, People!CollectorRead
  <1>6. ASSUME NEW r \in Requests, People!UpdateWrite(r) PROVE SeatInv'
    <2>1. People!TypeOK'
      BY <1>6 DEF People!UpdateWrite, People!Finish, People!Idle, SeatInv, People!TypeOK
    <2> QED BY <1>6, <2>1, SeatWrite
  <1>7. ASSUME NEW r \in Requests, People!Cut(r) PROVE SeatInv'
    <2>1. aReq' = [aReq EXCEPT ![r] = People!Idle] /\ UNCHANGED <<aUser, aUnseated>>
      BY <1>7 DEF People!Cut, People!Finish
    <2>2. People!TypeOK' /\ People!ActiveAdmins' = People!ActiveAdmins
      BY <2>1 DEF SeatInv, People!TypeOK, People!Idle, People!ActiveAdmins
    <2>3. ASSUME NEW o \in Requests, People!Unseating(aReq[o])'
          PROVE  People!Unseating(aReq[o]) /\ aReq'[o].pc # "idle" /\ aReq'[o] = aReq[o]
      BY <2>1, <2>3 DEF SeatInv, People!TypeOK, People!Unseating, People!Deactivating, People!Demoting, People!Idle
    <2>4. ASSUME Seated, NEW o \in Requests PROVE Spares(aReq[o])'
      BY <2>2, <2>3, <2>4 DEF Seated, Spares, People!Unseating, People!Deactivating, People!Demoting
    <2> QED BY <2>1, <2>2, <2>3, <2>4, SeatKept
  <1>8. CASE UNCHANGED aVars
    BY <1>8 DEF aVars, SeatInv, People!TypeOK, Seated, Apart, Spares, People!ActiveAdmins, People!Unseating, People!Deactivating, People!Demoting
  <1> QED BY <1>1, <1>2, <1>3, <1>4, <1>5, <1>6, <1>7, <1>8 DEF People!Next

\* The invariant holds while the staff run.
LEMMA SeatAlways == OfficeSpec => [](part = "people" => SeatInv)
  <1> DEFINE Inv == part = "people" => SeatInv
  <1>1. OfficeInit => Inv
    BY SeatInit DEF OfficeInit
  <1>2. Inv /\ [OfficeNext]_officeVars => Inv'
    BY PeopleSteps, SeatStep
  <1> QED BY <1>1, <1>2, PTL DEF OfficeSpec

(* Somebody can always administer the system: as long as no two requests   *)
(* that take an admin's role or block him are in flight together, the      *)
(* count in UsersController.update stands until its update, and leaves an  *)
(* active admin.                                                           *)
THEOREM SomebodyAdministers == OfficeSpec => []AdminRemains
  <1>1. (part = "people" => SeatInv) => AdminRemains
    BY DEF AdminRemains, People!AdminRemains, SeatInv, Seated
  <1> QED BY <1>1, SeatAlways, PTL

-----------------------------------------------------------------------------
(* Shifts.                                                                 *)
\* A step of the office is one of the shifts, or leaves them alone.
LEMMA WorkSteps ==
    ASSUME [OfficeNext]_officeVars
    PROVE  part' = part /\ (part = "work" => [Work!Next]_wVars)
  <1>1. CASE UNCHANGED officeVars
    BY <1>1 DEF officeVars, wVars
  <1>2. CASE OfficeNext
    BY <1>2 DEF OfficeNext, IdleBut, wVars
  <1> QED BY <1>1, <1>2

\* What Shifts!TypeOK says of a request.
WorkSlots == [pc : {"idle", "start", "end", "ping"}, actor : Collectors \cup {Nobody}, session : Sessions \cup {Nobody}]

\* The requests that have found an open session.
OnShift(q) == q.pc \in {"end", "ping"}

\* What a request in flight knows, whatever overlaps: whose shift it is on.
Owned(q) ==
    /\ q.pc # "idle" => q.actor \in Collectors
    /\ OnShift(q) => q.session \in Sessions /\ wSession[q.session].of = q.actor

\* What holds of a collector none of whose requests have overlapped.
Single(a) ==
    /\ a \notin wPinged
    /\ \A s, t \in Work!OpenOf(a) : s = t
    /\ \A r, o \in Work!InFlight : wReq[r].actor = a /\ wReq[o].actor = a => r = o
    /\ \A r \in Work!InFlight : wReq[r].actor = a =>
          IF wReq[r].pc = "start" THEN Work!OpenOf(a) = {} ELSE wReq[r].session \in Work!OpenOf(a)

\* The invariant: what a collector's only request has read is still so.
ShiftInv ==
    /\ wSession \in [Sessions -> [of : Collectors \cup {Nobody}, open : BOOLEAN]]
    /\ wReq \in [Requests -> WorkSlots]
    /\ wPinged \subseteq Collectors
    /\ \A r \in Requests : Owned(wReq[r])
    /\ \A a \in Collectors \ wCrossed : Single(a)

\* Nobody is at work.
LEMMA ShiftInit == ASSUME Work!Init PROVE ShiftInv
  BY DEF Work!Init, ShiftInv, WorkSlots, Owned, OnShift, Single, Work!Idle, Work!Closed, Work!OpenOf, Work!InFlight

\* A handler begins, and knows what the rows say.
LEMMA ShiftBegin ==
    ASSUME ShiftInv, NEW r \in Requests, NEW a \in Collectors, NEW q \in WorkSlots, q.actor = a, q.pc # "idle",
           Work!Begin(r, q), UNCHANGED <<wSession, wPinged>>,
           IF q.pc = "start" THEN Work!OpenOf(a) = {} ELSE q.session \in Work!OpenOf(a)
    PROVE  ShiftInv'
  <1>1. wReq[r].pc = "idle" /\ wReq' = [wReq EXCEPT ![r] = q]
    BY DEF Work!Begin, Work!At
  <1>2. \A o \in Requests : wReq'[o] = IF o = r THEN q ELSE wReq[o]
    BY <1>1 DEF ShiftInv
  <1>3. /\ wReq' \in [Requests -> WorkSlots]
        /\ Work!InFlight' = Work!InFlight \cup {r} /\ r \notin Work!InFlight
    BY <1>1, <1>2 DEF ShiftInv, Work!InFlight
  <1>4. ASSUME NEW b PROVE Work!OpenOf(b)' = Work!OpenOf(b)
    BY DEF Work!OpenOf
  <1>5. \A o \in Requests : Owned(wReq[o])'
    BY <1>2, SMTT(60) DEF ShiftInv, Owned, OnShift, WorkSlots, Work!OpenOf
  <1>6. ASSUME NEW b \in Collectors \ wCrossed' PROVE Single(b)'
    <2>1. b \notin wCrossed /\ (b = a => \A o \in Work!InFlight : wReq[o].actor # a)
      BY <1>6 DEF Work!Begin
    <2>2. Single(b)
      BY <2>1, <1>6 DEF ShiftInv
    <2> QED BY <1>2, <1>3, <1>4, <2>1, <2>2 DEF Single, Work!InFlight
  <1> QED BY <1>3, <1>5, <1>6 DEF ShiftInv

\* A handler ends; the session rows change at most in the one of its collector.
LEMMA ShiftEnd ==
    ASSUME ShiftInv, NEW r \in Work!InFlight, NEW a, a = wReq[r].actor, Work!Finish(r), UNCHANGED wCrossed,
           wSession' \in [Sessions -> [of : Collectors \cup {Nobody}, open : BOOLEAN]],
           wPinged' \subseteq wPinged \cup {a},
           \A b \in Collectors \ {a} : Work!OpenOf(b)' = Work!OpenOf(b),
           \A o \in Requests \ {r} : OnShift(wReq[o]) => wSession'[wReq[o].session].of = wSession[wReq[o].session].of,
           a \notin wCrossed => a \notin wPinged' /\ \A s, t \in Work!OpenOf(a)' : s = t
    PROVE  ShiftInv'
  <1>1. r \in Requests /\ a \in Collectors
    BY DEF Work!InFlight, ShiftInv, Owned
  <1>2. \A o \in Requests : wReq'[o] = IF o = r THEN Work!Idle ELSE wReq[o]
    BY <1>1 DEF ShiftInv, Work!Finish
  <1>3. wReq' \in [Requests -> WorkSlots] /\ Work!InFlight' = Work!InFlight \ {r}
    BY <1>1, <1>2 DEF ShiftInv, Work!InFlight, Work!Finish, Work!Idle, WorkSlots
  <1>4. \A o \in Requests : Owned(wReq[o])'
    BY <1>2 DEF ShiftInv, Owned, OnShift, Work!Idle
  <1>5. ASSUME NEW b \in Collectors \ wCrossed' PROVE Single(b)'
    <2>1. Single(b)
      BY <1>5 DEF ShiftInv
    <2>2. CASE b = a
      BY <1>2, <1>3, <1>5, <2>1, <2>2 DEF Single, Work!InFlight
    <2>3. CASE b # a
      BY <1>2, <1>3, <1>5, <2>1, <2>3 DEF Single, Work!InFlight
    <2> QED BY <2>2, <2>3
  <1> QED BY <1>1, <1>3, <1>4, <1>5 DEF ShiftInv

\* A session that ends stays its collector's.
LEMMA Closing ==
    ASSUME NEW O, NEW c \in [of : O, open : BOOLEAN]
    PROVE  [c EXCEPT !.open = FALSE] = [of |-> c.of, open |-> FALSE]
  <1> DEFINE d == [c EXCEPT !.open = FALSE]
             e == [of |-> c.of, open |-> FALSE]
  <1>1. d \in [of : O, open : BOOLEAN] /\ d.of = c.of /\ d.open = FALSE
    BY Zenon
  <1>2. e \in [of : O, open : BOOLEAN] /\ e.of = c.of /\ e.open = FALSE
    BY Zenon
  <1> HIDE DEF d, e
  <1>3. d = e
    BY <1>1, <1>2, SMT
  <1> QED BY <1>3 DEF d, e

\* Membership in the open sessions, expanded.
LEMMA Opened ==
    ASSUME NEW a, NEW s
    PROVE  s \in Work!OpenOf(a) <=> s \in Sessions /\ wSession[s] = [of |-> a, open |-> TRUE]
  BY DEF Work!OpenOf

\* Every step of the shifts keeps the invariant.
LEMMA ShiftStep ==
    ASSUME ShiftInv, [Work!Next]_wVars
    PROVE  ShiftInv'
  <1>1. CASE Work!Block \/ UNCHANGED wVars
    BY <1>1 DEF Work!Block, wVars, ShiftInv, Owned, OnShift, Single, Work!OpenOf, Work!InFlight
  <1>2. ASSUME NEW r \in Requests, Work!StartRead(r) PROVE ShiftInv'
    <2>1. PICK a \in Collectors :
              Work!OpenOf(a) = {} /\ Work!Begin(r, [Work!Idle EXCEPT !.pc = "start", !.actor = a])
      BY <1>2, Zenon DEF Work!StartRead
    <2> DEFINE q == [Work!Idle EXCEPT !.pc = "start", !.actor = a]
    <2>2. q \in WorkSlots /\ q.pc = "start" /\ q.actor = a
      BY DEF Work!Idle, WorkSlots
    <2> QED BY <1>2, <2>1, <2>2, ShiftBegin DEF Work!StartRead
  <1>3. ASSUME NEW r \in Requests, NEW pc \in {"end", "ping"}, Work!ShiftRead(r, pc) PROVE ShiftInv'
    <2>1. PICK a \in Collectors : \E s \in Work!OpenOf(a) :
              Work!Begin(r, [Work!Idle EXCEPT !.pc = pc, !.actor = a, !.session = s])
      BY <1>3, Zenon DEF Work!ShiftRead
    <2>3. PICK s \in Work!OpenOf(a) :
              Work!Begin(r, [Work!Idle EXCEPT !.pc = pc, !.actor = a, !.session = s])
      BY <2>1
    <2> DEFINE q == [Work!Idle EXCEPT !.pc = pc, !.actor = a, !.session = s]
    <2>2. q \in WorkSlots /\ q.pc = pc /\ q.actor = a /\ q.session = s
      BY DEF Work!Idle, WorkSlots, Work!OpenOf
    <2> QED BY <1>3, <2>3, <2>2, ShiftBegin DEF Work!ShiftRead
  <1>4. ASSUME NEW r \in Requests, Work!StartWrite(r) PROVE ShiftInv'
    <2>0. PICK a : a = wReq[r].actor
      OBVIOUS
    <2>1. PICK s \in Sessions :
              /\ ~wSession[s].open /\ \A o \in Work!InFlight : wReq[o].session # s
              /\ wSession' = [wSession EXCEPT ![s] = [of |-> a, open |-> TRUE]]
      BY <2>0, <1>4 DEF Work!StartWrite
    <2>2. r \in Work!InFlight /\ wReq[r].pc = "start" /\ a \in Collectors /\ Work!Finish(r) /\ UNCHANGED <<wPinged, wCrossed>>
      BY <2>0, <1>4 DEF Work!StartWrite, Work!At, Work!InFlight, ShiftInv, Owned
    <2>3. \A t \in Sessions : wSession'[t] = IF t = s THEN [of |-> a, open |-> TRUE] ELSE wSession[t]
      BY <2>0, <2>1 DEF ShiftInv
    <2>4. wSession' \in [Sessions -> [of : Collectors \cup {Nobody}, open : BOOLEAN]]
      BY <2>0, <2>1, <2>2 DEF ShiftInv
    <2>5. \A b \in Collectors \ {a} : Work!OpenOf(b)' = Work!OpenOf(b)
      BY <2>0, <2>1, <2>3 DEF Work!OpenOf
    <2>6. Work!OpenOf(a)' = Work!OpenOf(a) \cup {s}
      BY <2>0, <2>3 DEF Work!OpenOf
    <2>7. \A o \in Requests \ {r} : OnShift(wReq[o]) => wSession'[wReq[o].session].of = wSession[wReq[o].session].of
      BY <2>0, <2>1, <2>3 DEF ShiftInv, Owned, OnShift, Work!InFlight
    <2>8. a \notin wCrossed => Work!OpenOf(a) = {} /\ a \notin wPinged
      BY <2>0, <2>2 DEF ShiftInv, Single
    <2>9. a \notin wCrossed => a \notin wPinged' /\ \A k, l \in Work!OpenOf(a)' : k = l
      BY <2>0, <2>2, <2>6, <2>8
    <2>10. wPinged' \subseteq wPinged \cup {a} /\ UNCHANGED wCrossed
      BY <2>0, <2>2
    <2> QED BY <2>0, <2>2, <2>4, <2>5, <2>7, <2>9, <2>10, ShiftEnd, ZenonT(60)
  <1>5. ASSUME NEW r \in Requests, Work!EndWrite(r) PROVE ShiftInv'
    <2>0. PICK a, s : a = wReq[r].actor /\ s = wReq[r].session
      OBVIOUS
    <2>1. /\ wReq[r].pc = "end" /\ wSession' = [wSession EXCEPT ![s].open = FALSE]
          /\ Work!Finish(r) /\ UNCHANGED <<wPinged, wCrossed>>
      BY <2>0, <1>5 DEF Work!EndWrite, Work!At
    <2>2. r \in Work!InFlight /\ a \in Collectors /\ s \in Sessions /\ wSession[s].of = a
      BY <2>0, <2>1 DEF Work!InFlight, ShiftInv, Owned, OnShift
    <2>3. \A t \in Sessions : /\ wSession'[t].of = wSession[t].of
                              /\ wSession'[t] = IF t = s THEN [of |-> a, open |-> FALSE] ELSE wSession[t]
      <3>1. \A t \in Sessions : wSession'[t] = IF t = s THEN [wSession[s] EXCEPT !.open = FALSE] ELSE wSession[t]
        BY <2>0, <2>1, <2>2 DEF ShiftInv
      <3>2. wSession[s] \in [of : Collectors \cup {Nobody}, open : BOOLEAN]
        BY <2>2 DEF ShiftInv
      <3>3. [wSession[s] EXCEPT !.open = FALSE] = [of |-> a, open |-> FALSE]
        BY <2>2, <3>2, Closing
      <3> QED BY <2>2, <3>1, <3>3
    <2>4. wSession' \in [Sessions -> [of : Collectors \cup {Nobody}, open : BOOLEAN]]
      BY <2>0, <2>1, <2>2, ZenonT(60) DEF ShiftInv
    <2>5. \A b \in Collectors \ {a} : Work!OpenOf(b)' = Work!OpenOf(b)
      BY <2>0, <2>2, <2>3 DEF Work!OpenOf
    <2>6. Work!OpenOf(a)' \subseteq Work!OpenOf(a)
      BY <2>0, <2>3 DEF Work!OpenOf
    <2>7. \A o \in Requests \ {r} : OnShift(wReq[o]) => wSession'[wReq[o].session].of = wSession[wReq[o].session].of
      BY <2>0, <2>3 DEF ShiftInv, Owned, OnShift
    <2>9. a \notin wCrossed => a \notin wPinged' /\ \A k, l \in Work!OpenOf(a)' : k = l
      BY <2>0, <2>1, <2>2, <2>6 DEF ShiftInv, Single
    <2> QED BY <2>0, <2>1, <2>2, <2>4, <2>5, <2>7, <2>9, ShiftEnd, Zenon
  <1>6. ASSUME NEW r \in Requests, Work!PingWrite(r) \/ Work!Cut(r) PROVE ShiftInv'
    <2>0. PICK a : a = wReq[r].actor
      OBVIOUS
    <2>1. r \in Work!InFlight /\ Work!Finish(r) /\ UNCHANGED <<wSession, wCrossed>>
      BY <2>0, <1>6 DEF Work!PingWrite, Work!Cut, Work!At, Work!InFlight
    <2>2. \A b \in Collectors : Work!OpenOf(b)' = Work!OpenOf(b)
      BY <2>0, <2>1 DEF Work!OpenOf
    <2>3. a \in Collectors
      BY <2>0, <2>1 DEF ShiftInv, Owned, Work!InFlight
    <2>4. wPinged' \subseteq wPinged \cup {a}
      BY <2>0, <1>6 DEF Work!PingWrite, Work!Cut
    <2>5. a \notin wCrossed => a \notin wPinged' /\ \A k, l \in Work!OpenOf(a)' : k = l
      <3>1. ASSUME a \notin wCrossed, Work!PingWrite(r) PROVE wSession[wReq[r].session].open
        <4>1. wReq[r].session \in Work!OpenOf(a)
          BY <2>0, <2>1, <2>3, <3>1 DEF Work!PingWrite, Work!At, ShiftInv, Single
        <4>2. wSession[wReq[r].session] = [of |-> a, open |-> TRUE]
          BY <4>1, Opened
        <4>3. [of |-> a, open |-> TRUE].open
          OBVIOUS
        <4> QED BY <4>2, <4>3, Zenon
      <3>2. a \notin wCrossed => wPinged' = wPinged
        BY <2>0, <1>6, <3>1, Zenon DEF Work!PingWrite, Work!Cut
      <3> QED BY <2>0, <2>2, <2>3, <3>2 DEF ShiftInv, Single
    <2>7. wSession' \in [Sessions -> [of : Collectors \cup {Nobody}, open : BOOLEAN]]
      BY <2>0, <2>1 DEF ShiftInv
    <2> QED BY <2>0, <2>1, <2>2, <2>4, <2>5, <2>7, ShiftEnd, Zenon
  <1> QED BY <1>1, <1>2, <1>3, <1>4, <1>5, <1>6 DEF Work!Next, Work!EndRead, Work!PingRead

\* What ShiftInv leaves out of Shifts!TypeOK.
ShiftRows ==
    /\ wAdmitted \subseteq Collectors /\ wCrossed \subseteq Collectors
    /\ \A s \in Sessions : wSession[s].open => wSession[s].of \in Collectors

\* An open session is opened by the collector of the request that writes it.
LEMMA ShiftRowsStep ==
    ASSUME ShiftInv, ShiftRows, [Work!Next]_wVars
    PROVE  ShiftRows'
  <1>1. CASE Work!Block \/ UNCHANGED wVars
    BY <1>1 DEF Work!Block, wVars, ShiftRows
  <1>2. ASSUME NEW r \in Requests, NEW a \in Collectors, NEW q, q.actor = a, Work!Begin(r, q), UNCHANGED <<wAdmitted, wSession>>
        PROVE  ShiftRows'
    BY <1>2 DEF Work!Begin, ShiftRows
  <1>3. ASSUME NEW r \in Requests, Work!StartRead(r) PROVE ShiftRows'
    <2>1. PICK a \in Collectors : Work!Begin(r, [Work!Idle EXCEPT !.pc = "start", !.actor = a])
      BY <1>3, Zenon DEF Work!StartRead
    <2>2. [Work!Idle EXCEPT !.pc = "start", !.actor = a].actor = a
      BY DEF Work!Idle
    <2> QED BY <1>2, <1>3, <2>1, <2>2, Zenon DEF Work!StartRead
  <1>4. ASSUME NEW r \in Requests, NEW pc, Work!ShiftRead(r, pc) PROVE ShiftRows'
    <2>1. PICK a \in Collectors : \E s \in Work!OpenOf(a) :
              Work!Begin(r, [Work!Idle EXCEPT !.pc = pc, !.actor = a, !.session = s])
      BY <1>4, Zenon DEF Work!ShiftRead
    <2>2. PICK s \in Work!OpenOf(a) : Work!Begin(r, [Work!Idle EXCEPT !.pc = pc, !.actor = a, !.session = s])
      BY <2>1
    <2>3. [Work!Idle EXCEPT !.pc = pc, !.actor = a, !.session = s].actor = a
      BY DEF Work!Idle
    <2> QED BY <1>2, <1>4, <2>2, <2>3, Zenon DEF Work!ShiftRead
  <1>5. ASSUME NEW r \in Requests, Work!StartWrite(r) PROVE ShiftRows'
    <2>1. PICK s \in Sessions : wSession' = [wSession EXCEPT ![s] = [of |-> wReq[r].actor, open |-> TRUE]]
      BY <1>5 DEF Work!StartWrite
    <2>2. UNCHANGED <<wAdmitted, wCrossed>> /\ wReq[r].actor \in Collectors
      BY <1>5 DEF Work!StartWrite, Work!At, ShiftInv, Owned
    <2> QED BY <2>1, <2>2 DEF ShiftInv, ShiftRows
  <1>6. ASSUME NEW r \in Requests, Work!EndWrite(r) PROVE ShiftRows'
    <2>1. /\ wSession' = [wSession EXCEPT ![wReq[r].session].open = FALSE] /\ UNCHANGED <<wAdmitted, wCrossed>>
          /\ wReq[r].session \in Sessions
      BY <1>6 DEF Work!EndWrite, Work!At, ShiftInv, Owned, OnShift
    <2>2. \A s \in Sessions : wSession'[s] = IF s = wReq[r].session THEN [wSession[s] EXCEPT !.open = FALSE] ELSE wSession[s]
      BY <2>1 DEF ShiftInv
    <2>3. \A s \in Sessions : [wSession[s] EXCEPT !.open = FALSE] = [of |-> wSession[s].of, open |-> FALSE]
      BY Closing DEF ShiftInv
    <2>4. \A s \in Sessions : ~[of |-> wSession[s].of, open |-> FALSE].open
      OBVIOUS
    <2>5. ASSUME NEW s \in Sessions, wSession'[s].open PROVE wSession'[s].of \in Collectors
      <3>1. s # wReq[r].session
        BY <2>2, <2>3, <2>4, <2>5, Zenon
      <3> QED BY <2>2, <2>5, <3>1, Zenon DEF ShiftRows
    <2> QED BY <2>1, <2>5 DEF ShiftRows
  <1>7. ASSUME NEW r \in Requests, Work!PingWrite(r) \/ Work!Cut(r) PROVE ShiftRows'
    BY <1>7 DEF Work!PingWrite, Work!Cut, ShiftRows
  <1> QED BY <1>1, <1>3, <1>4, <1>5, <1>6, <1>7 DEF Work!Next, Work!EndRead, Work!PingRead

\* The invariant holds while the shifts run, and with it their types.
LEMMA ShiftAlways == OfficeSpec => [](part = "work" => ShiftInv /\ ShiftRows)
  <1> DEFINE Inv == part = "work" => ShiftInv /\ ShiftRows
  <1>1. Work!Init => ShiftRows
    BY DEF Work!Init, ShiftRows, Work!Closed
  <1>2. OfficeInit => Inv
    BY <1>1, ShiftInit DEF OfficeInit
  <1>3. Inv /\ [OfficeNext]_officeVars => Inv'
    BY WorkSteps, ShiftStep, ShiftRowsStep
  <1> QED BY <1>2, <1>3, PTL DEF OfficeSpec

(* A collector none of whose requests have overlapped has at most one open *)
(* shift, and no location on an ended one (WorkController.start, end and   *)
(* ping find the open session, and only then write).                       *)
THEOREM OneOpenShift == OfficeSpec => []OneShift
  <1>1. ASSUME ShiftInv, NEW a \in Collectors \ wCrossed PROVE a \notin wPinged /\ Work!Cardinality(Work!OpenOf(a)) <= 1
    <2>1. a \notin wPinged /\ \A s, t \in Work!OpenOf(a) : s = t
      BY <1>1 DEF ShiftInv, Single
    <2>2. Work!OpenOf(a) = {} \/ \E s : Work!OpenOf(a) = {s}
      <3> DEFINE S == Work!OpenOf(a)
      <3>1. \A s, t \in S : s = t
        BY <2>1
      <3> HIDE DEF S
      <3>2. S = {} \/ \E s : S = {s}
        BY <3>1
      <3> QED BY <3>2 DEF S
    <2>3. Cardinality(Work!OpenOf(a)) <= 1
      <3>1. CASE Work!OpenOf(a) = {}
        BY <3>1, FS_EmptySet
      <3>2. CASE \E s : Work!OpenOf(a) = {s}
        BY <3>2, FS_Singleton
      <3> QED BY <2>2, <3>1, <3>2
    <2> QED BY <2>1, <2>3 DEF Work!Cardinality, Cardinality
  <1>2. (part = "work" => ShiftInv /\ ShiftRows) => OneShift
    BY <1>1 DEF OneShift, Work!OneShift
  <1> QED BY <1>2, ShiftAlways, PTL

-----------------------------------------------------------------------------
(* PaymentSchedule.                                                        *)
\* A step of the office is one of the payment schedule, or leaves it alone.
LEMMA PlanSteps ==
    ASSUME [OfficeNext]_officeVars
    PROVE  part' = part /\ (part = "plan" => [Plan!Next]_pVars)
  <1>1. CASE UNCHANGED officeVars
    BY <1>1 DEF officeVars, pVars
  <1>2. CASE OfficeNext
    BY <1>2 DEF OfficeNext, IdleBut, pVars
  <1> QED BY <1>1, <1>2

\* What PaymentSchedule!TypeOK says of a request, with its terms.
PlanSlots == [op : Plan!Ops \cup {"none"}, pc : {"idle", "rate", "gate", "write"},
              terms : Plan!Terms \cup {Plan!None}, to : Plan!Statuses, current : BOOLEAN]

\* What a request will write are terms that a line can have.
PlanFits(q) == q.op \in {"store", "rate"} \/ (q.op = "edit" /\ q.pc = "write") => q.terms \in Plan!Terms

\* The state's domains, and the requests that have terms to write.
PlanTypes ==
    /\ pTerms \in Plan!Terms
    /\ pSchedule \in Plan!Terms \cup {Plan!None}
    /\ pReq \in [Requests -> PlanSlots]
    /\ \A r \in Requests : PlanFits(pReq[r])

\* Before the case is final nothing is stored, nor answered.
Pending ==
    /\ ~Plan!Final /\ pAnswered = {} /\ pSchedule = Plan!None
    /\ \A r \in Requests : pReq[r].op # "store"

\* Nobody is left who could change the terms of a final case, or its status.
Calm(q) == q.op \notin {"rate", "edit", "move"} /\ (q.op = "store" => q.terms = pAgreed)
\* What holds of a final case that nobody was late for.
Settled ==
    /\ pStatus = "FINALIZED" /\ pTerms = pAgreed
    /\ pAnswered \subseteq {pAgreed} /\ pSchedule \in {Plan!None, pAgreed}
    /\ \A r \in Requests : Calm(pReq[r])

\* The invariant; a case is pending, or settled, or somebody was late.
PlanInv ==
    /\ PlanTypes
    /\ pAgreed = Plan!None => Pending
    /\ pAgreed = Plan!None \/ pLate \/ Settled

\* The absent schedule is no terms, as no rate is 0.
LEMMA TermsExist == Plan!None \notin Plan!Terms
  BY RatesAssumption DEF Plan!None, Plan!Terms

\* An idle slot is a slot, and has no operation.
LEMMA PlanIdle == Plan!Idle \in PlanSlots /\ Plan!Idle.op = "none"
  BY DEF Plan!Idle, PlanSlots, Plan!Statuses

\* A case starts pending.
LEMMA PlanInit == ASSUME Plan!Init PROVE PlanInv
  BY PlanIdle DEF Plan!Init, PlanInv, PlanTypes, Pending, Plan!Final, PlanFits

\* One slot takes a turn.
LEMMA PlanTurn ==
    ASSUME PlanTypes, NEW r \in Requests, NEW q \in PlanSlots, PlanFits(q), pReq' = [pReq EXCEPT ![r] = q]
    PROVE  /\ pReq' \in [Requests -> PlanSlots]
           /\ \A o \in Requests : pReq'[o] = IF o = r THEN q ELSE pReq[o]
           /\ \A o \in Requests : PlanFits(pReq[o])'
  BY DEF PlanTypes, PlanFits

\* A turn that changes no row.
LEMMA PlanQuiet ==
    ASSUME PlanInv, NEW r \in Requests, NEW q \in PlanSlots, PlanFits(q), pReq' = [pReq EXCEPT ![r] = q],
           UNCHANGED <<pStatus, pFrozen, pTerms, pSchedule, pAgreed, pLate, pAnswered>>,
           q.op # "store", Settled => Calm(q)
    PROVE  PlanInv'
  <1>1. PlanTypes' /\ \A o \in Requests : pReq'[o] = IF o = r THEN q ELSE pReq[o]
    BY PlanTurn DEF PlanInv, PlanTypes
  <1>2. (pAgreed = Plan!None => Pending)'
    BY <1>1 DEF PlanInv, Pending, Plan!Final
  <1>3. Settled => Settled'
    BY <1>1 DEF Settled, Calm
  <1> QED BY <1>1, <1>2, <1>3 DEF PlanInv

\* A reader of a final case is answered its terms' schedule, and may store it.
LEMMA PlanRead ==
    ASSUME PlanInv, NEW r \in Requests, Plan!Read(r)
    PROVE  PlanInv'
  <1>1. /\ pAnswered' = IF Plan!Final /\ Plan!Computable(Plan!scheduleForCase)
                        THEN pAnswered \cup {Plan!scheduleForCase} ELSE pAnswered
        /\ UNCHANGED <<pStatus, pFrozen, pTerms, pSchedule, pAgreed, pLate>>
    BY DEF Plan!Read, Plan!Answers
  <1>2. Plan!Final' = Plan!Final
    BY <1>1 DEF Plan!Final
  <1>3. Settled => pAnswered' \subseteq {pAgreed}
    BY <1>1 DEF Settled, Plan!scheduleForCase
  <1>4. ~Plan!Final => pAnswered' = pAnswered
    BY <1>1
  <1>5. CASE pSchedule = Plan!None /\ Plan!Computable(pTerms) /\ Plan!Final
    <2> DEFINE q == [Plan!Idle EXCEPT !.op = "store", !.pc = "write", !.terms = pTerms]
    <2>1. pReq' = [pReq EXCEPT ![r] = q]
      BY <1>5 DEF Plan!Read, Plan!Stores, Plan!Begin
    <2>2. q \in PlanSlots /\ q.op = "store" /\ q.terms = pTerms
      BY DEF Plan!Idle, PlanSlots, PlanInv, PlanTypes, Plan!Ops, Plan!Statuses
    <2>3. PlanFits(q)
      BY <2>2 DEF PlanFits, PlanInv, PlanTypes
    <2> HIDE DEF q
    <2>4. PlanTypes' /\ \A o \in Requests : pReq'[o] = IF o = r THEN q ELSE pReq[o]
      BY <1>1, <2>1, <2>2, <2>3, PlanTurn DEF PlanInv, PlanTypes
    <2>5. pAgreed # Plan!None
      BY <1>5 DEF PlanInv, Pending
    <2>6. Settled => Settled'
      BY <1>1, <1>3, <2>2, <2>4 DEF Settled, Calm
    <2> QED BY <1>1, <2>4, <2>5, <2>6 DEF PlanInv
  <1>6. CASE ~(pSchedule = Plan!None /\ Plan!Computable(pTerms) /\ Plan!Final)
    <2>1. pReq' = pReq
      BY <1>6 DEF Plan!Read
    <2>2. PlanTypes' /\ (Pending => Pending')
      BY <1>1, <1>2, <1>4, <2>1 DEF PlanInv, PlanTypes, PlanFits, Pending
    <2>3. Settled => Settled'
      BY <1>1, <1>3, <2>1 DEF Settled, Calm
    <2> QED BY <1>1, <2>2, <2>3 DEF PlanInv
  <1> QED BY <1>5, <1>6

\* The rows that a reader computed are stored, unless somebody was first.
LEMMA PlanStore ==
    ASSUME PlanInv, NEW r \in Requests, Plan!Store(r)
    PROVE  PlanInv'
  <1>1. /\ pReq[r].op = "store" /\ pReq' = [pReq EXCEPT ![r] = Plan!Idle]
        /\ pSchedule' \in {pSchedule, pReq[r].terms}
        /\ UNCHANGED <<pStatus, pFrozen, pTerms, pAgreed, pLate, pAnswered>>
    BY DEF Plan!Store, Plan!At, Plan!Finish, Plan!Ghosts
  <1>2. PlanFits(Plan!Idle)
    BY DEF PlanFits, Plan!Idle
  <1>3. pSchedule' \in Plan!Terms \cup {Plan!None}
    BY <1>1 DEF PlanInv, PlanTypes, PlanFits
  <1>4. PlanTypes' /\ \A o \in Requests : pReq'[o] = IF o = r THEN Plan!Idle ELSE pReq[o]
    BY <1>1, <1>2, <1>3, PlanTurn, PlanIdle DEF PlanInv, PlanTypes
  <1>5. pAgreed # Plan!None
    BY <1>1 DEF PlanInv, Pending
  <1>6. Settled => Settled'
    BY <1>1, <1>4, PlanIdle DEF Settled, Calm
  <1> QED BY <1>1, <1>4, <1>5, <1>6 DEF PlanInv

\* The terms of a line are written: no final case has this left to happen.
LEMMA PlanTerms ==
    ASSUME PlanInv, NEW r \in Requests, ~Calm(pReq[r]), PlanTypes', pSchedule' \in {pSchedule, Plan!None},
           UNCHANGED <<pStatus, pFrozen, pAgreed, pLate, pAnswered>>,
           \A o \in Requests : pReq'[o].op \in {"none", pReq[o].op}
    PROVE  PlanInv'
  <1>1. (pAgreed = Plan!None => Pending)'
    BY DEF PlanInv, Pending, Plan!Final
  <1>2. ~Settled
    BY DEF Settled
  <1> QED BY <1>1, <1>2 DEF PlanInv

\* A new rate is written over the line's.
LEMMA PlanRate ==
    ASSUME PlanInv, NEW r \in Requests, Plan!RateWrite(r)
    PROVE  PlanInv'
  <1>1. /\ pReq[r].op = "rate" /\ pReq' = [pReq EXCEPT ![r] = Plan!Idle]
        /\ pTerms' = [pTerms EXCEPT !.rate = pReq[r].terms.rate]
        /\ UNCHANGED <<pStatus, pFrozen, pSchedule, pAgreed, pLate, pAnswered>>
    BY DEF Plan!RateWrite, Plan!At, Plan!Finish, Plan!Ghosts
  <1>2. pReq[r].terms.rate \in Rates
    BY <1>1 DEF PlanInv, PlanTypes, PlanFits, Plan!Terms
  <1>3. pTerms' \in Plan!Terms
    BY <1>1, <1>2 DEF PlanInv, PlanTypes, Plan!Terms
  <1>4. PlanTypes' /\ \A o \in Requests : pReq'[o] = IF o = r THEN Plan!Idle ELSE pReq[o]
    BY <1>1, <1>3, PlanTurn, PlanIdle DEF PlanInv, PlanTypes, PlanFits
  <1> QED BY <1>1, <1>4, PlanIdle, PlanTerms DEF Calm

\* An edit writes its terms and throws the stored rows away.
LEMMA PlanEdit ==
    ASSUME PlanInv, NEW r \in Requests, Plan!EditWrite(r)
    PROVE  PlanInv'
  <1>1. /\ pReq[r].op = "edit" /\ pReq[r].pc = "write"
        /\ pReq' = [o \in Requests |-> IF o = r THEN Plan!Idle
                                       ELSE IF pReq[o].op = "store" THEN [pReq[o] EXCEPT !.current = FALSE] ELSE pReq[o]]
        /\ pTerms' = pReq[r].terms /\ pSchedule' = Plan!None
        /\ UNCHANGED <<pStatus, pFrozen, pAgreed, pLate, pAnswered>>
    BY DEF Plan!EditWrite, Plan!At, Plan!Ghosts
  <1>2. ASSUME NEW o \in Requests
        PROVE  /\ pReq'[o] \in PlanSlots
               /\ o # r => pReq'[o].op = pReq[o].op /\ pReq'[o].pc = pReq[o].pc /\ pReq'[o].terms = pReq[o].terms
    <2> DEFINE q == pReq[o]
    <2>1. q \in PlanSlots
      BY DEF PlanInv, PlanTypes
    <2>2. [q EXCEPT !.current = FALSE] \in PlanSlots
      BY <2>1, Zenon DEF PlanSlots
    <2>3. /\ [q EXCEPT !.current = FALSE].op = q.op /\ [q EXCEPT !.current = FALSE].pc = q.pc
          /\ [q EXCEPT !.current = FALSE].terms = q.terms
      BY <2>1 DEF PlanSlots
    <2>4. pReq'[o] = IF o = r THEN Plan!Idle ELSE IF q.op = "store" THEN [q EXCEPT !.current = FALSE] ELSE q
      BY <1>1
    <2> HIDE DEF q
    <2>5. pReq'[o] \in PlanSlots /\ (o # r => pReq'[o].op = q.op /\ pReq'[o].pc = q.pc /\ pReq'[o].terms = q.terms)
      BY <2>1, <2>2, <2>3, <2>4, PlanIdle
    <2> QED BY <2>5 DEF q
  <1>3. pReq'[r] = Plan!Idle
    BY <1>1
  <1>4. pReq' \in [Requests -> PlanSlots]
    BY <1>1, <1>2
  <1>5. \A o \in Requests : PlanFits(pReq[o])'
    BY <1>2, <1>3, PlanIdle DEF PlanInv, PlanTypes, PlanFits
  <1>6. PlanTypes'
    BY <1>1, <1>4, <1>5 DEF PlanInv, PlanTypes, PlanFits
  <1> QED BY <1>1, <1>2, <1>3, <1>6, PlanIdle, PlanTerms DEF Calm

\* A request sets the status, and may make the case final.
LEMMA PlanCloses ==
    ASSUME PlanInv, NEW r \in Requests, pReq' = [pReq EXCEPT ![r] = Plan!Idle],
           UNCHANGED <<pTerms, pSchedule, pAnswered>>,
           IF Plan!Final' /\ ~Plan!Final THEN pStatus' = "FINALIZED" /\ Plan!Closes(r)
                                         ELSE UNCHANGED <<pAgreed, pLate>>,
           pStatus' = pStatus \/ pStatus' = "FINALIZED" \/ ~Calm(pReq[r])
    PROVE  PlanInv'
  <1>1. PlanTypes' /\ \A o \in Requests : pReq'[o] = IF o = r THEN Plan!Idle ELSE pReq[o]
    BY PlanTurn, PlanIdle DEF PlanInv, PlanTypes, PlanFits
  <1>2. CASE Plan!Final' /\ ~Plan!Final
    <2>1. pAgreed' = pTerms /\ pStatus' = "FINALIZED" /\ pTerms \in Plan!Terms
      BY <1>2 DEF Plan!Closes, PlanInv, PlanTypes
    <2>2. pAgreed' # Plan!None
      BY <2>1, TermsExist
    <2>3. ASSUME ~pLate' PROVE Settled'
      <3>1. ~Settled /\ ~pLate
        BY <1>2, <2>3, Zenon DEF Settled, Plan!Final, Plan!Closes
      <3>2. Pending
        BY <3>1 DEF PlanInv
      <3>3. \A o \in Requests \ {r} : pReq[o].op \notin {"rate", "edit", "move"}
        BY <1>2, <2>3, Zenon DEF Plan!Closes
      <3> QED BY <1>1, <2>1, <3>2, <3>3, PlanIdle DEF Settled, Pending, Calm
    <2> QED BY <1>1, <2>2, <2>3 DEF PlanInv
  <1>3. CASE ~(Plan!Final' /\ ~Plan!Final)
    <2>1. UNCHANGED <<pAgreed, pLate>>
      BY <1>3
    <2>2. Pending => Pending'
      BY <1>1, <1>3, PlanIdle DEF Pending
    <2>3. Settled => Settled'
      BY <1>1, <2>1, PlanIdle DEF Settled, Calm
    <2> QED BY <1>1, <2>1, <2>2, <2>3 DEF PlanInv
  <1> QED BY <1>2, <1>3

\* Every step of the payment schedule keeps the invariant.
LEMMA PlanStep ==
    ASSUME PlanInv, [Plan!Next]_pVars
    PROVE  PlanInv'
  <1>1. ASSUME NEW r \in Requests, Plan!RateRead(r) PROVE PlanInv'
    <2>1. PICK rate \in Rates :
              pReq' = [pReq EXCEPT ![r] = [Plan!Idle EXCEPT !.op = "rate", !.pc = "write",
                                                            !.terms = [rate |-> rate, draw |-> 0]]]
      BY <1>1, Zenon DEF Plan!RateRead, Plan!Begin
    <2> DEFINE q == [Plan!Idle EXCEPT !.op = "rate", !.pc = "write", !.terms = [rate |-> rate, draw |-> 0]]
    <2>2. q \in PlanSlots /\ q.op = "rate" /\ PlanFits(q)
      BY DEF Plan!Idle, PlanSlots, Plan!Terms, Plan!Ops, Plan!Statuses, PlanFits
    <2>3. pStatus = "MODERATION" /\ UNCHANGED <<pStatus, pFrozen, pTerms, pSchedule, pAgreed, pLate, pAnswered>>
      BY <1>1 DEF Plan!RateRead, Plan!Ghosts
    <2>4. ~Settled
      BY <2>3 DEF Settled
    <2> QED BY <2>1, <2>2, <2>3, <2>4, PlanQuiet
  <1>2. ASSUME NEW r \in Requests, Plan!EditRead(r) PROVE PlanInv'
    <2> DEFINE q == [Plan!Idle EXCEPT !.op = "edit", !.pc = "rate"]
    <2>1. q \in PlanSlots /\ q.op = "edit" /\ PlanFits(q)
      BY DEF Plan!Idle, PlanSlots, Plan!Terms, Plan!Ops, Plan!Statuses, PlanFits
    <2>2. /\ pStatus = "DRAFT" /\ pReq' = [pReq EXCEPT ![r] = q]
          /\ UNCHANGED <<pStatus, pFrozen, pTerms, pSchedule, pAgreed, pLate, pAnswered>>
      BY <1>2 DEF Plan!EditRead, Plan!Begin, Plan!Ghosts
    <2>3. ~Settled
      BY <2>2 DEF Settled
    <2> QED BY <2>1, <2>2, <2>3, PlanQuiet
  <1>3. ASSUME NEW r \in Requests, Plan!EditRate(r) PROVE PlanInv'
    <2>1. PICK draw \in Draws \cup {0} :
              pReq' = [pReq EXCEPT ![r].pc = "write", ![r].terms = [rate |-> pTerms.rate, draw |-> draw]]
      BY <1>3 DEF Plan!EditRate
    <2> DEFINE s == [rate |-> pTerms.rate, draw |-> draw]
               q == [pReq[r] EXCEPT !.pc = "write", !.terms = s]
    <2>2. /\ pReq[r].op = "edit" /\ UNCHANGED <<pStatus, pFrozen, pTerms, pSchedule, pAgreed, pLate, pAnswered>>
      BY <1>3 DEF Plan!EditRate, Plan!At, Plan!Ghosts
    <2>3. s \in Plan!Terms
      BY DEF PlanInv, PlanTypes, Plan!Terms
    <2>4. pReq[r] \in PlanSlots
      BY DEF PlanInv, PlanTypes
    <2>5. q \in PlanSlots /\ q.op = "edit" /\ q.terms = s
      BY <2>2, <2>3, <2>4 DEF PlanSlots
    <2>6. pReq' = [pReq EXCEPT ![r] = q]
      BY <2>1 DEF PlanInv, PlanTypes
    <2>7. ~Settled
      BY <2>2 DEF Settled, Calm
    <2>8. PlanFits(q)
      BY <2>3, <2>5 DEF PlanFits
    <2> QED BY <2>2, <2>5, <2>6, <2>7, <2>8, PlanQuiet
  <1>4. ASSUME NEW r \in Requests, Plan!MoveRead(r) PROVE PlanInv'
    <2>1. PICK e \in Plan!Edges :
              /\ e[1] = pStatus
              /\ pReq' = [pReq EXCEPT ![r] = [Plan!Idle EXCEPT !.op = "move",
                              !.pc = IF pStatus = "DRAFT" THEN "gate" ELSE "write", !.to = e[2]]]
      BY <1>4, Zenon DEF Plan!MoveRead, Plan!Begin
    <2> DEFINE q == [Plan!Idle EXCEPT !.op = "move", !.pc = IF pStatus = "DRAFT" THEN "gate" ELSE "write", !.to = e[2]]
    <2>2. e[1] # "FINALIZED" /\ e[2] \in Plan!Statuses
      BY DEF Plan!Edges, Plan!Statuses
    <2>3. q \in PlanSlots /\ q.op = "move" /\ PlanFits(q)
      BY <2>2 DEF Plan!Idle, PlanSlots, Plan!Ops, PlanFits
    <2>4. UNCHANGED <<pStatus, pFrozen, pTerms, pSchedule, pAgreed, pLate, pAnswered>>
      BY <1>4 DEF Plan!MoveRead, Plan!Ghosts
    <2>5. ~Settled
      BY <2>1, <2>2 DEF Settled
    <2> QED BY <2>1, <2>3, <2>4, <2>5, PlanQuiet
  <1>5. ASSUME NEW r \in Requests, Plan!Gate(r) PROVE PlanInv'
    <2> DEFINE q == [pReq[r] EXCEPT !.pc = "write"]
    <2>1. /\ pReq[r].op = "move" /\ pReq' = [pReq EXCEPT ![r].pc = "write"]
          /\ UNCHANGED <<pStatus, pFrozen, pTerms, pSchedule, pAgreed, pLate, pAnswered>>
      BY <1>5 DEF Plan!Gate, Plan!At, Plan!Goto, Plan!Ghosts
    <2>2. pReq[r] \in PlanSlots
      BY DEF PlanInv, PlanTypes
    <2>3. q \in PlanSlots /\ q.op = "move" /\ PlanFits(q)
      BY <2>1, <2>2 DEF PlanSlots, PlanFits
    <2>4. pReq' = [pReq EXCEPT ![r] = q]
      BY <2>1 DEF PlanInv, PlanTypes
    <2>5. ~Settled
      BY <2>1 DEF Settled, Calm
    <2> QED BY <2>1, <2>3, <2>4, <2>5, PlanQuiet
  <1>6. ASSUME NEW r \in Requests, Plan!SignRead(r) PROVE PlanInv'
    <2> DEFINE q == [Plan!Idle EXCEPT !.op = "sign", !.pc = "write"]
    <2>1. q \in PlanSlots /\ q.op = "sign" /\ PlanFits(q)
      BY DEF Plan!Idle, PlanSlots, Plan!Terms, Plan!Ops, Plan!Statuses, PlanFits
    <2>2. /\ pReq' = [pReq EXCEPT ![r] = q]
          /\ UNCHANGED <<pStatus, pFrozen, pTerms, pSchedule, pAgreed, pLate, pAnswered>>
      BY <1>6 DEF Plan!SignRead, Plan!Begin, Plan!Ghosts
    <2> QED BY <2>1, <2>2, PlanQuiet DEF Calm
  <1>7. ASSUME NEW r \in Requests, Plan!Cut(r) PROVE PlanInv'
    <2>1. /\ pReq' = [pReq EXCEPT ![r] = Plan!Idle]
          /\ UNCHANGED <<pStatus, pFrozen, pTerms, pSchedule, pAgreed, pLate, pAnswered>>
      BY <1>7 DEF Plan!Cut, Plan!Finish, Plan!Ghosts
    <2> QED BY <2>1, PlanIdle, PlanQuiet DEF Calm, PlanFits
  <1>8. ASSUME NEW r \in Requests, Plan!MoveWrite(r) PROVE PlanInv'
    <2>1. /\ pReq[r].op = "move" /\ pStatus' = pReq[r].to
          /\ pReq' = [pReq EXCEPT ![r] = Plan!Idle] /\ UNCHANGED <<pFrozen, pTerms, pSchedule, pAnswered>>
          /\ IF pReq[r].to = "FINALIZED" /\ ~Plan!Final THEN Plan!Closes(r) ELSE UNCHANGED <<pAgreed, pLate>>
      BY <1>8 DEF Plan!MoveWrite, Plan!At, Plan!Finish
    <2>2. Plan!Final' /\ ~Plan!Final <=> pReq[r].to = "FINALIZED" /\ ~Plan!Final
      BY <2>1, Zenon DEF Plan!Final
    <2> QED BY <2>1, <2>2, PlanCloses DEF Calm
  <1>9. ASSUME NEW r \in Requests, Plan!SignWrite(r) PROVE PlanInv'
    <2>1. /\ pStatus' = "FINALIZED" /\ pReq' = [pReq EXCEPT ![r] = Plan!Idle]
          /\ UNCHANGED <<pTerms, pSchedule, pAnswered>>
          /\ IF ~Plan!Final THEN Plan!Closes(r) ELSE UNCHANGED <<pAgreed, pLate>>
      BY <1>9 DEF Plan!SignWrite, Plan!At, Plan!Finish
    <2>2. Plan!Final'
      BY <2>1 DEF Plan!Final
    <2> QED BY <2>1, <2>2, PlanCloses
  <1>10. CASE UNCHANGED pVars
    BY <1>10 DEF pVars, PlanInv, PlanTypes, PlanFits, Pending, Settled, Calm, Plan!Final
  <1> QED BY <1>1, <1>2, <1>3, <1>4, <1>5, <1>6, <1>7, <1>8, <1>9, <1>10,
             PlanRead, PlanStore, PlanRate, PlanEdit DEF Plan!Next

\* What PlanInv leaves out of PaymentSchedule!TypeOK: a schedule that is
\* stored, or about to be, was computed.
PlanRows ==
    /\ pStatus \in Plan!Statuses /\ pFrozen \in BOOLEAN /\ pLate \in BOOLEAN
    /\ pSchedule # Plan!None => Plan!Computable(pSchedule)
    /\ \A r \in Requests : pReq[r].op = "store" => Plan!Computable(pReq[r].terms)
    /\ pAgreed \in Plan!Terms \cup {Plan!None} /\ pAnswered \subseteq Plan!Terms

\* A turn that stores nothing and changes no schedule.
LEMMA PlanRowsKept ==
    ASSUME PlanInv, PlanRows, UNCHANGED <<pFrozen, pAnswered>>,
           pSchedule' \in {pSchedule, Plan!None}, pStatus' \in Plan!Statuses, pLate' \in BOOLEAN,
           pAgreed' \in {pAgreed, pTerms},
           \A o \in Requests : pReq'[o].op = "store" => pReq[o].op = "store" /\ pReq'[o].terms = pReq[o].terms
    PROVE  PlanRows'
  BY DEF PlanInv, PlanTypes, PlanRows

\* Every step of the payment schedule keeps the types.
LEMMA PlanRowsStep ==
    ASSUME PlanInv, PlanRows, [Plan!Next]_pVars
    PROVE  PlanRows'
  <1>1. ASSUME NEW r \in Requests, NEW q, pReq' = [pReq EXCEPT ![r] = q], q.op = "store" => q.terms = pReq[r].terms /\ pReq[r].op = "store"
        PROVE  \A o \in Requests : pReq'[o].op = "store" => pReq[o].op = "store" /\ pReq'[o].terms = pReq[o].terms
    BY <1>1 DEF PlanInv, PlanTypes
  <1>2. pStatus \in Plan!Statuses /\ pLate \in BOOLEAN /\ \A r \in Requests : pReq[r] \in PlanSlots
    BY DEF PlanRows, PlanInv, PlanTypes
  <1>3. ASSUME NEW r \in Requests, Plan!Read(r) PROVE PlanRows'
    <2>1. UNCHANGED <<pStatus, pFrozen, pTerms, pSchedule, pAgreed, pLate>>
      BY <1>3 DEF Plan!Read
    <2>2. pAnswered' \in {pAnswered, pAnswered \cup {Plan!scheduleForCase}}
      BY <1>3 DEF Plan!Read, Plan!Answers
    <2>3. Plan!scheduleForCase \in Plan!Terms
      BY DEF Plan!scheduleForCase, PlanInv, PlanTypes
    <2>4. pAnswered' \subseteq Plan!Terms
      BY <2>2, <2>3 DEF PlanRows
    <2> DEFINE q == [Plan!Idle EXCEPT !.op = "store", !.pc = "write", !.terms = pTerms]
    <2>5. pReq' = pReq \/ (Plan!Computable(pTerms) /\ pReq' = [pReq EXCEPT ![r] = q])
      BY <1>3 DEF Plan!Read, Plan!Stores, Plan!Begin
    <2>6. q.terms = pTerms
      BY DEF Plan!Idle
    <2> HIDE DEF q
    <2>7. \A o \in Requests : pReq'[o].op = "store" => Plan!Computable(pReq'[o].terms)
      BY <2>5, <2>6 DEF PlanRows, PlanInv, PlanTypes, Plan!Computable
    <2> QED BY <2>1, <2>4, <2>7 DEF PlanRows, Plan!Computable
  <1>4. ASSUME NEW r \in Requests, Plan!Store(r) PROVE PlanRows'
    <2>1. /\ pReq[r].op = "store" /\ pReq' = [pReq EXCEPT ![r] = Plan!Idle]
          /\ pSchedule' \in {pSchedule, pReq[r].terms}
          /\ UNCHANGED <<pStatus, pFrozen, pTerms, pAgreed, pLate, pAnswered>>
      BY <1>4 DEF Plan!Store, Plan!At, Plan!Finish, Plan!Ghosts
    <2>2. \A o \in Requests : pReq'[o].op = "store" => pReq[o].op = "store" /\ pReq'[o].terms = pReq[o].terms
      BY <2>1, <1>1, PlanIdle
    <2> QED BY <2>1, <2>2 DEF PlanRows
  <1>5. ASSUME NEW r \in Requests, Plan!RateRead(r) PROVE PlanRows'
    <2>1. PICK rate \in Rates :
              pReq' = [pReq EXCEPT ![r] = [Plan!Idle EXCEPT !.op = "rate", !.pc = "write",
                                                            !.terms = [rate |-> rate, draw |-> 0]]]
      BY <1>5, Zenon DEF Plan!RateRead, Plan!Begin
    <2>2. [Plan!Idle EXCEPT !.op = "rate", !.pc = "write", !.terms = [rate |-> rate, draw |-> 0]].op = "rate"
      BY DEF Plan!Idle
    <2>3. UNCHANGED <<pStatus, pFrozen, pSchedule, pAgreed, pLate, pAnswered>>
      BY <1>5 DEF Plan!RateRead, Plan!Ghosts
    <2> QED BY <1>1, <1>2, <2>1, <2>2, <2>3, PlanRowsKept
  <1>6. ASSUME NEW r \in Requests, Plan!RateWrite(r) \/ Plan!Cut(r) PROVE PlanRows'
    <2>1. /\ pReq' = [pReq EXCEPT ![r] = Plan!Idle]
          /\ UNCHANGED <<pStatus, pFrozen, pSchedule, pAgreed, pLate, pAnswered>>
      BY <1>6 DEF Plan!RateWrite, Plan!Cut, Plan!Finish, Plan!Ghosts
    <2> QED BY <1>1, <1>2, <2>1, PlanIdle, PlanRowsKept
  <1>7. ASSUME NEW r \in Requests, Plan!EditRead(r) PROVE PlanRows'
    <2>1. /\ pReq' = [pReq EXCEPT ![r] = [Plan!Idle EXCEPT !.op = "edit", !.pc = "rate"]]
          /\ UNCHANGED <<pStatus, pFrozen, pSchedule, pAgreed, pLate, pAnswered>>
      BY <1>7 DEF Plan!EditRead, Plan!Begin, Plan!Ghosts
    <2>2. [Plan!Idle EXCEPT !.op = "edit", !.pc = "rate"].op = "edit"
      BY DEF Plan!Idle
    <2> QED BY <1>1, <1>2, <2>1, <2>2, PlanRowsKept
  <1>8. ASSUME NEW r \in Requests, Plan!EditRate(r) PROVE PlanRows'
    <2>1. PICK draw \in Draws \cup {0} :
              pReq' = [pReq EXCEPT ![r].pc = "write", ![r].terms = [rate |-> pTerms.rate, draw |-> draw]]
      BY <1>8 DEF Plan!EditRate
    <2> DEFINE q == [pReq[r] EXCEPT !.pc = "write", !.terms = [rate |-> pTerms.rate, draw |-> draw]]
    <2>2. pReq' = [pReq EXCEPT ![r] = q]
      BY <2>1 DEF PlanInv, PlanTypes
    <2>3. pReq[r].op = "edit" /\ UNCHANGED <<pStatus, pFrozen, pSchedule, pAgreed, pLate, pAnswered>>
      BY <1>8 DEF Plan!EditRate, Plan!At, Plan!Ghosts
    <2>4. q.op = "edit"
      BY <1>2, <2>3 DEF PlanSlots
    <2> QED BY <1>1, <1>2, <2>2, <2>3, <2>4, PlanRowsKept
  <1>9. ASSUME NEW r \in Requests, Plan!EditWrite(r) PROVE PlanRows'
    <2>1. /\ pReq' = [o \in Requests |-> IF o = r THEN Plan!Idle
                                        ELSE IF pReq[o].op = "store" THEN [pReq[o] EXCEPT !.current = FALSE] ELSE pReq[o]]
          /\ pSchedule' = Plan!None /\ UNCHANGED <<pStatus, pFrozen, pAgreed, pLate, pAnswered>>
      BY <1>9 DEF Plan!EditWrite, Plan!Ghosts
    <2>2. \A o \in Requests : [pReq[o] EXCEPT !.current = FALSE].terms = pReq[o].terms
      BY <1>2 DEF PlanSlots
    <2>3. \A o \in Requests : pReq'[o].op = "store" => pReq[o].op = "store" /\ pReq'[o].terms = pReq[o].terms
      BY <2>1, <2>2, PlanIdle
    <2> QED BY <1>2, <2>1, <2>3, PlanRowsKept
  <1>10. ASSUME NEW r \in Requests, Plan!MoveRead(r) PROVE PlanRows'
    <2>1. PICK e \in Plan!Edges :
              pReq' = [pReq EXCEPT ![r] = [Plan!Idle EXCEPT !.op = "move",
                              !.pc = IF pStatus = "DRAFT" THEN "gate" ELSE "write", !.to = e[2]]]
      BY <1>10, Zenon DEF Plan!MoveRead, Plan!Begin
    <2>2. [Plan!Idle EXCEPT !.op = "move", !.pc = IF pStatus = "DRAFT" THEN "gate" ELSE "write", !.to = e[2]].op = "move"
      BY DEF Plan!Idle
    <2>3. UNCHANGED <<pStatus, pFrozen, pSchedule, pAgreed, pLate, pAnswered>>
      BY <1>10 DEF Plan!MoveRead, Plan!Ghosts
    <2> QED BY <1>1, <1>2, <2>1, <2>2, <2>3, PlanRowsKept
  <1>11. ASSUME NEW r \in Requests, Plan!Gate(r) PROVE PlanRows'
    <2> DEFINE q == [pReq[r] EXCEPT !.pc = "write"]
    <2>1. /\ pReq[r].op = "move" /\ pReq' = [pReq EXCEPT ![r] = q]
          /\ UNCHANGED <<pStatus, pFrozen, pSchedule, pAgreed, pLate, pAnswered>>
      BY <1>11 DEF Plan!Gate, Plan!At, Plan!Goto, Plan!Ghosts, PlanInv, PlanTypes
    <2>2. q.op = "move"
      BY <1>2, <2>1 DEF PlanSlots
    <2> QED BY <1>1, <1>2, <2>1, <2>2, PlanRowsKept
  <1>12. ASSUME NEW r \in Requests, Plan!MoveWrite(r) \/ Plan!SignWrite(r) PROVE PlanRows'
    <2>1. /\ pReq' = [pReq EXCEPT ![r] = Plan!Idle] /\ UNCHANGED <<pTerms, pSchedule, pAnswered>>
          /\ pAgreed' \in {pAgreed, pTerms}
      BY <1>12 DEF Plan!MoveWrite, Plan!SignWrite, Plan!Finish, Plan!Closes
    <2>2. pLate' \in BOOLEAN
      BY <1>2, <1>12, Zenon DEF Plan!MoveWrite, Plan!SignWrite, Plan!Closes
    <2>3. pStatus' \in Plan!Statuses
      BY <1>2, <1>12 DEF Plan!MoveWrite, Plan!SignWrite, PlanSlots, Plan!Statuses
    <2>4. pFrozen' \in BOOLEAN
      BY <1>12 DEF Plan!MoveWrite, Plan!SignWrite, PlanRows
    <2>5. \A o \in Requests : pReq'[o].op = "store" => pReq[o].op = "store" /\ pReq'[o].terms = pReq[o].terms
      BY <2>1, <1>1, PlanIdle
    <2> QED BY <2>1, <2>2, <2>3, <2>4, <2>5 DEF PlanRows, PlanInv, PlanTypes
  <1>13. ASSUME NEW r \in Requests, Plan!SignRead(r) PROVE PlanRows'
    <2>1. /\ pReq' = [pReq EXCEPT ![r] = [Plan!Idle EXCEPT !.op = "sign", !.pc = "write"]]
          /\ UNCHANGED <<pStatus, pFrozen, pSchedule, pAgreed, pLate, pAnswered>>
      BY <1>13 DEF Plan!SignRead, Plan!Begin, Plan!Ghosts
    <2>2. [Plan!Idle EXCEPT !.op = "sign", !.pc = "write"].op = "sign"
      BY DEF Plan!Idle
    <2> QED BY <1>1, <1>2, <2>1, <2>2, PlanRowsKept
  <1>14. CASE UNCHANGED pVars
    BY <1>14 DEF pVars, PlanRows
  <1> QED BY <1>3, <1>4, <1>5, <1>6, <1>7, <1>8, <1>9, <1>10, <1>11, <1>12, <1>13, <1>14 DEF Plan!Next

\* The invariant holds while the schedule's handlers run, and with it the types.
LEMMA PlanAlways == OfficeSpec => [](part = "plan" => PlanInv /\ PlanRows)
  <1> DEFINE Inv == part = "plan" => PlanInv /\ PlanRows
  <1>1. Plan!Init => PlanRows
    BY PlanIdle DEF Plan!Init, PlanRows, Plan!Statuses
  <1>2. OfficeInit => Inv
    BY <1>1, PlanInit DEF OfficeInit
  <1>3. Inv /\ [OfficeNext]_officeVars => Inv'
    BY PlanSteps, PlanStep, PlanRowsStep
  <1> QED BY <1>2, <1>3, PTL DEF OfficeSpec

(* All readers of a final case are answered one schedule, that of the      *)
(* terms it became final with, and the stored one is the same, unless      *)
(* somebody who may change the terms was in flight when it became final    *)
(* (ScheduleService.forCase).                                              *)
THEOREM OneScheduleAnswered == OfficeSpec => []RowsAsAgreed
  <1>1. (part = "plan" => PlanInv /\ PlanRows) => RowsAsAgreed
    BY DEF RowsAsAgreed, Plan!RowsAsAgreed, PlanInv, Settled
  <1> QED BY <1>1, PlanAlways, PTL

-----------------------------------------------------------------------------
(* What the invariants say of the types.                                   *)
\* Staff, shifts and payment schedule have the types of their modules.
LEMMA OfficeTyped ==
    /\ SeatInv => People!TypeOK
    /\ ShiftInv /\ ShiftRows => Work!TypeOK
    /\ PlanInv /\ PlanRows => Plan!TypeOK
  <1>1. SeatInv => People!TypeOK
    BY DEF SeatInv
  <1>2. ShiftInv /\ ShiftRows => Work!TypeOK
    BY DEF ShiftInv, ShiftRows, Work!TypeOK, WorkSlots
  <1>3. PlanInv /\ PlanRows => Plan!TypeOK
    BY DEF PlanInv, PlanTypes, PlanRows, Plan!TypeOK, PlanSlots
  <1> QED BY <1>1, <1>2, <1>3
=============================================================================
