------------------------------- MODULE Shifts -------------------------------
(***************************************************************************)
(* Work shifts of the collectors: WorkController's start, end and ping.    *)
(* Each looks for the caller's open WorkSession and then writes; an action *)
(* is one of the two statements.  The account behind the token is read     *)
(* once per request (JwtStrategy), so it may be blocked in between; who    *)
(* blocks and unblocks it is in Staff.                                     *)
(***************************************************************************)
EXTENDS Naturals, FiniteSets

CONSTANTS
    Collectors,  \* accounts with the COLLECTOR role
    NoOne,       \* the null reference
    Sessions,    \* identities a WorkSession row may take
    Requests     \* request slots, the bound on concurrency

VARIABLES
    admitted,  \* the accounts that are not blocked
    session,   \* the WorkSession rows: whose, and whether still open
    req,       \* what each request in flight has read
    pinged,    \* ghost: whose ended session has a location recorded on it
    crossed    \* ghost: whose requests overlapped

vars == <<admitted, session, req, pinged, crossed>>

-----------------------------------------------------------------------------
Closed == [of |-> NoOne, open |-> FALSE]
Idle   == [pc |-> "idle", actor |-> NoOne, session |-> NoOne]

Init ==
    /\ admitted = Collectors
    /\ session  = [s \in Sessions |-> Closed]
    /\ req      = [r \in Requests |-> Idle]
    /\ pinged   = {}
    /\ crossed  = {}

InFlight  == {r \in Requests : req[r].pc # "idle"}
At(r, pc) == req[r].pc = pc
Finish(r) == req' = [req EXCEPT ![r] = Idle]

Begin(r, q) ==
    /\ At(r, "idle")
    /\ req' = [req EXCEPT ![r] = q]
    /\ crossed' = crossed \cup {a \in {q.actor} : \E o \in InFlight : req[o].actor = a}

\* PATCH collectors/:id blocks an account or lets it in again.
Block ==
    /\ \E a \in Collectors : admitted' = IF a \in admitted THEN admitted \ {a} ELSE admitted \cup {a}
    /\ UNCHANGED <<session, req, pinged, crossed>>

OpenOf(a) == {s \in Sessions : session[s] = [of |-> a, open |-> TRUE]}

\* Slip: start does not look for an open shift.
StartReadBlind(r) ==
    /\ \E a \in Collectors :
          /\ a \in admitted
          /\ Begin(r, [Idle EXCEPT !.pc = "start", !.actor = a])
    /\ UNCHANGED <<admitted, session, pinged>>

\* POST work/start: an open shift is returned, which changes nothing.
StartRead(r) ==
    /\ \E a \in Collectors :
          /\ a \in admitted
          /\ OpenOf(a) = {}
          /\ Begin(r, [Idle EXCEPT !.pc = "start", !.actor = a])
    /\ UNCHANGED <<admitted, session, pinged>>

StartWrite(r) ==
    /\ At(r, "start")
    /\ \E s \in Sessions :
          /\ ~session[s].open
          /\ \A o \in InFlight : req[o].session # s
          /\ session' = [session EXCEPT ![s] = [of |-> req[r].actor, open |-> TRUE]]
    /\ Finish(r)
    /\ UNCHANGED <<admitted, pinged, crossed>>

\* POST work/end and work/ping find an open shift of the caller's.
ShiftRead(r, pc) ==
    /\ \E a \in Collectors :
          /\ a \in admitted
          /\ \E s \in OpenOf(a) : Begin(r, [Idle EXCEPT !.pc = pc, !.actor = a, !.session = s])
    /\ UNCHANGED <<admitted, session, pinged>>

EndRead(r)  == ShiftRead(r, "end")

PingRead(r) == ShiftRead(r, "ping")

EndWrite(r) ==
    /\ At(r, "end")
    /\ session' = [session EXCEPT ![req[r].session].open = FALSE]
    /\ Finish(r)
    /\ UNCHANGED <<admitted, pinged, crossed>>

PingWrite(r) ==
    /\ At(r, "ping")
    /\ pinged' = IF session[req[r].session].open THEN pinged ELSE pinged \cup {req[r].actor}
    /\ Finish(r)
    /\ UNCHANGED <<admitted, session, crossed>>

\* A crash or a lost connection.
Cut(r) ==
    /\ r \in InFlight
    /\ Finish(r)
    /\ UNCHANGED <<admitted, session, pinged, crossed>>

Next ==
    \/ Block
    \/ \E r \in Requests :
          \/ StartRead(r) \/ StartWrite(r) \/ EndRead(r) \/ EndWrite(r) \/ PingRead(r) \/ PingWrite(r)
          \/ Cut(r)

Spec == Init /\ [][Next]_vars

-----------------------------------------------------------------------------
(* Rows and slots stay in their domains, and an open session is somebody's.*)
TypeOK ==
    /\ admitted \subseteq Collectors
    /\ session \in [Sessions -> [of : Collectors \cup {NoOne}, open : BOOLEAN]]
    /\ \A s \in Sessions : session[s].open => session[s].of \in Collectors
    /\ req \in [Requests -> [pc : {"idle", "start", "end", "ping"}, actor : Collectors \cup {NoOne},
                             session : Sessions \cup {NoOne}]]
    /\ pinged \subseteq Collectors /\ crossed \subseteq Collectors

(* A collector has at most one open shift and no location on an ended one, *)
(* whatever happens to his account meanwhile, unless two of his requests   *)
(* overlapped (work/start is meant to be idempotent).                      *)
OneShift == \A a \in Collectors \ crossed : a \notin pinged /\ Cardinality(OpenOf(a)) <= 1
=============================================================================
