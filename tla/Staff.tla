------------------------------- MODULE Staff --------------------------------
(***************************************************************************)
(* Accounts: UsersController's create and update with its lockout guard,   *)
(* CollectorsController's create, update and remove, JwtStrategy's check   *)
(* of the account before every request, and the seed of a deployment.      *)
(*                                                                         *)
(* An action is one awaited statement; `req' remembers what a handler has  *)
(* read.  Names, phones, logins and passwords are left out: what a phone   *)
(* login must not collide with is a unique index.                          *)
(***************************************************************************)
EXTENDS Naturals, FiniteSets

CONSTANTS
    Accounts,  \* identities a User row may take
    Founder,   \* the account the seed creates, an admin
    NoOne,     \* the null reference
    Requests   \* request slots, the bound on concurrency

VARIABLES
    user,       \* the User rows
    req,        \* what each request in flight has read
    unseated    \* ghost: two requests that may take an admin away overlapped

vars == <<user, req, unseated>>

-----------------------------------------------------------------------------
Roles   == {"ADMIN", "COLLECTOR", "OPERATOR"}
NoUser  == [role |-> "NONE", active |-> FALSE]
Idle    == [pc |-> "idle", actor |-> NoOne, on |-> NoOne, role |-> "NONE", active |-> "KEEP"]

Init ==
    /\ user       = [a \in Accounts |-> IF a = Founder THEN [role |-> "ADMIN", active |-> TRUE] ELSE NoUser]
    /\ req        = [r \in Requests |-> Idle]
    /\ unseated   = FALSE

Exists(a)    == user[a].role # "NONE"
ActiveAdmins == {a \in Accounts : user[a] = [role |-> "ADMIN", active |-> TRUE]}
InFlight     == {r \in Requests : req[r].pc # "idle"}
At(r, pc)    == req[r].pc = pc
Finish(r)    == req' = [req EXCEPT ![r] = Idle]

\* JwtStrategy.validate, then the role guard of the controller.
Admits(actor, role) == user[actor] = [role |-> role, active |-> TRUE]

\* A body may name a role, the active flag, or both.
Deactivating(q) == q.active = "NO"
Demoting(q)     == q.role \notin {"NONE", "ADMIN"}
Unseating(q)    == Deactivating(q) \/ Demoting(q)

Begin(r, q) ==
    /\ At(r, "idle")
    /\ req' = [req EXCEPT ![r] = q]
    /\ unseated' = (unseated \/ (Unseating(q) /\ \E o \in InFlight : Unseating(req[o])))

-----------------------------------------------------------------------------
\* POST users and POST collectors.
Create ==
    /\ \E actor, a \in Accounts, role \in Roles :
          /\ Admits(actor, "ADMIN")
          /\ ~Exists(a)
          /\ user' = [user EXCEPT ![a] = [role |-> role, active |-> TRUE]]
    /\ UNCHANGED <<req, unseated>>

\* seed.ts, run with every deployment, upserts the founding admin's row.
Seed ==
    /\ user' = [user EXCEPT ![Founder].role = "ADMIN"]
    /\ UNCHANGED <<req, unseated>>

\* The guard of PUT users/:id against a lockout: whether the admins are to be
\* counted.  Slip: the last admin may be demoted.
CountedDeactivation(q) == Deactivating(q) /\ user[q.on].role = "ADMIN"

Counted(q) == Unseating(q) /\ user[q.on].role = "ADMIN"

UpdateRead(r) ==
    /\ \E actor, a \in Accounts, role \in Roles \cup {"NONE"}, active \in {"KEEP", "YES", "NO"} :
          /\ Admits(actor, "ADMIN")
          /\ Exists(a)
          /\ LET q == [Idle EXCEPT !.actor = actor, !.on = a, !.role = role, !.active = active]
             IN  /\ Deactivating(q) => a # actor
                 /\ Begin(r, [q EXCEPT !.pc = IF Counted(q) THEN "count" ELSE "update"])
    /\ UNCHANGED user

UpdateCount(r) ==
    /\ At(r, "count")
    /\ Cardinality(ActiveAdmins) > 1
    /\ req' = [req EXCEPT ![r].pc = "update"]
    /\ UNCHANGED <<user, unseated>>

\* PATCH and DELETE collectors/:id, on collectors alone.
CollectorRead(r) ==
    /\ \E actor, a \in Accounts, active \in {"KEEP", "YES", "NO"} :
          /\ Admits(actor, "ADMIN")
          /\ user[a].role = "COLLECTOR"
          /\ Begin(r, [Idle EXCEPT !.pc = "update", !.actor = actor, !.on = a, !.active = active])
    /\ UNCHANGED user

UpdateWrite(r) ==
    /\ At(r, "update")
    /\ user' = [user EXCEPT ![req[r].on] =
                   [role   |-> IF req[r].role = "NONE" THEN @.role ELSE req[r].role,
                    active |-> IF req[r].active = "KEEP" THEN @.active ELSE req[r].active = "YES"]]
    /\ Finish(r)
    /\ UNCHANGED unseated

-----------------------------------------------------------------------------
\* A crash or a lost connection; what was written stays.
Cut(r) ==
    /\ r \in InFlight
    /\ Finish(r)
    /\ UNCHANGED <<user, unseated>>

Next ==
    \/ Create \/ Seed
    \/ \E r \in Requests :
          \/ UpdateRead(r) \/ UpdateCount(r) \/ CollectorRead(r) \/ UpdateWrite(r)
          \/ Cut(r)

Spec == Init /\ [][Next]_vars

-----------------------------------------------------------------------------
(* Rows and slots stay in their domains.                                   *)
TypeOK ==
    /\ user \in [Accounts -> [role : Roles \cup {"NONE"}, active : BOOLEAN]]
    /\ req \in [Requests -> [pc : {"idle", "count", "update"},
                             actor : Accounts \cup {NoOne}, on : Accounts \cup {NoOne},
                             role : Roles \cup {"NONE"}, active : {"KEEP", "YES", "NO"}]]
    /\ unseated \in BOOLEAN

(* Somebody can always administer the system (the lockout guards of        *)
(* UsersController.update), by whatever chain of promotions, demotions,    *)
(* blocks, collector edits and redeployments, and whatever overlaps, but   *)
(* for two requests in flight together that each take a role or block.     *)
AdminRemains == unseated \/ ActiveAdmins # {}
=============================================================================
