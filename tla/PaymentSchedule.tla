--------------------------- MODULE PaymentSchedule ---------------------------
(***************************************************************************)
(* The payment schedule of one credit case: ScheduleService.forCase        *)
(* computes it from the tranche, and stores it with the first reading of a *)
(* case that is final, after which the stored rows win over the tranche    *)
(* (scheduleForCase).  Beside it run what changes the tranche or the       *)
(* status: applyUpdate, which recreates the credit line and so drops the   *)
(* schedule, setRate, transition, and the director's commit.               *)
(*                                                                         *)
(* An action is one awaited statement or one $transaction.  A schedule is  *)
(* named by what it is computed from, the rate and the draw, which stands  *)
(* for principal, term, method and dates; no schedule can be computed from *)
(* draw 0.  Its rows, and the cents a DECIMAL column rounds, are left out. *)
(***************************************************************************)
EXTENDS Naturals

CONSTANTS
    Rates,    \* annual rates
    Draws,    \* tranches a schedule can be computed from
    Requests  \* request slots, the bound on concurrency

VARIABLES
    status,    \* CreditCase.status
    frozen,    \* docsFrozenAt is set
    terms,     \* the line's rate and the draw of its one tranche
    schedule,  \* the terms of the stored PaymentSchedule
    req,       \* what each request in flight has read
    agreed,    \* ghost: the terms when the case became final
    late,      \* ghost: a request that writes the terms or the status was then in flight
    answered   \* ghost: what the readers of the final case have been answered

vars == <<status, frozen, terms, schedule, req, agreed, late, answered>>

-----------------------------------------------------------------------------
Statuses == {"DRAFT", "MODERATION", "DIRECTOR_REVIEW", "FINALIZED", "CANCELLED"}
Edges == { <<"DRAFT", "MODERATION">>, <<"MODERATION", "DIRECTOR_REVIEW">>,
           <<"MODERATION", "DRAFT">>, <<"MODERATION", "CANCELLED">>,
           <<"DIRECTOR_REVIEW", "FINALIZED">>, <<"DIRECTOR_REVIEW", "MODERATION">>,
           <<"DIRECTOR_REVIEW", "CANCELLED">>, <<"DIRECTOR_REVIEW", "DRAFT">> }

Terms == [rate : Rates, draw : Draws \cup {0}]
None  == [rate |-> 0, draw |-> 0]
Ops   == {"store", "rate", "edit", "move", "sign"}
Idle  == [op |-> "none", pc |-> "idle", terms |-> None, to |-> "DRAFT", current |-> TRUE]

Init ==
    /\ status = "DRAFT" /\ frozen = FALSE
    /\ terms \in Terms /\ schedule = None
    /\ req = [r \in Requests |-> Idle]
    /\ agreed = None /\ late = FALSE /\ answered = {}

At(r, op, pc) == req[r].op = op /\ req[r].pc = pc
Begin(r, q)   == req[r].op = "none" /\ req' = [req EXCEPT ![r] = q]
Finish(r)     == req' = [req EXCEPT ![r] = Idle]
Goto(r, pc)   == req' = [req EXCEPT ![r].pc = pc]
Final         == status = "FINALIZED" \/ frozen
Ghosts        == <<agreed, late, answered>>

-----------------------------------------------------------------------------
(* GET cases/:id/schedule.                                                 *)
Computable(t) == t.draw # 0

\* scheduleForCase: the stored schedule, or one computed from the tranche.
scheduleForCase == IF schedule # None THEN schedule ELSE terms

\* A reader of a case without a schedule is answered no rows.
Answers == answered' = IF Final /\ Computable(scheduleForCase) THEN answered \cup {scheduleForCase} ELSE answered

Stores(r) == Begin(r, [Idle EXCEPT !.op = "store", !.pc = "write", !.terms = terms])

\* Slip: every computed schedule is stored, whatever the status.
ReadStoresDraft(r) ==
    /\ Answers
    /\ IF schedule = None /\ Computable(terms) THEN Stores(r) ELSE UNCHANGED req
    /\ UNCHANGED <<status, frozen, terms, schedule, agreed, late>>

Read(r) ==
    /\ Answers
    /\ IF schedule = None /\ Computable(terms) /\ Final THEN Stores(r) ELSE UNCHANGED req
    /\ UNCHANGED <<status, frozen, terms, schedule, agreed, late>>

\* The insert fails, and is given up, when another reader was first or the
\* tranche is gone.
Store(r) ==
    /\ At(r, "store", "write")
    /\ schedule' = IF schedule = None /\ req[r].current THEN req[r].terms ELSE schedule
    /\ Finish(r)
    /\ UNCHANGED <<status, frozen, terms, Ghosts>>

-----------------------------------------------------------------------------
(* setRate: the line of the case, whichever it is by then.                 *)
RateRead(r) ==
    /\ status = "MODERATION"
    /\ \E rate \in Rates :
          Begin(r, [Idle EXCEPT !.op = "rate", !.pc = "write", !.terms = [rate |-> rate, draw |-> 0]])
    /\ UNCHANGED <<status, frozen, terms, schedule, Ghosts>>

RateWrite(r) ==
    /\ At(r, "rate", "write")
    /\ terms' = [terms EXCEPT !.rate = req[r].terms.rate]
    /\ Finish(r)
    /\ UNCHANGED <<status, frozen, schedule, Ghosts>>

(* applyUpdate with a credit line: the status, the rate to keep, and the   *)
(* transaction, in which the old line goes with its tranche and schedule.  *)
EditRead(r) ==
    /\ status = "DRAFT"
    /\ Begin(r, [Idle EXCEPT !.op = "edit", !.pc = "rate"])
    /\ UNCHANGED <<status, frozen, terms, schedule, Ghosts>>

EditRate(r) ==
    /\ At(r, "edit", "rate")
    /\ \E draw \in Draws \cup {0} :
          req' = [req EXCEPT ![r].pc = "write", ![r].terms = [rate |-> terms.rate, draw |-> draw]]
    /\ UNCHANGED <<status, frozen, terms, schedule, Ghosts>>

EditWrite(r) ==
    /\ At(r, "edit", "write")
    /\ terms' = req[r].terms
    /\ schedule' = None
    /\ req' = [o \in Requests |-> IF o = r THEN Idle
                                  ELSE IF req[o].op = "store" THEN [req[o] EXCEPT !.current = FALSE] ELSE req[o]]
    /\ UNCHANGED <<status, frozen, Ghosts>>

-----------------------------------------------------------------------------
\* The case becomes final with the terms it has.
Closes(r) ==
    /\ agreed' = terms
    /\ late'   = (late \/ \E o \in Requests \ {r} : req[o].op \in {"rate", "edit", "move"})

(* transition; a submit passes the gate with a filled tranche.             *)
MoveRead(r) ==
    /\ \E e \in Edges :
          /\ e[1] = status
          /\ Begin(r, [Idle EXCEPT !.op = "move", !.pc = IF status = "DRAFT" THEN "gate" ELSE "write", !.to = e[2]])
    /\ UNCHANGED <<status, frozen, terms, schedule, Ghosts>>

Gate(r) ==
    /\ At(r, "move", "gate")
    /\ Computable(terms)
    /\ Goto(r, "write")
    /\ UNCHANGED <<status, frozen, terms, schedule, Ghosts>>

MoveWrite(r) ==
    /\ At(r, "move", "write")
    /\ status' = req[r].to
    /\ IF req[r].to = "FINALIZED" /\ ~Final THEN Closes(r) ELSE UNCHANGED <<agreed, late>>
    /\ Finish(r)
    /\ UNCHANGED <<frozen, terms, schedule, answered>>

(* commit: the status is read once, and one signature can be filed.        *)
SignRead(r) ==
    /\ status = "DIRECTOR_REVIEW"
    /\ Begin(r, [Idle EXCEPT !.op = "sign", !.pc = "write"])
    /\ UNCHANGED <<status, frozen, terms, schedule, Ghosts>>

SignWrite(r) ==
    /\ At(r, "sign", "write")
    /\ ~frozen
    /\ status' = "FINALIZED" /\ frozen' = TRUE
    /\ IF ~Final THEN Closes(r) ELSE UNCHANGED <<agreed, late>>
    /\ Finish(r)
    /\ UNCHANGED <<terms, schedule, answered>>

\* A refusal, a crash or a lost connection.
Cut(r) ==
    /\ req[r].op # "none"
    /\ Finish(r)
    /\ UNCHANGED <<status, frozen, terms, schedule, Ghosts>>

Next == \E r \in Requests :
    \/ Read(r) \/ Store(r) \/ RateRead(r) \/ RateWrite(r)
    \/ EditRead(r) \/ EditRate(r) \/ EditWrite(r)
    \/ MoveRead(r) \/ Gate(r) \/ MoveWrite(r) \/ SignRead(r) \/ SignWrite(r)
    \/ Cut(r)

Spec == Init /\ [][Next]_vars

-----------------------------------------------------------------------------
(* State and slots stay in their domains.                                  *)
TypeOK ==
    /\ status \in Statuses /\ {frozen, late} \subseteq BOOLEAN
    /\ terms \in Terms
    /\ schedule \in Terms \cup {None} /\ (schedule # None => Computable(schedule))
    /\ \A r \in Requests : req[r].op \in Ops \cup {"none"} /\ req[r].to \in Statuses
    /\ agreed \in Terms \cup {None} /\ answered \subseteq Terms

(* "persisted ... so it is a stable list reusable everywhere" (schedule.   *)
(* module.ts): all readers of a final case are answered one schedule, that *)
(* of the terms it became final with, stored or not, whoever of them was   *)
(* first to store it; unless a rate change, an edit or a transition was in *)
(* flight when it became final.                                            *)
RowsAsAgreed ==
    agreed # None /\ ~late => answered \subseteq {agreed} /\ schedule \in {None, agreed}
=============================================================================
