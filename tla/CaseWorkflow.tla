---------------------------- MODULE CaseWorkflow ----------------------------
(***************************************************************************)
(* What the case workflow promises, without requests: every operation is   *)
(* one atomic step on the row.  A case is numbered once, while it is a     *)
(* complete draft; it moves only along the edges of the approval workflow; *)
(* it leaves DRAFT complete and numbered; a closed case never moves again; *)
(* only a draft is edited or archived.  CaseLifecycle implements this as   *)
(* long as the requests on the database do not overlap.                    *)
(***************************************************************************)
EXTENDS Integers

CONSTANTS Cases, NoCase

VARIABLES status, archived, complete, source, contract

vars == <<status, archived, complete, source, contract>>

Edges == { <<"DRAFT", "MODERATION">>, <<"MODERATION", "DIRECTOR_REVIEW">>,
           <<"DIRECTOR_REVIEW", "FINALIZED">>,
           <<"MODERATION", "DRAFT">>, <<"DIRECTOR_REVIEW", "DRAFT">>,
           <<"DIRECTOR_REVIEW", "MODERATION">>,
           <<"MODERATION", "CANCELLED">>, <<"DIRECTOR_REVIEW", "CANCELLED">> }

Numbered(c) == contract[c].global > 0

Init ==
    /\ status = [c \in Cases |-> "NONE"]
    /\ archived = [c \in Cases |-> FALSE]
    /\ \A c \in Cases : ~Numbered(c)

\* A new draft, possibly a repeat of an existing case.
Open(c) ==
    /\ status[c] = "NONE"
    /\ status' = [status EXCEPT ![c] = "DRAFT"]
    /\ source'[c] # NoCase => status[source'[c]] # "NONE"
    /\ source' = [source EXCEPT ![c] = source'[c]]
    /\ complete' = [complete EXCEPT ![c] = complete'[c]]
    /\ UNCHANGED <<archived, contract>>

Edit(c) ==
    /\ status[c] = "DRAFT"
    /\ complete' = [complete EXCEPT ![c] = ~complete[c]]
    /\ UNCHANGED <<status, archived, source, contract>>

Archive(c) ==
    /\ status[c] = "DRAFT" /\ ~archived[c]
    /\ archived' = [archived EXCEPT ![c] = TRUE]
    /\ UNCHANGED <<status, complete, source, contract>>

Restore(c) ==
    /\ archived[c]
    /\ archived' = [archived EXCEPT ![c] = FALSE]
    /\ UNCHANGED <<status, complete, source, contract>>

\* The global number is above every number given so far; the MFL identity is
\* the source's when it has one, and otherwise nobody's yet.
Number(c) ==
    /\ status[c] = "DRAFT" /\ complete[c] /\ ~Numbered(c)
    /\ contract' = [contract EXCEPT ![c] = contract'[c]]
    /\ \A d \in Cases : contract[d].global < contract'[c].global
    /\ IF source[c] # NoCase /\ Numbered(source[c])
       THEN contract'[c].mfl = contract[source[c]].mfl
       ELSE \A d \in Cases : contract[d].mfl # contract'[c].mfl
    /\ UNCHANGED <<status, archived, complete, source>>

Move(c) ==
    /\ <<status[c], status'[c]>> \in Edges
    /\ status' = [status EXCEPT ![c] = status'[c]]
    /\ status[c] = "DRAFT" => complete[c] /\ Numbered(c)
    /\ UNCHANGED <<archived, complete, source, contract>>

Next == \E c \in Cases : \/ Open(c) \/ Edit(c) \/ Archive(c) \/ Restore(c)
                         \/ Number(c) \/ Move(c)

Spec == Init /\ [][Next]_vars
=============================================================================
