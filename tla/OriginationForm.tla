-------------------------- MODULE OriginationForm ---------------------------
(***************************************************************************)
(* The wizard in which an operator fills in an application: useOrigination-*)
(* Form's state and its ensureCase, saveSection and save, the wizard's     *)
(* next, goTo and finish, and saveCollateralMedia.  A handler keeps the    *)
(* case id and the form of the render it was clicked in, whatever is set   *)
(* meanwhile.  Each of its API calls is two actions: the server's effect   *)
(* and the answer.  The server's side of a call is one step here.          *)
(*                                                                         *)
(* A section is typed or not, and those outside Typed count as filled in.  *)
(* Only the wizard opened on a draft has a loader, and every section save  *)
(* invalidates it.  What is uploaded is in Documents.                      *)
(***************************************************************************)
EXTENDS Naturals, Sequences, FiniteSets

CONSTANTS
    STEPS,    \* the steps of the product, in order
    Typed,    \* bound: the sections whose content is followed
    Drafts,   \* identities of the drafts the server may create
    NoDraft,  \* undefined
    Handlers  \* handlers that may run at a time, the bound on concurrency

VARIABLES
    form,     \* the sections typed in
    caseId,   \* the hook's state
    loads,    \* whether the wizard was opened on a draft, and so has a loader
    reload,   \* the loader has been invalidated
    step,     \* the step shown; 0 when the wizard has been left
    saving,   \* the flag that disables next and finish
    run,      \* the handlers in flight
    stored,   \* the sections of each draft on the server; the drafts that exist
    known,    \* ghost: the id of a draft has been answered to this wizard
    made,     \* ghost: the drafts this wizard has created
    kept      \* ghost: the sections the operator was told are saved

vars == <<form, caseId, loads, reload, step, saving, run, stored, known, made, kept>>

-----------------------------------------------------------------------------
Sections == {"borrower", "creditLine", "employment", "affordability", "creditHistory"}
Last     == Len(STEPS)

\* What a step's fields belong to, what it requires, and what it saves.
Fields(s)   == Typed \cap CASE s = "borrower" -> {"borrower"}
                            [] s = "ishkatm"  -> {"employment", "affordability", "creditHistory"}
                            [] OTHER          -> {"creditLine"}
Required(s) == Fields(s) \ {"employment", "affordability"}
Saves(s)    == CASE s = "borrower" -> <<"borrower">>
                 [] s = "ishkatm"  -> <<"employment", "creditHistory">>
                 [] OTHER          -> <<"creditLine">>

Exists(d)  == stored[d].exists
NoRow      == [exists |-> FALSE, data |-> {}]
Idle       == [kind |-> "idle", id |-> NoDraft, form |-> {}, todo |-> <<>>, at |-> 0, to |-> 0,
               got |-> NoDraft, on |-> NoDraft, late |-> FALSE]
InFlight   == {h \in Handlers : run[h].kind # "idle"}
Op(h)      == Head(run[h].todo)
Calling(h) == h \in InFlight /\ run[h].got = NoDraft
IsSave(op) == op \notin {"ensure", "upload"}

Init ==
    /\ form   = {} /\ caseId = NoDraft /\ loads = FALSE /\ reload = FALSE
    /\ step   = 1  /\ saving = FALSE
    /\ run    = [h \in Handlers |-> Idle]
    /\ stored = [d \in Drafts |-> NoRow]
    /\ known = FALSE /\ made = {} /\ kept = {}

Type ==
    /\ step # 0
    /\ \E x \in Fields(STEPS[step]) : form' = form \cup {x}
    /\ UNCHANGED <<caseId, loads, reload, step, saving, run, stored, known, made, kept>>

-----------------------------------------------------------------------------
(* Clicks.  A handler without a call to make is over at once.              *)
Start(h, kind, todo, to) ==
    /\ h \notin InFlight
    /\ run' = [run EXCEPT ![h] = [Idle EXCEPT !.kind = kind, !.id = caseId, !.form = form, !.todo = todo,
                                              !.at = step, !.to = to, !.on = caseId, !.late = known]]
    /\ saving' = (saving \/ IsSave(Head(todo)))
    /\ UNCHANGED <<form, caseId, loads, reload, step, stored, known, made, kept>>

NextStep(h) ==
    /\ step \in 1..(Last - 1) /\ ~saving
    /\ Required(STEPS[step]) \subseteq form
    /\ Start(h, "next", Saves(STEPS[step]), step + 1)

GoTo(h) ==
    /\ step # 0 /\ caseId # NoDraft
    /\ \E i \in 1..Last \ {step} : Start(h, "goto", Saves(STEPS[step]), i)

\* Without a case, goTo only turns the page; so does Orqaga, with or without.
TurnPage ==
    /\ step # 0
    /\ \E i \in 1..Last \ {step} : (caseId = NoDraft \/ i + 1 = step) /\ step' = i
    /\ UNCHANGED <<form, caseId, loads, reload, saving, run, stored, known, made, kept>>

Finish(h) ==
    /\ step = Last /\ ~saving
    /\ \A i \in 1..Last : Required(STEPS[i]) \subseteq form
    /\ Start(h, "finish", <<"all">>, step)

\* A passport scan; a photo of a collateral, busy while one is under way.
Scan(h) ==
    /\ step # 0 /\ STEPS[step] = "borrower"
    /\ Start(h, "scan", <<"ensure", "upload">>, step)

Media(h) ==
    /\ step # 0 /\ STEPS[step] = "garov" /\ Fields("garov") \subseteq form
    /\ \A o \in InFlight : run[o].kind # "media"
    /\ Start(h, "media", <<"ensure", "creditLine", "upload">>, step)

-----------------------------------------------------------------------------
(* The server's side of the call a handler is at.                          *)
Create(h) ==
    \E d \in Drafts :
       /\ ~Exists(d)
       /\ stored' = [stored EXCEPT ![d] = [exists |-> TRUE, data |-> run[h].form]]
       /\ made' = made \cup {d}
       /\ run' = [run EXCEPT ![h].got = d]

\* saveSection's masked body keeps the borrower and the named section; a
\* section still empty is stored as it is.
Store(h, x) ==
    stored' = [stored EXCEPT ![run[h].id].data = (@ \ {x, "borrower"}) \cup ({x, "borrower"} \cap run[h].form)]

CallEnsure(h) ==
    /\ Calling(h) /\ Op(h) = "ensure"
    /\ IF run[h].id = NoDraft THEN Create(h) ELSE run' = [run EXCEPT ![h].got = run[h].id] /\ UNCHANGED <<stored, made>>
    /\ UNCHANGED <<form, caseId, loads, reload, step, saving, known, kept>>

CallSection(h) ==
    /\ Calling(h) /\ Op(h) \in Sections
    /\ IF run[h].id = NoDraft THEN Create(h)
       ELSE /\ Store(h, Op(h))
            /\ run' = [run EXCEPT ![h].got = run[h].id]
            /\ UNCHANGED made
    /\ UNCHANGED <<form, caseId, loads, reload, step, saving, known, kept>>

CallAll(h) ==
    /\ Calling(h) /\ Op(h) = "all"
    /\ IF run[h].id = NoDraft THEN Create(h)
       ELSE /\ stored' = [stored EXCEPT ![run[h].id].data = run[h].form]
            /\ run' = [run EXCEPT ![h].got = run[h].id]
            /\ UNCHANGED made
    /\ UNCHANGED <<form, caseId, loads, reload, step, saving, known, kept>>

CallUpload(h) ==
    /\ Calling(h) /\ Op(h) = "upload"
    /\ run' = [run EXCEPT ![h].got = run[h].on]
    /\ UNCHANGED <<form, caseId, loads, reload, step, saving, stored, known, made, kept>>

-----------------------------------------------------------------------------
(* The answer: setCaseId after a create, the loader invalidated after a    *)
(* section, the next call, and at the end the page turned.                 *)
Created(h) == run[h].id = NoDraft /\ Op(h) # "upload"

\* next and goTo turn the page when they end, and finish leaves the wizard.
PageAfter(h, kinds) ==
    IF step = 0 \/ run[h].kind \notin kinds THEN step
    ELSE IF run[h].kind = "finish" THEN 0 ELSE run[h].to

\* Slip: ensureCase returns the id without setting it.
SetCaseIdBySaves(h) == IF Created(h) /\ Op(h) # "ensure" THEN run[h].got ELSE caseId

SetCaseId(h) == IF Created(h) THEN run[h].got ELSE caseId

Answer(h) ==
    /\ h \in InFlight /\ ~Calling(h)
    /\ LET rest == Tail(run[h].todo)
       IN  /\ caseId' = SetCaseId(h)
           /\ known'  = (known \/ Created(h))
           /\ reload' = (reload \/ (loads /\ ~Created(h) /\ IsSave(Op(h))))
           /\ saving' = (rest # <<>> /\ IsSave(Head(rest)))
           /\ run' = [run EXCEPT ![h] = IF rest = <<>> THEN Idle
                                        ELSE [@ EXCEPT !.todo = rest, !.got = NoDraft,
                                                       !.on = IF Op(h) = "ensure" THEN run[h].got ELSE run[h].on]]
           /\ step' = IF rest = <<>> THEN PageAfter(h, {"next", "goto", "finish"}) ELSE step
           /\ kept' = IF rest = <<>> /\ run[h].kind = "next"
                      THEN kept \cup (run[h].form \cap Fields(STEPS[run[h].at])) ELSE kept
    /\ UNCHANGED <<form, loads, stored, made>>

\* The call fails, or its answer is lost: next stays, goTo turns the page.
Fail(h) ==
    /\ h \in InFlight
    /\ run' = [run EXCEPT ![h] = Idle]
    /\ saving' = FALSE
    /\ step' = PageAfter(h, {"goto"})
    /\ UNCHANGED <<form, caseId, loads, reload, stored, known, made, kept>>

\* The loader's answer replaces the form.
Load ==
    /\ reload /\ step # 0
    /\ form'   = stored[caseId].data
    /\ reload' = FALSE
    /\ UNCHANGED <<caseId, loads, step, saving, run, stored, known, made, kept>>

\* The operator leaves, and later opens a draft from the list.
Reopen ==
    /\ InFlight = {}
    /\ \E d \in Drafts :
          /\ Exists(d)
          /\ caseId' = d
          /\ form' = stored[d].data
    /\ loads' = TRUE /\ reload' = FALSE /\ step' = 1 /\ saving' = FALSE
    /\ known' = TRUE /\ made' = {} /\ kept' = {}
    /\ UNCHANGED <<run, stored>>

Next ==
    \/ Type \/ TurnPage \/ Load \/ Reopen
    \/ \E h \in Handlers :
          \/ NextStep(h) \/ GoTo(h) \/ Finish(h) \/ Scan(h) \/ Media(h)
          \/ CallEnsure(h) \/ CallSection(h) \/ CallAll(h) \/ CallUpload(h)
          \/ Answer(h) \/ Fail(h)

Spec == Init /\ [][Next]_vars

-----------------------------------------------------------------------------
(* State and slots stay in their domains.                                  *)
TypeOK ==
    /\ form \subseteq Typed /\ kept \subseteq Typed
    /\ caseId \in Drafts \cup {NoDraft} /\ made \subseteq Drafts
    /\ step \in 0..Last
    /\ {loads, reload, saving, known} \subseteq BOOLEAN
    /\ stored \in [Drafts -> [exists : BOOLEAN, data : SUBSET Typed]]
    /\ \A d \in Drafts : d = caseId => Exists(d)

(* Once the wizard has been answered a draft, no click makes another: the  *)
(* id reaches every later handler (setCaseId in ensureCase, saveSection    *)
(* and save).                                                              *)
LateMakesNone == \A h \in Handlers : run[h].late /\ run'[h].late => \A d \in made' \ made : run'[h].got # d

DraftOnlyWhenUnknown == [][LateMakesNone]_vars

(* A wizard makes one draft ("Ensure the case exists (create it if not)"), *)
(* also with one click at a time.                                          *)
OneDraft == Cardinality(made) <= 1

(* What a step's "save and continue" has reported saved is stored in the   *)
(* draft, also with one click at a time.                                   *)
StepIsSaved == caseId # NoDraft => kept \subseteq stored[caseId].data
=============================================================================
