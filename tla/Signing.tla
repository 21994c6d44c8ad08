------------------------------ MODULE Signing ------------------------------
(***************************************************************************)
(* The director's signature on one credit case: SigningService's prepare,  *)
(* commit and fail over the challenge and signature tables and the frozen  *)
(* files of SignedDocsStore, together with the requests that change the    *)
(* same case meanwhile (saveDisbursement, transition).                     *)
(*                                                                         *)
(* As in CaseLifecycle an action is one awaited statement, one file or one *)
(* $transaction, and a slot of `req' remembers what a handler has read.    *)
(* A file is written and the directory removed in one step: a reader that  *)
(* meets a half-written file computes another hash and is refused, which   *)
(* Abort covers.                                                           *)
(*                                                                         *)
(* A call of prepare is an attempt.  Its renders differ from every other   *)
(* render (a PDF carries its creation time), so the bytes of a file are    *)
(* named by the attempt that wrote them.  The manifest an attempt hands    *)
(* out hence names its own bytes for every document; its digest is the     *)
(* attempt.  The header of a manifest (case, contract number, firm) is     *)
(* taken as fixed.  What the key signed is external: the server never      *)
(* reads the PKCS#7 beyond the firm's INN, and a refusal changes nothing.  *)
(***************************************************************************)
EXTENDS Integers, FiniteSets

CONSTANTS
    Directors,    \* accounts with the role DIRECTOR
    NoDirector,   \* the null reference
    Requests,     \* request slots, the bound on concurrency
    Docs,         \* how many documents DOC_REGISTRY names
    MaxAttempts,  \* bound on the calls of prepare
    MaxEdits      \* bound on the edits of the requisites

ASSUME DirectorsAssumption == NoDirector \notin Directors
ASSUME DocsAssumption      == Docs \in Nat \ {0}
ASSUME BoundsAssumption    == MaxAttempts \in Nat /\ MaxEdits \in Nat

VARIABLES
    status,      \* CreditCase.status
    requisites,  \* the version of the disbursement requisites
    attempt,     \* who prepared, and the requisites the attempt rendered
    attempts,    \* number of calls of prepare so far
    file,        \* the stored files, 0 when absent
    challenges,  \* the attempts with a row in CaseSignChallenge
    expired,     \* the attempts whose ten minutes are over
    signature,   \* the row of CaseSignature
    overlapped,  \* history: two requests were in flight at a time
    req          \* what each request in flight has read

vars == <<status, requisites, attempt, attempts, file, challenges, expired,
          signature, overlapped, req>>

-----------------------------------------------------------------------------
Statuses == {"DRAFT", "MODERATION", "DIRECTOR_REVIEW", "FINALIZED", "CANCELLED"}
Locked   == {"FINALIZED", "CANCELLED"}
DocKeys  == 1..Docs
Attempts == 1..MaxAttempts
Files    == [DocKeys -> 0..MaxAttempts]
NoFiles  == [d \in DocKeys |-> 0]

\* The moves of the workflow, whoever makes them (CaseLifecycle has the roles).
Edges == { <<"DRAFT", "MODERATION">>, <<"MODERATION", "DIRECTOR_REVIEW">>,
           <<"MODERATION", "DRAFT">>, <<"MODERATION", "CANCELLED">>,
           <<"DIRECTOR_REVIEW", "FINALIZED">>, <<"DIRECTOR_REVIEW", "MODERATION">>,
           <<"DIRECTOR_REVIEW", "CANCELLED">>, <<"DIRECTOR_REVIEW", "DRAFT">> }

Author      == [by : Directors \cup {NoDirector}, rendered : 0..MaxEdits]
Signature   == [by : Directors \cup {NoDirector}, digest : 0..MaxAttempts,
                manifest : Files]
NoSignature == [by |-> NoDirector, digest |-> 0, manifest |-> NoFiles]
Signed      == signature # NoSignature

Request == [ pc   : {"idle", "render", "undo", "clear", "issue",
                     "lookup", "lapse", "read", "recheck", "commit",
                     "look", "remove", "edit", "move"},
             user : Directors \cup {NoDirector},
             try  : 0..MaxAttempts,   \* the attempt worked on
             doc  : 1..(Docs + 1),    \* the next document
             seen : Files,            \* the files commit has hashed
             to   : Statuses ]        \* the status a transition leads to

Idle == [pc |-> "idle", user |-> NoDirector, try |-> 0, doc |-> 1,
         seen |-> NoFiles, to |-> "DRAFT"]

Init ==
    /\ status     = "DIRECTOR_REVIEW"
    /\ requisites = 0
    /\ attempt    = [a \in Attempts |-> [by |-> NoDirector, rendered |-> 0]]
    /\ attempts   = 0
    /\ file       = NoFiles
    /\ challenges = {}
    /\ expired    = {}
    /\ signature  = NoSignature
    /\ overlapped = FALSE
    /\ req        = [r \in Requests |-> Idle]

At(r, pc)     == req[r].pc = pc
GoTo(r, pc)   == req' = [req EXCEPT ![r].pc = pc] /\ UNCHANGED overlapped
Finish(r)     == req' = [req EXCEPT ![r] = Idle] /\ UNCHANGED overlapped
Begin(r, q)   ==
    /\ At(r, "idle")
    /\ req' = [req EXCEPT ![r] = q]
    /\ overlapped' = (overlapped \/ \E s \in Requests : ~At(s, "idle"))

case    == <<status, requisites, signature>>
tried   == <<attempt, attempts>>
offered == <<challenges, expired>>

\* loadSignable: the director's APPROVE must lead to FINALIZED.
Signable == status = "DIRECTOR_REVIEW"

-----------------------------------------------------------------------------
(* prepare: render and store every document, then drop the case's          *)
(* challenges, then create the new one, in three kinds of statements.      *)

PrepareLoad(r, u) ==
    /\ Signable
    /\ attempts < MaxAttempts
    /\ attempts' = attempts + 1
    /\ attempt'  = [attempt EXCEPT ![attempts'] = [by |-> u, rendered |-> requisites]]
    /\ Begin(r, [Idle EXCEPT !.pc = "render", !.user = u, !.try = attempts'])
    /\ UNCHANGED <<case, file, offered>>

Render(r) ==
    /\ At(r, "render")
    /\ req[r].doc \in DocKeys
    /\ file' = [file EXCEPT ![req[r].doc] = req[r].try]
    /\ req'  = [req EXCEPT ![r].doc = @ + 1,
                           ![r].pc  = IF req[r].doc = Docs THEN "clear" ELSE "render"]
    /\ UNCHANGED <<case, tried, offered, overlapped>>

RenderFails(r) ==
    /\ At(r, "render")
    /\ GoTo(r, "undo")
    /\ UNCHANGED <<case, tried, file, offered>>

UndoRender(r) ==
    /\ At(r, "undo")
    /\ file' = NoFiles
    /\ Finish(r)
    /\ UNCHANGED <<case, tried, offered>>

\* Slip: only the caller's own challenges are dropped.
ClearOwnChallenges(r) ==
    /\ At(r, "clear")
    /\ challenges' = {a \in challenges : attempt[a].by # req[r].user}
    /\ GoTo(r, "issue")
    /\ UNCHANGED <<case, tried, file, expired>>

ClearChallenges(r) ==
    /\ At(r, "clear")
    /\ challenges' = {}
    /\ GoTo(r, "issue")
    /\ UNCHANGED <<case, tried, file, expired>>

IssueChallenge(r) ==
    /\ At(r, "issue")
    /\ challenges' = challenges \cup {req[r].try}
    /\ Finish(r)
    /\ UNCHANGED <<case, tried, file, expired>>

-----------------------------------------------------------------------------
(* commit: check the case, the challenge, every stored file, the absence   *)
(* of a signature and the digest; then one transaction.                    *)

CommitLoad(r, u, a) ==
    /\ Signable
    /\ Begin(r, [Idle EXCEPT !.pc = "lookup", !.user = u, !.try = a])
    /\ UNCHANGED <<case, tried, file, offered>>

\* Slip: the age of the challenge is not looked at.
LookupChallengeAnyAge(r) ==
    /\ At(r, "lookup")
    /\ req[r].try \in challenges
    /\ attempt[req[r].try].by = req[r].user
    /\ GoTo(r, "read")
    /\ UNCHANGED <<case, tried, file, offered>>

LookupChallenge(r) ==
    /\ At(r, "lookup")
    /\ req[r].try \in challenges
    /\ attempt[req[r].try].by = req[r].user
    /\ GoTo(r, IF req[r].try \in expired THEN "lapse" ELSE "read")
    /\ UNCHANGED <<case, tried, file, offered>>

LapseChallenge(r) ==
    /\ At(r, "lapse")
    /\ challenges' = challenges \ {req[r].try}
    /\ Finish(r)
    /\ UNCHANGED <<case, tried, file, expired>>

ReadFile(r) ==
    /\ At(r, "read")
    /\ req[r].doc \in DocKeys
    /\ file[req[r].doc] # 0
    /\ req' = [req EXCEPT ![r].seen[req[r].doc] = file[req[r].doc],
                          ![r].doc = @ + 1,
                          ![r].pc  = IF req[r].doc = Docs THEN "recheck" ELSE "read"]
    /\ UNCHANGED <<case, tried, file, offered, overlapped>>

\* The digest the rebuilt manifest must have: the attempt's bytes throughout.
Matches(a, seen) == seen = [d \in DocKeys |-> a]

\* Slip: the rebuilt manifest is not compared with the challenge.
RecheckNoDigest(r) ==
    /\ At(r, "recheck")
    /\ ~Signed
    /\ GoTo(r, "commit")
    /\ UNCHANGED <<case, tried, file, offered>>

Recheck(r) ==
    /\ At(r, "recheck")
    /\ ~Signed
    /\ Matches(req[r].try, req[r].seen)
    /\ GoTo(r, "commit")
    /\ UNCHANGED <<case, tried, file, offered>>

\* Slip: upsert and deleteMany, so that a repeated commit is no error.
CommitRepeatable(r) ==
    /\ At(r, "commit")
    /\ status'     = "FINALIZED"
    /\ signature'  = [by |-> req[r].user, digest |-> req[r].try,
                      manifest |-> req[r].seen]
    /\ challenges' = challenges \ {req[r].try}
    /\ Finish(r)
    /\ UNCHANGED <<requisites, tried, file, expired>>

\* The transaction rolls back when caseId already has a signature (unique) or
\* the challenge is gone (delete finds no row); it does not look at `status'.
Commit(r) ==
    /\ At(r, "commit")
    /\ ~Signed
    /\ req[r].try \in challenges
    /\ status'     = "FINALIZED"
    /\ signature'  = [by |-> req[r].user, digest |-> req[r].try,
                      manifest |-> req[r].seen]
    /\ challenges' = challenges \ {req[r].try}
    /\ Finish(r)
    /\ UNCHANGED <<requisites, tried, file, expired>>

-----------------------------------------------------------------------------
(* fail: the browser reports that the signing did not come to an end, also *)
(* when only the answer to its commit was lost.                            *)

\* a = 0 is a report without a challenge id; the id of a challenge that is
\* gone drops nothing.
FailDrop(r, a) ==
    /\ Begin(r, [Idle EXCEPT !.pc = "look"])
    /\ challenges' = challenges \ {a}
    /\ UNCHANGED <<case, tried, file, expired>>

\* Slip: the files are removed whether or not the case is signed.
FailLookSignedToo(r) ==
    /\ At(r, "look")
    /\ GoTo(r, "remove")
    /\ UNCHANGED <<case, tried, file, offered>>

FailLook(r) ==
    /\ At(r, "look")
    /\ ~Signed
    /\ GoTo(r, "remove")
    /\ UNCHANGED <<case, tried, file, offered>>

FailRemove(r) ==
    /\ At(r, "remove")
    /\ file' = NoFiles
    /\ Finish(r)
    /\ UNCHANGED <<case, tried, offered>>

-----------------------------------------------------------------------------
(* The other requests on the case.                                         *)

\* Slip: the requisites of a closed case may be changed.
EditLoadAlways(r) ==
    /\ requisites < MaxEdits
    /\ Begin(r, [Idle EXCEPT !.pc = "edit"])
    /\ UNCHANGED <<case, tried, file, offered>>

EditLoad(r) ==
    /\ requisites < MaxEdits
    /\ ~Signed
    /\ status \notin Locked
    /\ Begin(r, [Idle EXCEPT !.pc = "edit"])
    /\ UNCHANGED <<case, tried, file, offered>>

EditSave(r) ==
    /\ At(r, "edit")
    /\ requisites < MaxEdits
    /\ requisites' = requisites + 1
    /\ Finish(r)
    /\ UNCHANGED <<status, signature, tried, file, offered>>

MoveLoad(r, to) ==
    /\ <<status, to>> \in Edges
    /\ Begin(r, [Idle EXCEPT !.pc = "move", !.to = to])
    /\ UNCHANGED <<case, tried, file, offered>>

MoveSave(r) ==
    /\ At(r, "move")
    /\ status' = req[r].to
    /\ Finish(r)
    /\ UNCHANGED <<requisites, signature, tried, file, offered>>

\* A refusal, a thrown error, a rolled-back transaction or a restart.
Abort(r) ==
    /\ ~At(r, "idle")
    /\ Finish(r)
    /\ UNCHANGED <<case, tried, file, offered>>

\* Ten minutes after prepare.
ChallengeExpires(a) ==
    /\ a \in challenges \ expired
    /\ expired' = expired \cup {a}
    /\ UNCHANGED <<case, tried, file, challenges, overlapped, req>>

-----------------------------------------------------------------------------
StartRequest(r) ==
    \/ \E u \in Directors : PrepareLoad(r, u)
    \/ \E u \in Directors, a \in challenges : CommitLoad(r, u, a)
    \/ \E a \in challenges \cup {0} : FailDrop(r, a)
    \/ EditLoad(r)
    \/ \E to \in Statuses : MoveLoad(r, to)

ContinueRequest(r) ==
    \/ Render(r) \/ RenderFails(r) \/ UndoRender(r)
    \/ ClearChallenges(r) \/ IssueChallenge(r)
    \/ LookupChallenge(r) \/ LapseChallenge(r)
    \/ ReadFile(r) \/ Recheck(r) \/ Commit(r)
    \/ FailLook(r) \/ FailRemove(r)
    \/ EditSave(r) \/ MoveSave(r)
    \/ Abort(r)

Next == \/ \E r \in Requests : StartRequest(r) \/ ContinueRequest(r)
        \/ \E a \in Attempts : ChallengeExpires(a)

Spec == Init /\ [][Next]_vars

-----------------------------------------------------------------------------
(* Properties.                                                             *)

\* Every column and every slot holds a value of its domain; a slot of prepare
\* or commit works on an attempt that was started.
TypeOK ==
    /\ status     \in Statuses
    /\ requisites \in 0..MaxEdits
    /\ attempt    \in [Attempts -> Author]
    /\ attempts   \in 0..MaxAttempts
    /\ file       \in Files
    /\ challenges \subseteq 1..attempts
    /\ expired    \subseteq 1..attempts
    /\ signature  \in Signature
    /\ req        \in [Requests -> Request]
    /\ \A r \in Requests :
          req[r].pc \notin {"idle", "look", "remove", "edit", "move"} =>
              req[r].try \in 1..attempts /\ req[r].user \in Directors

\* The stored signature is by the director the challenge was handed to, and
\* the manifest it is filed with names, for every document, the very bytes
\* that attempt rendered: never a mixture, never another director's attempt.
SignedAsIssued ==
    Signed => /\ signature.digest \in 1..attempts
              /\ signature.by = attempt[signature.digest].by
              /\ Matches(signature.digest, signature.manifest)

\* A challenge is used up by the signature it leads to (prepare, fail and
\* commit all drop it): no signature and challenge of one attempt coexist.
ChallengeSpent == Signed => signature.digest \notin challenges

\* A signature is filed once: no race of commits replaces or removes it.
SignatureFinal == [][Signed => signature' = signature]_vars

\* The commits that work on attempt a beyond the challenge's lookup.
Committing(a) == {r \in Requests :
    req[r].pc \in {"read", "recheck", "commit"} /\ req[r].try = a}

\* An expired or withdrawn attempt is signed only by a commit that had looked
\* its challenge up in time: no request joins those, and a withdrawn challenge
\* (superseded by a prepare, or reported failed) is not signed at all.
ExpiredAttemptsSettle ==
    [][\A a \in Attempts :
          /\ a \in expired => Committing(a)' \subseteq Committing(a)
          /\ a \notin challenges => Committing(a)' \subseteq Committing(a)
          /\ (~Signed /\ (a \notin challenges
                          \/ (a \in expired /\ Committing(a) = {}))) =>
                signature'.digest # a]_vars

\* The requests that may still change a signed case: a prepare or a failure
\* report that writes files, a transition, an edit of the requisites.
Disturbing == {r \in Requests :
    req[r].pc \in {"render", "undo", "remove", "move", "edit"}}

\* A finalized, signed case is disturbed only by requests that had read it
\* before: no request joins those, and without one the issued files, the
\* requisites and the status stay as they are.
SignedCaseSettles ==
    [][Signed /\ status = "FINALIZED" =>
          /\ Disturbing' \subseteq Disturbing
          /\ Disturbing = {} => UNCHANGED <<file, requisites, status>>]_vars

\* What getPdf answers for document d: the stored file, else a fresh render.
Served(d) == IF file[d] # 0 THEN file[d] ELSE MaxAttempts + 1

\* "Once the director has signed, the frozen file IS the issued document"
\* (case-documents.controller.ts:72): it is the bytes their key covers.
IssuedAsSigned == Signed => \A d \in DocKeys : Served(d) = signature.manifest[d]

\* As long as no two requests on the case overlapped, it does hold: prepare,
\* commit and fail in any order, cut off anywhere, never leave other files.
IssuedUnlessOverlapped == ~overlapped => IssuedAsSigned

\* "One live attempt per case" (signing.service.ts:109), which the deletion
\* and the insertion, two statements, keep as long as no requests overlap.
OneLiveUnlessOverlapped == ~overlapped => Cardinality(challenges) <= 1

\* "Letting the requisites change afterwards would leave the issued document
\* naming one account and the database another"
\* (credit-cases.service.ts:923-925): a signed case has the signed requisites.
SignedRequisites == Signed => attempt[signature.digest].rendered = requisites
=============================================================================
