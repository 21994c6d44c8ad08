--------------------------- MODULE SigningProofs ---------------------------
(***************************************************************************)
(* Theorems about Signing, for any set of directors, any number of         *)
(* documents, attempts and edits and any number of overlapping requests.   *)
(***************************************************************************)
EXTENDS Signing, TLAPS, FiniteSetTheorems

\* The handlers that do not work on an attempt.
Loose == {"idle", "look", "remove", "edit", "move"}

\* The part of TypeOK that is about the slots.
SlotsOK ==
    /\ req \in [Requests -> Request]
    /\ \A r \in Requests :
          req[r].pc \notin Loose =>
              req[r].try \in 1..attempts /\ req[r].user \in Directors

\* The slot of a request that has not begun is a well-formed request.
LEMMA IdleRequest == Idle \in Request /\ NoFiles \in Files
  BY DocsAssumption, BoundsAssumption
     DEF Idle, Request, NoFiles, Files, DocKeys, Statuses

\* Storing a well-formed request in one slot keeps the slots well-formed,
\* also when an attempt is started in the same step.
LEMMA SlotType ==
  ASSUME SlotsOK, NEW r \in Requests, NEW q \in Request,
         attempts \in Nat, attempts' \in Nat, attempts <= attempts',
         q.pc \notin Loose => q.try \in 1..attempts' /\ q.user \in Directors,
         req' = [req EXCEPT ![r] = q]
  PROVE  SlotsOK'
  BY DEF SlotsOK

\* The same for a slot that goes back to idle.
LEMMA FinishType ==
  ASSUME TypeOK, NEW r \in Requests, Finish(r), UNCHANGED attempts
  PROVE  SlotsOK'
<1>1. Idle.pc \in Loose /\ SlotsOK
  BY DEF Idle, TypeOK, SlotsOK, Loose
<1>2. attempts \in Nat /\ attempts' \in Nat /\ attempts <= attempts'
  BY BoundsAssumption DEF TypeOK
<1>3. Idle \in Request /\ req' = [req EXCEPT ![r] = Idle]
  BY IdleRequest DEF Finish
<1> QED
  BY <1>1, <1>2, <1>3, SlotType

\* The same for a slot that only moves on to another statement.
LEMMA GoToType ==
  ASSUME TypeOK, NEW r \in Requests, req[r].pc \notin Loose,
         NEW pc \in {"undo", "clear", "issue", "lapse", "read", "recheck", "commit"},
         GoTo(r, pc), UNCHANGED attempts
  PROVE  SlotsOK'
<1> DEFINE q == [req[r] EXCEPT !.pc = pc]
<1>1. /\ req[r] \in Request /\ SlotsOK
      /\ attempts \in Nat /\ attempts' \in Nat /\ attempts <= attempts'
      /\ req[r].try \in 1..attempts' /\ req[r].user \in Directors
  BY BoundsAssumption DEF TypeOK, SlotsOK, Loose
<1>2. q \in Request /\ q.try = req[r].try /\ q.user = req[r].user
  BY <1>1 DEF Request
<1>3. req' = [req EXCEPT ![r] = q]
  BY <1>1 DEF GoTo, SlotsOK
<1> QED
  BY <1>1, <1>2, <1>3, SlotType

\* The initial state is well-typed.
LEMMA InitType == Init => TypeOK
  BY IdleRequest, DocsAssumption, BoundsAssumption
     DEF Init, TypeOK, Idle, Statuses, Author, Signature, NoSignature

\* Every step of every handler keeps the state well-typed.
LEMMA StepType ==
  ASSUME TypeOK, [Next]_vars
  PROVE  TypeOK'
<1>0. attempts \in Nat /\ attempts <= attempts /\ SlotsOK
  BY BoundsAssumption DEF TypeOK, SlotsOK, Loose
<1>1. ASSUME NEW r \in Requests, NEW u \in Directors, PrepareLoad(r, u)
      PROVE  TypeOK'
  <2> DEFINE q == [Idle EXCEPT !.pc = "render", !.user = u, !.try = attempts']
  <2>1. attempts' \in 1..MaxAttempts /\ attempts' = attempts + 1
    BY <1>0, <1>1, BoundsAssumption DEF PrepareLoad, TypeOK
  <2>2. q \in Request /\ q.try = attempts' /\ q.user = u
    <3>1. attempts' \in 0..MaxAttempts /\ Idle \in Request
      BY <2>1, IdleRequest
    <3> QED
      BY <3>1 DEF Request, Idle
  <2>3. SlotsOK'
    <3>1. attempts' \in Nat /\ attempts <= attempts' /\ attempts' \in 1..attempts'
      BY <1>0, <2>1
    <3>2. req' = [req EXCEPT ![r] = q]
      BY <1>1, SMTT(60) DEF PrepareLoad, Begin
    <3> HIDE DEF q
    <3> QED
      BY <1>0, <2>2, <3>1, <3>2, SlotType
  <2> QED
    BY <1>1, <2>1, <2>3 DEF PrepareLoad, TypeOK, SlotsOK, Loose, case, offered,
       Attempts, Author
<1>2. ASSUME NEW r \in Requests, Render(r)
      PROVE  TypeOK'
  <2> DEFINE q == [req[r] EXCEPT !.doc = @ + 1,
                      !.pc = IF req[r].doc = Docs THEN "clear" ELSE "render"]
  <2>1. req[r] \in Request /\ req[r].try \in 1..attempts /\ req[r].user \in Directors
    BY <1>2 DEF Render, At, TypeOK
  <2>2. q \in Request /\ q.try = req[r].try /\ q.user = req[r].user
    <3>1. req[r].doc + 1 \in 1..(Docs + 1)
      BY <1>2, DocsAssumption DEF Render, DocKeys
    <3>2. (IF req[r].doc = Docs THEN "clear" ELSE "render") \in {"clear", "render"}
      OBVIOUS
    <3> QED
      BY <2>1, <3>1, <3>2 DEF Request
  <2>3. req' = [req EXCEPT ![r] = q]
    BY <1>2 DEF Render, TypeOK
  <2>4. SlotsOK'
    BY <1>0, <1>2, <2>1, <2>2, <2>3, SlotType DEF Render, tried
  <2> QED
    BY <1>2, <2>1, <2>4 DEF Render, TypeOK, SlotsOK, Loose, case, offered, tried,
       Files, Request
<1>3. ASSUME NEW r \in Requests, RenderFails(r) \/ LookupChallenge(r) \/ Recheck(r)
      PROVE  TypeOK'
  <2>1. SlotsOK'
    BY <1>3, GoToType DEF RenderFails, LookupChallenge, Recheck, At, tried, Loose
  <2> QED
    BY <1>3, <2>1 DEF RenderFails, LookupChallenge, Recheck, TypeOK, SlotsOK, Loose,
       case, tried, offered
<1>4. ASSUME NEW r \in Requests, UndoRender(r) \/ FailRemove(r)
      PROVE  TypeOK'
  <2>1. SlotsOK'
    BY <1>4, FinishType DEF UndoRender, FailRemove, tried
  <2> QED
    BY <1>4, <2>1, IdleRequest DEF UndoRender, FailRemove, TypeOK, SlotsOK, Loose,
       case, tried, offered
<1>5. ASSUME NEW r \in Requests, ClearChallenges(r)
      PROVE  TypeOK'
  <2>1. SlotsOK'
    BY <1>5, GoToType DEF ClearChallenges, At, tried, Loose
  <2> QED
    BY <1>5, <2>1 DEF ClearChallenges, TypeOK, SlotsOK, Loose, case, tried
<1>6. ASSUME NEW r \in Requests, IssueChallenge(r)
      PROVE  TypeOK'
  <2>1. SlotsOK'
    BY <1>6, FinishType DEF IssueChallenge, tried
  <2>2. req[r].try \in 1..attempts
    BY <1>6 DEF IssueChallenge, At, TypeOK
  <2> QED
    BY <1>6, <2>1, <2>2 DEF IssueChallenge, TypeOK, SlotsOK, Loose, case, tried
<1>7. ASSUME NEW r \in Requests, NEW u \in Directors, NEW a \in challenges,
             CommitLoad(r, u, a)
      PROVE  TypeOK'
  <2> DEFINE q == [Idle EXCEPT !.pc = "lookup", !.user = u, !.try = a]
  <2>1. a \in 1..attempts /\ a \in 0..MaxAttempts
    BY BoundsAssumption DEF TypeOK
  <2>2. q \in Request /\ q.try = a /\ q.user = u
    BY <2>1, IdleRequest, ZenonT(60) DEF Request, Idle
  <2>3. SlotsOK'
    BY <1>0, <1>7, <2>1, <2>2, SlotType, ZenonT(60) DEF CommitLoad, Begin, tried
  <2> QED
    BY <1>7, <2>3 DEF CommitLoad, TypeOK, SlotsOK, Loose, case, tried, offered
<1>8. ASSUME NEW r \in Requests, LapseChallenge(r)
      PROVE  TypeOK'
  <2>1. SlotsOK'
    BY <1>8, FinishType DEF LapseChallenge, tried
  <2> QED
    BY <1>8, <2>1, ZenonT(60) DEF LapseChallenge, TypeOK, SlotsOK, Loose, case, tried
<1>9. ASSUME NEW r \in Requests, ReadFile(r)
      PROVE  TypeOK'
  <2> DEFINE q == [req[r] EXCEPT !.seen[req[r].doc] = file[req[r].doc],
                      !.doc = @ + 1,
                      !.pc = IF req[r].doc = Docs THEN "recheck" ELSE "read"]
  <2>1. req[r] \in Request /\ req[r].try \in 1..attempts /\ req[r].user \in Directors
    BY <1>9 DEF ReadFile, At, TypeOK
  <2>2. file[req[r].doc] \in 0..MaxAttempts /\ req[r].doc \in DocKeys
    BY <1>9 DEF ReadFile, TypeOK, Files
  <2>3. q \in Request /\ q.try = req[r].try /\ q.user = req[r].user
    <3>1. req[r].doc + 1 \in 1..(Docs + 1)
      BY <2>2, DocsAssumption DEF DocKeys
    <3>2. (IF req[r].doc = Docs THEN "recheck" ELSE "read") \in {"recheck", "read"}
      OBVIOUS
    <3>3. [req[r].seen EXCEPT ![req[r].doc] = file[req[r].doc]] \in Files
      BY <2>1, <2>2 DEF Files, Request
    <3> QED
      BY <2>1, <3>1, <3>2, <3>3 DEF Request
  <2>4. req' = [req EXCEPT ![r] = q]
    BY <1>9, <2>1 DEF ReadFile, TypeOK, Request
  <2>5. SlotsOK'
    <3>1. UNCHANGED attempts
      BY <1>9 DEF ReadFile, tried
    <3> HIDE DEF q
    <3> QED
      BY <1>0, <2>1, <2>3, <2>4, <3>1, SlotType
  <2> QED
    BY <1>9, <2>5, ZenonT(60) DEF ReadFile, TypeOK, SlotsOK, Loose, case, offered, tried
<1>10. ASSUME NEW r \in Requests, Commit(r)
       PROVE  TypeOK'
  <2>1. SlotsOK'
    BY <1>10, FinishType DEF Commit, tried
  <2>2. signature' \in Signature
    BY <1>10 DEF Commit, At, TypeOK, Request, Signature
  <2> QED
    BY <1>10, <2>1, <2>2 DEF Commit, TypeOK, SlotsOK, Loose, tried, Statuses
<1>11. ASSUME NEW r \in Requests, NEW a \in challenges \cup {0}, FailDrop(r, a)
       PROVE  TypeOK'
  <2> DEFINE q == [Idle EXCEPT !.pc = "look"]
  <2>1. q \in Request /\ q.pc = "look"
    BY IdleRequest DEF Request, Idle
  <2>2. SlotsOK'
    BY <1>0, <1>11, <2>1, SlotType DEF FailDrop, Begin, tried, Loose
  <2> QED
    BY <1>11, <2>2 DEF FailDrop, TypeOK, SlotsOK, Loose, case, tried
<1>12. ASSUME NEW r \in Requests, FailLook(r)
       PROVE  TypeOK'
  <2> DEFINE q == [req[r] EXCEPT !.pc = "remove"]
  <2>1. q \in Request /\ q.pc = "remove" /\ req' = [req EXCEPT ![r] = q]
    BY <1>12 DEF FailLook, GoTo, TypeOK, Request
  <2>2. SlotsOK'
    BY <1>0, <1>12, <2>1, SlotType DEF FailLook, tried, Loose
  <2> QED
    BY <1>12, <2>2 DEF FailLook, TypeOK, SlotsOK, Loose, case, tried, offered
<1>13. ASSUME NEW r \in Requests, NEW to \in Statuses,
              EditLoad(r) \/ MoveLoad(r, to)
       PROVE  TypeOK'
  <2>1. PICK q \in {[Idle EXCEPT !.pc = "edit"], [Idle EXCEPT !.pc = "move", !.to = to]} :
           req' = [req EXCEPT ![r] = q]
    BY <1>13 DEF EditLoad, MoveLoad, Begin
  <2>2. q \in Request /\ q.pc \in Loose
    BY IdleRequest DEF Request, Idle, Loose
  <2>3. SlotsOK'
    BY <1>0, <1>13, <2>1, <2>2, SlotType DEF EditLoad, MoveLoad, tried
  <2> QED
    BY <1>13, <2>3 DEF EditLoad, MoveLoad, TypeOK, SlotsOK, Loose, case, tried, offered
<1>14. ASSUME NEW r \in Requests, EditSave(r) \/ MoveSave(r) \/ Abort(r)
       PROVE  TypeOK'
  <2>1. SlotsOK'
    BY <1>14, FinishType DEF EditSave, MoveSave, Abort, tried
  <2>2. req[r].to \in Statuses
    BY DEF TypeOK, Request
  <2>3. requisites' \in 0..MaxEdits /\ status' \in Statuses
    BY <1>14, <2>2, BoundsAssumption DEF EditSave, MoveSave, Abort, TypeOK, case
  <2>4. UNCHANGED <<tried, file, offered, signature>>
    BY <1>14 DEF EditSave, MoveSave, Abort, case
  <2> QED
    BY <2>1, <2>3, <2>4 DEF TypeOK, SlotsOK, Loose, tried, offered
<1>15. ASSUME NEW a \in Attempts, ChallengeExpires(a)
       PROVE  TypeOK'
  BY <1>15 DEF ChallengeExpires, TypeOK, case, tried
<1>16. CASE UNCHANGED vars
  BY <1>16 DEF TypeOK, vars
<1>17. ASSUME NEW r \in Requests, StartRequest(r)
       PROVE  TypeOK'
  <2>1. CASE EditLoad(r) \/ \E to \in Statuses : MoveLoad(r, to)
    <3>1. "DRAFT" \in Statuses
      BY DEF Statuses
    <3> QED
      BY <1>13, <2>1, <3>1
  <2> QED
    BY <1>1, <1>7, <1>11, <1>17, <2>1 DEF StartRequest
<1>18. ASSUME NEW r \in Requests, ContinueRequest(r)
       PROVE  TypeOK'
  BY <1>2, <1>3, <1>4, <1>5, <1>6, <1>8, <1>9, <1>10, <1>12, <1>14, <1>18
     DEF ContinueRequest
<1> QED
  BY <1>15, <1>16, <1>17, <1>18 DEF Next

\* Whatever requests overlap, the tables, the files and the slots hold values
\* of their domains, and every prepare or commit in flight works on an attempt
\* that was started, for a director.
THEOREM TypeCorrect == Spec => []TypeOK
<1>1. Init => TypeOK
  BY InitType
<1>2. TypeOK /\ [Next]_vars => TypeOK'
  BY StepType
<1> QED
  BY <1>1, <1>2, PTL DEF Spec

-----------------------------------------------------------------------------
(* SignedAsIssued and ChallengeSpent hold because of what every request in *)
(* flight carries: a commit past its lookup works on an attempt of its own *)
(* director and, once it may commit, has hashed that attempt's bytes; an   *)
(* attempt that has not handed out its challenge yet has neither challenge *)
(* nor signature, and is the work of one request only.                     *)

Preparing == {"render", "clear", "issue"}
Checked   == {"read", "recheck", "commit"}

OwnAttempt ==
    \A r \in Requests :
        /\ req[r].pc \in Checked => attempt[req[r].try].by = req[r].user
        /\ req[r].pc = "commit" => Matches(req[r].try, req[r].seen)

NotYetOffered ==
    \A r \in Requests : req[r].pc \in Preparing =>
        /\ req[r].try \notin challenges
        /\ Signed => req[r].try # signature.digest
        /\ \A s \in Requests :
              s # r /\ req[s].pc \in Preparing => req[s].try # req[r].try

Issued ==
    SignedAsIssued /\ ChallengeSpent /\ OwnAttempt /\ NotYetOffered

SigningInv == TypeOK /\ Issued

\* A step of one request that files no signature, starts no attempt and adds
\* no challenge keeps the invariant, if its slot still keeps its share of it.
LEMMA QuietStep ==
  ASSUME SigningInv, NEW r \in Requests,
         UNCHANGED <<attempt, attempts, signature>>, challenges' \subseteq challenges,
         \A s \in Requests : s # r => req'[s] = req[s],
         req'[r].pc \in Preparing =>
             req[r].pc \in Preparing /\ req'[r].try = req[r].try,
         req'[r].pc \in Checked => attempt[req'[r].try].by = req'[r].user,
         req'[r].pc = "commit" => Matches(req'[r].try, req'[r].seen)
  PROVE  Issued'
<1>1. SignedAsIssued' /\ ChallengeSpent'
  BY DEF SigningInv, Issued, SignedAsIssued, ChallengeSpent, Signed
<1>2. OwnAttempt'
  BY DEF SigningInv, Issued, OwnAttempt, Matches
<1>3. NotYetOffered'
  BY DEF SigningInv, Issued, NotYetOffered, Signed
<1> QED
  BY <1>1, <1>2, <1>3 DEF Issued

\* In the initial state nothing is prepared, offered or signed.
LEMMA InitSigning == Init => SigningInv
<1> SUFFICES ASSUME Init PROVE Issued
  BY InitType DEF SigningInv
<1>1. \A r \in Requests : req[r].pc = "idle"
  BY DEF Init, Idle
<1> QED
  BY <1>1 DEF Init, Issued, SignedAsIssued, ChallengeSpent, OwnAttempt,
     NotYetOffered, Signed, Preparing, Checked

\* A new attempt has a number that no slot, challenge or signature has yet.
LEMMA PrepareSigning ==
  ASSUME SigningInv, NEW r \in Requests, NEW u \in Directors, PrepareLoad(r, u)
  PROVE  Issued'
<1>1. /\ attempts \in Nat /\ attempts' = attempts + 1
      /\ \A a \in 1..attempts : attempt'[a] = attempt[a] /\ a # attempts'
      /\ UNCHANGED <<signature, challenges>> /\ challenges \subseteq 1..attempts
  BY BoundsAssumption DEF PrepareLoad, case, offered, SigningInv, TypeOK, Attempts
<1>2. /\ req'[r].pc = "render" /\ req'[r].try = attempts'
      /\ \A s \in Requests : s # r => req'[s] = req[s]
  BY DEF PrepareLoad, Begin, Idle, SigningInv, TypeOK
<1>3. \A s \in Requests : req[s].pc \in Preparing \cup Checked =>
          req[s].try \in 1..attempts
  BY DEF SigningInv, TypeOK, Preparing, Checked
<1>4. SignedAsIssued' /\ ChallengeSpent'
  BY <1>1 DEF SigningInv, Issued, SignedAsIssued, ChallengeSpent, Signed
<1>5. OwnAttempt'
  <2> SUFFICES ASSUME NEW s \in Requests, req'[s].pc \in Checked
               PROVE  /\ attempt'[req'[s].try].by = req'[s].user
                      /\ req'[s].pc = "commit" => Matches(req'[s].try, req'[s].seen)
    BY DEF OwnAttempt, Checked, Matches
  <2>1. req'[s] = req[s]
    BY <1>2 DEF Checked
  <2>2. attempt'[req[s].try] = attempt[req[s].try]
    BY <1>1, <1>3, <2>1
  <2> QED
    BY <2>1, <2>2 DEF SigningInv, Issued, OwnAttempt
<1>6. NotYetOffered'
  <2>1. Signed => signature.digest \in 1..attempts
    BY DEF SigningInv, Issued, SignedAsIssued
  <2> QED
    BY <1>1, <1>2, <1>3, <2>1 DEF SigningInv, Issued, NotYetOffered, Signed
<1> QED
  BY <1>4, <1>5, <1>6 DEF Issued

\* The challenge that is created belongs to the one request that works on the
\* attempt, and the attempt was not signed before.
LEMMA IssueSigning ==
  ASSUME SigningInv, NEW r \in Requests, IssueChallenge(r)
  PROVE  Issued'
<1>1. /\ UNCHANGED <<attempt, attempts, signature>>
      /\ challenges' = challenges \cup {req[r].try}
  BY DEF IssueChallenge, case, tried
<1>2. /\ req[r].pc \in Preparing /\ req'[r].pc = "idle"
      /\ \A s \in Requests : s # r => req'[s] = req[s]
  BY DEF IssueChallenge, At, Finish, Idle, SigningInv, TypeOK, Preparing
<1>3. SignedAsIssued'
  BY <1>1 DEF SigningInv, Issued, SignedAsIssued, Signed
<1>4. ChallengeSpent'
  BY <1>1, <1>2 DEF SigningInv, Issued, ChallengeSpent, NotYetOffered, Signed
<1>5. OwnAttempt'
  BY <1>1, <1>2 DEF SigningInv, Issued, OwnAttempt, Matches, Checked
<1>6. NotYetOffered'
  <2> SUFFICES ASSUME NEW s \in Requests, req'[s].pc \in Preparing
               PROVE  /\ req'[s].try \notin challenges'
                      /\ Signed' => req'[s].try # signature'.digest
                      /\ \A t \in Requests :
                            t # s /\ req'[t].pc \in Preparing => req'[t].try # req'[s].try
    BY DEF NotYetOffered
  <2>1. s # r /\ req'[s] = req[s]
    BY <1>2 DEF Preparing
  <2>2. req[s].try # req[r].try
    BY <1>2, <2>1 DEF SigningInv, Issued, NotYetOffered
  <2>3. \A t \in Requests : req'[t].pc \in Preparing => req'[t] = req[t]
    BY <1>2 DEF Preparing
  <2> QED
    BY <1>1, <2>1, <2>2, <2>3 DEF SigningInv, Issued, NotYetOffered, Signed
<1> QED
  BY <1>3, <1>4, <1>5, <1>6 DEF Issued

\* The transaction files the manifest the commit has checked, under the
\* director it has checked, and uses the challenge up.
LEMMA CommitSigning ==
  ASSUME SigningInv, NEW r \in Requests, Commit(r)
  PROVE  Issued'
<1> DEFINE a == req[r].try
<1>1. /\ UNCHANGED <<attempt, attempts>>
      /\ a \in challenges /\ challenges' = challenges \ {a}
      /\ signature'.by = req[r].user /\ signature'.digest = a
      /\ signature'.manifest = req[r].seen
  BY DEF Commit, tried
<1>2. /\ req[r].pc = "commit" /\ req'[r].pc = "idle"
      /\ \A s \in Requests : s # r => req'[s] = req[s]
  BY DEF Commit, At, Finish, Idle, SigningInv, TypeOK
<1>3. SignedAsIssued'
  <2>1. a \in 1..attempts
    BY <1>1 DEF SigningInv, TypeOK
  <2>2. attempt[a].by = req[r].user /\ Matches(a, req[r].seen)
    BY <1>2 DEF SigningInv, Issued, OwnAttempt, Checked
  <2> QED
    BY <1>1, <2>1, <2>2 DEF SignedAsIssued, Matches
<1>4. ChallengeSpent'
  BY <1>1 DEF ChallengeSpent
<1>5. OwnAttempt'
  BY <1>1, <1>2 DEF SigningInv, Issued, OwnAttempt, Matches, Checked
<1>6. NotYetOffered'
  BY <1>1, <1>2 DEF SigningInv, Issued, NotYetOffered, Preparing
<1> QED
  BY <1>3, <1>4, <1>5, <1>6 DEF Issued

\* Every step of every handler keeps the invariant.
LEMMA StepSigning ==
  ASSUME SigningInv, [Next]_vars
  PROVE  SigningInv'
<1> SUFFICES Issued'
  BY StepType DEF SigningInv
<1>1. ASSUME NEW r \in Requests,
             \/ \E u \in Directors, a \in challenges : CommitLoad(r, u, a)
             \/ \E a \in challenges \cup {0} : FailDrop(r, a)
             \/ EditLoad(r)
             \/ \E to \in Statuses : MoveLoad(r, to)
      PROVE  Issued'
  <2>1. /\ UNCHANGED <<attempt, attempts, signature>> /\ challenges' \subseteq challenges
        /\ \A s \in Requests : s # r => req'[s] = req[s]
        /\ req'[r].pc \in {"lookup", "look", "edit", "move"}
    BY <1>1, ZenonT(60) DEF CommitLoad, FailDrop, EditLoad, MoveLoad, Begin, Idle, case, tried,
       offered, SigningInv, TypeOK
  <2> QED
    BY <2>1, QuietStep DEF Preparing, Checked
<1>2. ASSUME NEW r \in Requests,
             \/ UndoRender(r) \/ LapseChallenge(r) \/ FailRemove(r)
             \/ EditSave(r) \/ MoveSave(r) \/ Abort(r)
      PROVE  Issued'
  <2>1. /\ UNCHANGED <<attempt, attempts, signature>> /\ challenges' \subseteq challenges
        /\ \A s \in Requests : s # r => req'[s] = req[s]
        /\ req'[r].pc = "idle"
    BY <1>2 DEF UndoRender, LapseChallenge, FailRemove, EditSave, MoveSave, Abort,
       Finish, Idle, case, tried, offered, SigningInv, TypeOK
  <2> QED
    BY <2>1, QuietStep DEF Preparing, Checked
<1>3. ASSUME NEW r \in Requests,
             \/ Render(r) \/ RenderFails(r) \/ ClearChallenges(r) \/ FailLook(r)
      PROVE  Issued'
  <2>1. /\ UNCHANGED <<attempt, attempts, signature>> /\ challenges' \subseteq challenges
        /\ \A s \in Requests : s # r => req'[s] = req[s]
        /\ req'[r].try = req[r].try
        /\ \/ req[r].pc \in Preparing /\ req'[r].pc \in Preparing
           \/ req'[r].pc \in {"undo", "remove"}
    BY <1>3 DEF Render, RenderFails, ClearChallenges, FailLook, At, GoTo, case, tried,
       offered, SigningInv, TypeOK, Request, Preparing
  <2> QED
    BY <2>1, QuietStep DEF Preparing, Checked
<1>4. ASSUME NEW r \in Requests, LookupChallenge(r) \/ ReadFile(r) \/ Recheck(r)
      PROVE  Issued'
  <2>1. /\ UNCHANGED <<attempt, attempts, signature, challenges>>
        /\ \A s \in Requests : s # r => req'[s] = req[s]
        /\ req'[r].try = req[r].try /\ req'[r].user = req[r].user
        /\ req'[r].pc \in {"lapse", "read", "recheck", "commit"}
    BY <1>4 DEF LookupChallenge, ReadFile, Recheck, At, GoTo, case, tried,
       offered, SigningInv, TypeOK, Request
  <2>2. attempt[req[r].try].by = req[r].user
    BY <1>4 DEF LookupChallenge, ReadFile, Recheck, At, SigningInv, Issued,
       OwnAttempt, Checked
  <2>3. req'[r].pc = "commit" => Matches(req'[r].try, req'[r].seen)
    BY <1>4 DEF LookupChallenge, ReadFile, Recheck, At, GoTo, SigningInv, TypeOK, Request
  <2> QED
    BY <2>1, <2>2, <2>3, QuietStep DEF Preparing, Checked
<1>5. ASSUME NEW a \in Attempts, ChallengeExpires(a)
      PROVE  Issued'
  BY <1>5 DEF ChallengeExpires, case, tried, SigningInv, Issued, SignedAsIssued,
     ChallengeSpent, OwnAttempt, NotYetOffered, Signed, Matches
<1>6. CASE UNCHANGED vars
  BY <1>6 DEF vars, SigningInv, Issued, SignedAsIssued, ChallengeSpent, OwnAttempt,
     NotYetOffered, Signed, Matches
<1>7. ASSUME NEW r \in Requests, StartRequest(r)
      PROVE  Issued'
  BY <1>1, <1>7, PrepareSigning DEF StartRequest
<1> QED
  BY <1>2, <1>3, <1>4, <1>5, <1>6, <1>7, IssueSigning, CommitSigning
     DEF Next, ContinueRequest

\* Always, and whatever requests overlap, fail or restart: the invariant.
THEOREM SigningInvariant == Spec => []SigningInv
<1>1. Init => SigningInv
  BY InitSigning
<1>2. SigningInv /\ [Next]_vars => SigningInv'
  BY StepSigning
<1> QED
  BY <1>1, <1>2, PTL DEF Spec

\* A filed signature is the calling director's, and its manifest names the
\* very bytes their own attempt rendered (commit's digest comparison).
THEOREM SignatureCoversOneAttempt == Spec => []SignedAsIssued
<1>1. SigningInv => SignedAsIssued
  BY DEF SigningInv, Issued
<1> QED
  BY <1>1, SigningInvariant, PTL

\* The challenge of the signed attempt is gone for good: prepare creates it
\* once and commit uses it up.
THEOREM SignedChallengeSpent == Spec => []ChallengeSpent
<1>1. SigningInv => ChallengeSpent
  BY DEF SigningInv, Issued
<1> QED
  BY <1>1, SigningInvariant, PTL

-----------------------------------------------------------------------------
(* Action properties: what a step may do to a signed case or to an attempt *)
(* that is no longer on offer, action by action.                           *)

\* Only commit writes the signature, and only when there is none.
THEOREM SignatureNeverReplaced == Spec => SignatureFinal
<1>1. [Next]_vars => (Signed => signature' = signature)
  <2>1. ASSUME NEW r \in Requests, StartRequest(r)
        PROVE  signature' = signature
    BY <2>1 DEF StartRequest, PrepareLoad, CommitLoad, FailDrop, EditLoad, MoveLoad, case
  <2>2. ASSUME NEW r \in Requests, ContinueRequest(r), Signed
        PROVE  signature' = signature
    BY <2>2 DEF ContinueRequest, Render, RenderFails, UndoRender, ClearChallenges,
       IssueChallenge, LookupChallenge, LapseChallenge, ReadFile, Recheck, Commit,
       FailLook, FailRemove, EditSave, MoveSave, Abort, case
  <2>3. ASSUME NEW a \in Attempts, ChallengeExpires(a)
        PROVE  signature' = signature
    BY <2>3 DEF ChallengeExpires, case
  <2> QED
    BY <2>1, <2>2, <2>3 DEF Next, vars
<1> QED
  BY <1>1, PTL DEF Spec, SignatureFinal

\* What a request that begins does to the slots.
LEMMA StartSlots ==
  ASSUME TypeOK, NEW r \in Requests, StartRequest(r)
  PROVE  /\ \A s \in Requests : s # r => req'[s] = req[s]
         /\ req[r].pc = "idle"
         /\ req'[r].pc \in {"render", "lookup", "look", "edit", "move"}
<1> DEFINE Begun(q) == Begin(r, q) /\ q.pc \in {"render", "lookup", "look", "edit", "move"}
<1>1. \E q : Begun(q)
  <2>1. ASSUME NEW u \in Directors, PrepareLoad(r, u)
        PROVE  \E q : Begun(q)
    <3>1. Begun([Idle EXCEPT !.pc = "render", !.user = u, !.try = attempts'])
      BY <2>1 DEF PrepareLoad, Idle
    <3> QED
      BY <3>1
  <2>2. ASSUME NEW u \in Directors, NEW a \in challenges, CommitLoad(r, u, a)
        PROVE  \E q : Begun(q)
    <3>1. Begun([Idle EXCEPT !.pc = "lookup", !.user = u, !.try = a])
      BY <2>2 DEF CommitLoad, Idle
    <3> QED
      BY <3>1
  <2>3. ASSUME NEW a \in challenges \cup {0}, FailDrop(r, a)
        PROVE  \E q : Begun(q)
    <3>1. Begun([Idle EXCEPT !.pc = "look"])
      BY <2>3 DEF FailDrop, Idle
    <3> QED
      BY <3>1
  <2>4. CASE EditLoad(r)
    <3>1. Begun([Idle EXCEPT !.pc = "edit"])
      BY <2>4 DEF EditLoad, Idle
    <3> QED
      BY <3>1
  <2>5. ASSUME NEW to \in Statuses, MoveLoad(r, to)
        PROVE  \E q : Begun(q)
    <3>1. Begun([Idle EXCEPT !.pc = "move", !.to = to])
      BY <2>5 DEF MoveLoad, Idle
    <3> QED
      BY <3>1
  <2> QED
    BY <2>1, <2>2, <2>3, <2>4, <2>5 DEF StartRequest
<1> QED
  BY <1>1 DEF Begin, At, TypeOK

\* What a request that goes on does to the slots: one enters the checked part
\* of commit through the challenge's lookup only.
LEMMA ContinueSlots ==
  ASSUME TypeOK, NEW r \in Requests, ContinueRequest(r)
  PROVE  /\ \A s \in Requests : s # r => req'[s] = req[s]
         /\ req'[r].pc \in Checked => req'[r].try = req[r].try
         /\ req'[r].pc \in Checked /\ req[r].pc \notin Checked => LookupChallenge(r)
         /\ req'[r].pc \in {"render", "undo", "remove", "move", "edit"} =>
                req[r].pc = "render" \/ FailLook(r)
<1>1. CASE UndoRender(r) \/ IssueChallenge(r) \/ LapseChallenge(r) \/ Commit(r)
           \/ FailRemove(r) \/ EditSave(r) \/ MoveSave(r) \/ Abort(r)
  BY <1>1 DEF UndoRender, IssueChallenge, LapseChallenge, Commit, FailRemove, EditSave,
     MoveSave, Abort, Finish, Idle, TypeOK, Checked
<1>2. CASE Render(r) \/ RenderFails(r) \/ ClearChallenges(r)
  BY <1>2 DEF Render, RenderFails, ClearChallenges, At, GoTo, TypeOK, Request, Checked
<1>3. CASE LookupChallenge(r) \/ ReadFile(r) \/ Recheck(r) \/ FailLook(r)
  BY <1>3 DEF LookupChallenge, ReadFile, Recheck, FailLook, At, GoTo, TypeOK, Request,
     Checked
<1> QED
  BY <1>1, <1>2, <1>3 DEF ContinueRequest

\* Whoever joins the commits of attempt a does so by looking its challenge up.
LEMMA CommittingJoins ==
  ASSUME TypeOK, [Next]_vars, NEW a \in Attempts, NEW r \in Requests,
         r \in Committing(a)', r \notin Committing(a)
  PROVE  LookupChallenge(r) /\ req[r].try = a /\ req'[r].pc = "read"
<1>1. req'[r].pc \in Checked /\ req'[r].try = a /\ req'[r] # req[r]
  BY DEF Committing, Checked
<1>2. ASSUME NEW s \in Requests, StartRequest(s) PROVE FALSE
  BY <1>1, <1>2, StartSlots DEF Checked
<1>3. ASSUME NEW s \in Requests, ContinueRequest(s)
      PROVE  LookupChallenge(r) /\ req[r].try = a
  BY <1>1, <1>3, ContinueSlots DEF Committing, Checked
<1>4. ASSUME NEW b \in Attempts, ChallengeExpires(b) PROVE FALSE
  BY <1>1, <1>4 DEF ChallengeExpires
<1>5. LookupChallenge(r) /\ req[r].try = a
  BY <1>1, <1>2, <1>3, <1>4 DEF Next, vars
<1> QED
  BY <1>1, <1>5 DEF LookupChallenge, GoTo, TypeOK, Request, Checked

\* An attempt out of time or withdrawn (by a newer prepare, a failure report
\* or an earlier commit) is signed only by a commit that was already past the
\* lookup, and once it is withdrawn by none.
THEOREM LateAttemptsSettle == Spec => ExpiredAttemptsSettle
<1> DEFINE Settles(a) ==
      /\ a \in expired => Committing(a)' \subseteq Committing(a)
      /\ a \notin challenges => Committing(a)' \subseteq Committing(a)
      /\ (~Signed /\ (a \notin challenges
                      \/ (a \in expired /\ Committing(a) = {}))) =>
            signature'.digest # a
<1>1. TypeOK /\ [Next]_vars => \A a \in Attempts : Settles(a)
  <2> SUFFICES ASSUME TypeOK, [Next]_vars, NEW a \in Attempts PROVE Settles(a)
    OBVIOUS
  <2>1. (a \in expired \/ a \notin challenges) => Committing(a)' \subseteq Committing(a)
    <3> SUFFICES ASSUME a \in expired \/ a \notin challenges, NEW r \in Requests,
                        r \in Committing(a)', r \notin Committing(a)
                 PROVE  FALSE
      BY DEF Committing
    <3>1. LookupChallenge(r) /\ req[r].try = a /\ req'[r].pc = "read"
      BY CommittingJoins
    <3> QED
      BY <3>1 DEF LookupChallenge, GoTo, TypeOK, Request
  <2>2. ASSUME ~Signed, signature'.digest = a
        PROVE  a \in challenges /\ Committing(a) # {}
    <3>1. signature' # signature
      BY <2>2, BoundsAssumption DEF Signed, NoSignature, Attempts
    <3>2. PICK r \in Requests : Commit(r)
      <4>1. ASSUME NEW r \in Requests, StartRequest(r)
            PROVE  signature' = signature
        BY <4>1 DEF StartRequest, PrepareLoad, CommitLoad, FailDrop, EditLoad, MoveLoad, case
      <4>2. ASSUME NEW r \in Requests, ContinueRequest(r), ~Commit(r)
            PROVE  signature' = signature
        BY <4>2 DEF ContinueRequest, Render, RenderFails, UndoRender, ClearChallenges,
           IssueChallenge, LookupChallenge, LapseChallenge, ReadFile, Recheck,
           FailLook, FailRemove, EditSave, MoveSave, Abort, case
      <4>3. ASSUME NEW b \in Attempts, ChallengeExpires(b)
            PROVE  signature' = signature
        BY <4>3 DEF ChallengeExpires, case
      <4> QED
        BY <3>1, <4>1, <4>2, <4>3 DEF Next, vars
    <3>3. req[r].try = a /\ req[r].pc = "commit" /\ a \in challenges
      BY <2>2, <3>2 DEF Commit, At
    <3> QED
      BY <3>3 DEF Committing
  <2> QED
    BY <2>1, <2>2
<1> QED
  BY <1>1, TypeCorrect, PTL DEF Spec, ExpiredAttemptsSettle

\* A finalized, signed case is changed only by what had read it before: no
\* handler that begins on it may still write files, requisites or status.
THEOREM SignedCasesSettle == Spec => SignedCaseSettles
<1> DEFINE Settles == Signed /\ status = "FINALIZED" =>
      /\ Disturbing' \subseteq Disturbing
      /\ Disturbing = {} => UNCHANGED <<file, requisites, status>>
<1>1. TypeOK /\ [Next]_vars => Settles
  <2> SUFFICES ASSUME TypeOK, [Next]_vars, Signed, status = "FINALIZED"
               PROVE  /\ Disturbing' \subseteq Disturbing
                      /\ Disturbing = {} => UNCHANGED <<file, requisites, status>>
    OBVIOUS
  <2>1. ASSUME NEW r \in Requests, StartRequest(r)
        PROVE  /\ Disturbing' \subseteq Disturbing
               /\ UNCHANGED <<file, requisites, status>>
    <3>1. req'[r].pc \in {"lookup", "look"} /\ UNCHANGED <<file, requisites, status>>
      BY <2>1 DEF StartRequest, PrepareLoad, CommitLoad, FailDrop, EditLoad, MoveLoad,
         Begin, Idle, TypeOK, Signable, Edges, case
    <3> QED
      BY <2>1, <3>1, StartSlots DEF Disturbing
  <2>2. ASSUME NEW r \in Requests, ContinueRequest(r)
        PROVE  /\ Disturbing' \subseteq Disturbing
               /\ Disturbing = {} => UNCHANGED <<file, requisites, status>>
    <3>1. Disturbing' \subseteq Disturbing
      BY <2>2, ContinueSlots DEF Disturbing, FailLook
    <3>2. CASE Render(r) \/ UndoRender(r) \/ FailRemove(r) \/ EditSave(r) \/ MoveSave(r)
      <4>1. r \in Disturbing
        BY <3>2 DEF Render, UndoRender, FailRemove, EditSave, MoveSave, At, Disturbing
      <4> QED
        BY <3>1, <4>1
    <3>3. CASE RenderFails(r) \/ ClearChallenges(r) \/ IssueChallenge(r)
               \/ LookupChallenge(r) \/ LapseChallenge(r) \/ ReadFile(r)
               \/ Recheck(r) \/ Commit(r) \/ FailLook(r) \/ Abort(r)
      BY <3>1, <3>3 DEF RenderFails, ClearChallenges, IssueChallenge, LookupChallenge,
         LapseChallenge, ReadFile, Recheck, Commit, FailLook, Abort, case
    <3> QED
      BY <2>2, <3>2, <3>3 DEF ContinueRequest
  <2>3. ASSUME NEW a \in Attempts, ChallengeExpires(a)
        PROVE  UNCHANGED <<file, requisites, status, req>>
    BY <2>3 DEF ChallengeExpires, case
  <2> QED
    BY <2>1, <2>2, <2>3 DEF Next, vars, Disturbing
<1> QED
  BY <1>1, TypeCorrect, PTL DEF Spec, SignedCaseSettles

-----------------------------------------------------------------------------
(* As long as no two requests on the case have overlapped there is at most *)
(* one in flight; what it has read still holds when it uses it, a          *)
(* challenge is issued into an empty table, and what may write files or    *)
(* the status has found the case unsigned.                                 *)

\* What the request in flight has read is still so.
StillReads(r) == LET q == req[r] IN
    /\ q.pc = "issue" => challenges = {}
    /\ q.pc = "lookup" => q.doc = 1
    /\ q.pc = "read" => \A d \in DocKeys : d < q.doc => q.seen[d] = file[d]
    /\ q.pc \in {"recheck", "commit"} => q.seen = file
    /\ q.pc \in {"render", "undo", "remove", "move"} => ~Signed

SerialInv ==
    ~overlapped =>
        /\ \A r, s \in Requests : req[r].pc # "idle" /\ req[s].pc # "idle" => r = s
        /\ \A r \in Requests : StillReads(r)
        /\ \A a, b \in challenges : a = b
        /\ Signed => status = "FINALIZED" /\ signature.manifest = file

\* Nothing is in flight, and nothing is signed.
LEMMA InitSerial == Init => SerialInv
  BY DEF Init, SerialInv, StillReads, Idle, Signed

\* A request begins: it is the only one, or the requests overlap from now on.
LEMMA BeginSerial ==
  ASSUME TypeOK, SerialInv, NEW r \in Requests, NEW q, Begin(r, q),
         UNCHANGED <<status, signature, file>>, challenges' \subseteq challenges,
         q.pc \in {"render", "lookup", "look", "edit", "move"}, q.doc = 1,
         ~overlapped /\ q.pc \in {"render", "move"} => ~Signed
  PROVE  SerialInv'
<1> SUFFICES ASSUME ~overlapped' PROVE SerialInv'
  BY DEF SerialInv
<1>1. ~overlapped /\ \A s \in Requests : req[s].pc = "idle"
  BY Zenon DEF Begin, At
<1>2. req'[r] = q /\ \A s \in Requests : s # r => req'[s] = req[s]
  BY DEF Begin, TypeOK
<1>3. Signed' = Signed
  BY DEF Signed
<1>4. \A s \in Requests : StillReads(s)'
  BY <1>1, <1>2, <1>3 DEF StillReads
<1> QED
  BY <1>1, <1>2, <1>3, <1>4 DEF SerialInv

\* A request goes on: only what it touches itself has to be looked at.
LEMMA GoOnSerial ==
  ASSUME SerialInv, NEW r \in Requests, req[r].pc # "idle",
         UNCHANGED overlapped, \A s \in Requests : s # r => req'[s] = req[s],
         ~overlapped =>
            /\ StillReads(r)'
            /\ \A a, b \in challenges' : a = b
            /\ Signed' => status' = "FINALIZED" /\ signature'.manifest = file'
  PROVE  SerialInv'
<1> SUFFICES ASSUME ~overlapped PROVE SerialInv'
  BY DEF SerialInv
<1>1. \A s \in Requests : s # r => req[s].pc = "idle" /\ req'[s].pc = "idle"
  BY DEF SerialInv
<1>2. \A s \in Requests : StillReads(s)'
  <2> SUFFICES ASSUME NEW s \in Requests, s # r PROVE StillReads(s)'
    OBVIOUS
  <2> QED
    BY <1>1 DEF StillReads
<1> QED
  BY <1>1, <1>2 DEF SerialInv

\* A request that begins alone knows what the rows say.
LEMMA StartSerial ==
  ASSUME TypeOK, SerialInv, NEW r \in Requests, StartRequest(r)
  PROVE  SerialInv'
<1>1. ~overlapped /\ Signed => status = "FINALIZED"
  BY DEF SerialInv
<1>2. ASSUME NEW u \in Directors, PrepareLoad(r, u) PROVE SerialInv'
  <2> DEFINE q == [Idle EXCEPT !.pc = "render", !.user = u, !.try = attempts']
  <2>1. /\ Begin(r, q) /\ status = "DIRECTOR_REVIEW"
        /\ UNCHANGED <<status, signature, file, challenges>>
    BY <1>2 DEF PrepareLoad, Signable, case, offered
  <2>2. q.pc = "render" /\ q.doc = 1
    BY DEF Idle
  <2> HIDE DEF q
  <2> QED
    BY <1>1, <2>1, <2>2, BeginSerial
<1>3. ASSUME NEW u \in Directors, NEW a \in challenges, CommitLoad(r, u, a) PROVE SerialInv'
  <2> DEFINE q == [Idle EXCEPT !.pc = "lookup", !.user = u, !.try = a]
  <2>1. Begin(r, q) /\ UNCHANGED <<status, signature, file, challenges>>
    BY <1>3 DEF CommitLoad, case, offered
  <2>2. q.pc = "lookup" /\ q.doc = 1
    BY DEF Idle
  <2> HIDE DEF q
  <2> QED
    BY <2>1, <2>2, BeginSerial
<1>4. ASSUME NEW a \in challenges \cup {0}, FailDrop(r, a) PROVE SerialInv'
  <2> DEFINE q == [Idle EXCEPT !.pc = "look"]
  <2>1. /\ Begin(r, q) /\ UNCHANGED <<status, signature, file>>
        /\ challenges' \subseteq challenges
    BY <1>4 DEF FailDrop, case
  <2>2. q.pc = "look" /\ q.doc = 1
    BY DEF Idle
  <2> HIDE DEF q
  <2> QED
    BY <2>1, <2>2, BeginSerial
<1>5. ASSUME EditLoad(r) PROVE SerialInv'
  <2> DEFINE q == [Idle EXCEPT !.pc = "edit"]
  <2>1. Begin(r, q) /\ UNCHANGED <<status, signature, file, challenges>>
    BY <1>5 DEF EditLoad, case, offered
  <2>2. q.pc = "edit" /\ q.doc = 1
    BY DEF Idle
  <2> HIDE DEF q
  <2> QED
    BY <2>1, <2>2, BeginSerial
<1>6. ASSUME NEW to \in Statuses, MoveLoad(r, to) PROVE SerialInv'
  <2> DEFINE q == [Idle EXCEPT !.pc = "move", !.to = to]
  <2>1. /\ Begin(r, q) /\ status # "FINALIZED"
        /\ UNCHANGED <<status, signature, file, challenges>>
    BY <1>6 DEF MoveLoad, Edges, case, offered
  <2>2. q.pc = "move" /\ q.doc = 1
    BY DEF Idle
  <2> HIDE DEF q
  <2> QED
    BY <1>1, <2>1, <2>2, BeginSerial
<1> QED
  BY <1>2, <1>3, <1>4, <1>5, <1>6 DEF StartRequest

\* A request that goes on alone finds the rows as it left them.
LEMMA ContinueSerial ==
  ASSUME TypeOK, SerialInv, NEW r \in Requests, ContinueRequest(r)
  PROVE  SerialInv'
<1>1. req \in [Requests -> Request] /\ req[r] \in Request /\ file \in Files
  BY DEF TypeOK
<1>2. ~overlapped =>
         /\ StillReads(r)
         /\ \A a, b \in challenges : a = b
         /\ Signed => status = "FINALIZED" /\ signature.manifest = file
  BY DEF SerialInv
<1>3. CASE UndoRender(r) \/ FailRemove(r)
  <2>1. /\ req[r].pc \in {"undo", "remove"} /\ req'[r].pc = "idle"
        /\ \A s \in Requests : s # r => req'[s] = req[s]
        /\ UNCHANGED <<status, signature, challenges, overlapped>>
    BY <1>1, <1>3 DEF UndoRender, FailRemove, At, Finish, Idle, case, offered
  <2>2. ~overlapped => ~Signed'
    BY <1>2, <2>1 DEF StillReads, Signed
  <2> QED
    BY <1>2, <2>1, <2>2, GoOnSerial DEF StillReads
<1>4. CASE LapseChallenge(r) \/ EditSave(r) \/ Abort(r)
  <2>1. /\ req[r].pc # "idle" /\ req'[r].pc = "idle"
        /\ \A s \in Requests : s # r => req'[s] = req[s]
        /\ challenges' \subseteq challenges
        /\ UNCHANGED <<status, signature, file, overlapped>>
    BY <1>1, <1>4 DEF LapseChallenge, EditSave, Abort, At, Finish, Idle, case, offered
  <2>2. Signed' = Signed
    BY <2>1 DEF Signed
  <2> QED
    BY <1>2, <2>1, <2>2, GoOnSerial DEF StillReads
<1>5. CASE MoveSave(r)
  <2>1. /\ req[r].pc = "move" /\ req'[r].pc = "idle"
        /\ \A s \in Requests : s # r => req'[s] = req[s]
        /\ UNCHANGED <<signature, file, challenges, overlapped>>
    BY <1>1, <1>5 DEF MoveSave, At, Finish, Idle, offered
  <2>2. ~overlapped => ~Signed'
    BY <1>2, <2>1 DEF StillReads, Signed
  <2> QED
    BY <1>2, <2>1, <2>2, GoOnSerial DEF StillReads
<1>6. CASE IssueChallenge(r)
  <2>1. /\ req[r].pc = "issue" /\ req'[r].pc = "idle"
        /\ \A s \in Requests : s # r => req'[s] = req[s]
        /\ challenges' = challenges \cup {req[r].try}
        /\ UNCHANGED <<status, signature, file, overlapped>>
    BY <1>1, <1>6 DEF IssueChallenge, At, Finish, Idle, case
  <2>2. ~overlapped => challenges' = {req[r].try}
    BY <1>2, <2>1 DEF StillReads
  <2>3. Signed' = Signed
    BY <2>1 DEF Signed
  <2> QED
    BY <1>2, <2>1, <2>2, <2>3, GoOnSerial DEF StillReads
<1>7. CASE Commit(r)
  <2>1. /\ req[r].pc = "commit" /\ req'[r].pc = "idle"
        /\ \A s \in Requests : s # r => req'[s] = req[s]
        /\ status' = "FINALIZED" /\ signature'.manifest = req[r].seen
        /\ challenges' \subseteq challenges
        /\ UNCHANGED <<file, overlapped>>
    BY <1>1, <1>7 DEF Commit, At, Finish, Idle
  <2>2. ~overlapped => req[r].seen = file
    BY <1>2, <2>1 DEF StillReads
  <2> QED
    BY <1>2, <2>1, <2>2, GoOnSerial DEF StillReads
<1>8. CASE Render(r)
  <2> PICK pc \in {"clear", "render"} : pc = IF req[r].doc = Docs THEN "clear" ELSE "render"
    OBVIOUS
  <2> DEFINE q == [req[r] EXCEPT !.doc = @ + 1, !.pc = pc]
  <2>1. /\ req[r].pc = "render" /\ req' = [req EXCEPT ![r] = q]
        /\ UNCHANGED <<status, signature, challenges, overlapped>>
    BY <1>1, <1>8 DEF Render, At, case, offered
  <2>2. q.pc = pc
    BY <1>1 DEF Request
  <2> HIDE DEF q
  <2>3. req'[r].pc = pc /\ \A s \in Requests : s # r => req'[s] = req[s]
    BY <1>1, <2>1, <2>2
  <2>4. ~overlapped => ~Signed'
    BY <1>2, <2>1 DEF StillReads, Signed
  <2>5. ~overlapped => StillReads(r)'
    BY <2>3, <2>4 DEF StillReads
  <2> QED
    BY <1>2, <2>1, <2>3, <2>4, <2>5, GoOnSerial
<1>9. CASE RenderFails(r) \/ ClearChallenges(r) \/ LookupChallenge(r) \/ Recheck(r) \/ FailLook(r)
  <2>1. PICK pc \in {"undo", "issue", "lapse", "read", "commit", "remove"} :
           GoTo(r, pc)
    BY <1>9 DEF RenderFails, ClearChallenges, LookupChallenge, Recheck, FailLook
  <2> DEFINE q == [req[r] EXCEPT !.pc = pc]
  <2>2. req' = [req EXCEPT ![r] = q] /\ UNCHANGED overlapped
    BY <1>1, <2>1 DEF GoTo
  <2>3. q.pc = pc /\ q.doc = req[r].doc /\ q.seen = req[r].seen
    BY <1>1 DEF Request
  <2> HIDE DEF q
  <2>4. /\ req'[r].pc = pc /\ req'[r].doc = req[r].doc /\ req'[r].seen = req[r].seen
        /\ \A s \in Requests : s # r => req'[s] = req[s]
    BY <1>1, <2>2, <2>3
  <2>5. /\ req[r].pc # "idle" /\ UNCHANGED <<status, signature, file>>
        /\ challenges' \subseteq challenges
    BY <1>9 DEF RenderFails, ClearChallenges, LookupChallenge, Recheck, FailLook, At, case, offered
  <2>6. Signed' = Signed
    BY <2>5 DEF Signed
  <2>7. ~overlapped => StillReads(r)'
    <3>1. CASE RenderFails(r)
      BY <1>2, <2>4, <2>6, <3>1 DEF RenderFails, At, GoTo, StillReads
    <3>2. CASE ClearChallenges(r)
      BY <1>1, <2>4, <3>2 DEF ClearChallenges, GoTo, StillReads, Request
    <3>3. CASE LookupChallenge(r)
      <4>1. req'[r].pc \in {"lapse", "read"}
        BY <1>1, <3>3 DEF LookupChallenge, GoTo, Request
      <4> QED
        BY <1>2, <4>1, <2>4, <2>5, <3>3 DEF LookupChallenge, At, StillReads, DocKeys
    <3>4. CASE Recheck(r)
      <4>1. req'[r].pc = "commit" /\ req[r].pc = "recheck"
        BY <1>1, <3>4 DEF Recheck, At, GoTo, Request
      <4> QED
        BY <1>2, <4>1, <2>4, <2>5 DEF StillReads
    <3>5. CASE FailLook(r)
      <4>1. req'[r].pc = "remove" /\ ~Signed
        BY <1>1, <3>5 DEF FailLook, GoTo, Request
      <4> QED
        BY <4>1, <2>6 DEF StillReads
    <3> QED
      BY <1>9, <3>1, <3>2, <3>3, <3>4, <3>5
  <2> QED
    BY <1>2, <2>2, <2>4, <2>5, <2>6, <2>7, GoOnSerial
<1>10. CASE ReadFile(r)
  <2> PICK pc \in {"recheck", "read"} : pc = IF req[r].doc = Docs THEN "recheck" ELSE "read"
    OBVIOUS
  <2> DEFINE seen == [req[r].seen EXCEPT ![req[r].doc] = file[req[r].doc]]
             q == [req[r] EXCEPT !.seen = seen, !.doc = @ + 1, !.pc = pc]
  <2>1. /\ req[r].pc = "read" /\ req[r].doc \in DocKeys
        /\ req' = [req EXCEPT ![r] = q]
        /\ UNCHANGED <<status, signature, file, challenges, overlapped>>
    BY <1>1, <1>10 DEF ReadFile, At, case, offered, Request
  <2>2. /\ q.pc = pc /\ q.doc = req[r].doc + 1 /\ q.seen = seen
    BY <1>1 DEF Request
  <2>3. req[r].seen \in Files
    BY <1>1 DEF Request
  <2>4. /\ seen \in Files /\ seen[req[r].doc] = file[req[r].doc]
        /\ \A d \in DocKeys : d # req[r].doc => seen[d] = req[r].seen[d]
    BY <1>1, <2>1, <2>3 DEF Files
  <2> HIDE DEF q, seen
  <2>5. /\ req'[r].pc = pc /\ req'[r].doc = req[r].doc + 1 /\ req'[r].seen = seen
        /\ \A s \in Requests : s # r => req'[s] = req[s]
    BY <1>1, <2>1, <2>2
  <2>6. ASSUME ~overlapped, NEW d \in DocKeys, d < req[r].doc + 1 PROVE seen[d] = file[d]
    <3>1. d < req[r].doc \/ d = req[r].doc
      BY <2>1, <2>6 DEF DocKeys
    <3>2. d < req[r].doc => req[r].seen[d] = file[d] /\ d # req[r].doc
      BY <1>2, <2>1, <2>6 DEF StillReads, DocKeys
    <3> QED
      BY <2>4, <3>1, <3>2
  <2>7. ~overlapped /\ pc = "recheck" => seen = file
    <3> SUFFICES ASSUME ~overlapped, req[r].doc = Docs PROVE seen = file
      OBVIOUS
    <3>1. \A d \in DocKeys : seen[d] = file[d]
      BY <2>6, DocsAssumption DEF DocKeys
    <3> QED
      BY <1>1, <2>4, <3>1 DEF Files
  <2>8. ~overlapped => StillReads(r)'
    BY <2>1, <2>5, <2>6, <2>7 DEF StillReads
  <2>9. Signed' = Signed
    BY <2>1 DEF Signed
  <2> QED
    BY <1>2, <2>1, <2>5, <2>8, <2>9, GoOnSerial
<1> QED
  BY <1>3, <1>4, <1>5, <1>6, <1>7, <1>8, <1>9, <1>10 DEF ContinueRequest

\* The invariant holds throughout, as both theorems below need.
LEMMA SerialAlways == Spec => []SerialInv
<1>1. TypeOK /\ SerialInv /\ [Next]_vars => SerialInv'
  <2> SUFFICES ASSUME TypeOK, SerialInv, [Next]_vars PROVE SerialInv'
    OBVIOUS
  <2>1. ASSUME NEW a \in Attempts, ChallengeExpires(a) PROVE SerialInv'
    BY <2>1 DEF ChallengeExpires, case, SerialInv, StillReads, Signed
  <2>2. CASE UNCHANGED vars
    BY <2>2 DEF vars, SerialInv, StillReads, Signed
  <2> QED
    BY <2>1, <2>2, StartSerial, ContinueSerial DEF Next
<1> QED
  BY <1>1, InitSerial, TypeCorrect, PTL DEF Spec

\* What getPdf answers for a signed case is, document for document, the bytes
\* the signature covers, as long as no two requests on the case overlapped:
\* prepare, commit and fail in any order, cut off anywhere.
THEOREM IssuedIsSigned == Spec => []IssuedUnlessOverlapped
<1>1. SigningInv /\ SerialInv => IssuedUnlessOverlapped
  <2> SUFFICES ASSUME SigningInv, SerialInv, ~overlapped, Signed, NEW d \in DocKeys
               PROVE  Served(d) = signature.manifest[d]
    BY DEF IssuedUnlessOverlapped, IssuedAsSigned
  <2>1. signature.manifest = file
    BY DEF SerialInv
  <2>2. file[d] = signature.digest /\ signature.digest \in 1..attempts
    BY <2>1 DEF SigningInv, Issued, SignedAsIssued, Matches
  <2>3. file[d] # 0
    BY <2>2, BoundsAssumption DEF SigningInv, TypeOK
  <2> QED
    BY <2>1, <2>3 DEF Served
<1> QED
  BY <1>1, SigningInvariant, SerialAlways, PTL

\* One live attempt per case, as long as prepare's two statements, the
\* deletion of the old challenges and the creation of the new one, are not
\* interleaved with those of another request.
THEOREM OneAttemptLives == Spec => []OneLiveUnlessOverlapped
<1>1. SerialInv => OneLiveUnlessOverlapped
  <2> SUFFICES ASSUME \A a, b \in challenges : a = b PROVE Cardinality(challenges) <= 1
    BY DEF SerialInv, OneLiveUnlessOverlapped
  <2>1. CASE challenges = {}
    BY <2>1, FS_EmptySet
  <2>2. CASE challenges # {}
    <3>1. PICK a : challenges = {a}
      BY <2>2
    <3> QED
      BY <3>1, FS_Singleton
  <2> QED
    BY <2>1, <2>2
<1> QED
  BY <1>1, SerialAlways, PTL
=============================================================================
