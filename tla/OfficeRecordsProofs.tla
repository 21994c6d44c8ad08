------------------------ MODULE OfficeRecordsProofs -------------------------
(***************************************************************************)
(* Proofs about three more of the office's components, laid out like those *)
(* of OfficeProofs: reminders, messages, documents. They hold for any      *)
(* collectors, users, message slots, documents, files and requests. What a *)
(* request has read is part of each invariant: as long as nothing that the *)
(* property excuses has happened, it describes the rows.                   *)
(***************************************************************************)
EXTENDS Office, TLAPS

-----------------------------------------------------------------------------
(* CollectionReminders.                                                    *)
\* A step of the office is one of the reminders, or leaves them alone.
LEMMA ReminderSteps ==
    ASSUME [OfficeNext]_officeVars
    PROVE  part' = part /\ (part = "reminders" => [Reminders!Next]_tVars)
  <1>1. CASE UNCHANGED officeVars
    BY <1>1 DEF officeVars, tVars
  <1>2. CASE OfficeNext
    BY <1>2 DEF OfficeNext, IdleBut, tVars
  <1> QED BY <1>1, <1>2

\* A run of check is at work on the collection.
Running == tJob.pc # "idle"

\* Nothing of what E names has happened.
Without(E) == tExcuse \cap E = {}

\* A set flag has its notice, also while the notice waits for its flag.
FlagsTold ==
    Without({"gap", "slid", "swallowed"}) =>
        /\ tCol.over => "OVER" \in tTold
        /\ tCol.soon => tTold # {}
        /\ tJob.pc = "flag" => tJob.kind \in tTold

\* A notice has its flag, or is the one the run of check is about to flag.
ToldFlagged ==
    Without({"gap", "cut"}) =>
        /\ "OVER" \in tTold => tCol.over \/ (tJob.pc = "flag" /\ tJob.kind = "OVER")
        /\ tTold # {} => tCol.soon \/ tJob.pc = "flag"

\* The invariant; a run has read the row as it is, unless there is a gap.
FlagInv ==
    /\ Reminders!TypeOK
    /\ Running => tJob.kind \in {"SOON", "OVER"}
    /\ Running /\ "gap" \notin tExcuse => Reminders!Same(tJob.row, tCol)
    /\ FlagsTold
    /\ ToldFlagged

\* A new collection has no flags, and nobody was told.
LEMMA FlagInit == ASSUME Reminders!Init PROVE FlagInv
  <1>1. PICK c \in Collectors \cup {Nobody}, n \in DueDays : tCol = Reminders!Fresh(c, n, 0)
    BY DEF Reminders!Init
  <1>2. Reminders!TypeOK
    BY <1>1, DaysAssumption DEF Reminders!Init, Reminders!TypeOK, Reminders!Rows, Reminders!Fresh, Reminders!NoJob,
       Reminders!NoWrite, Reminders!Keep
  <1>3. ~tCol.over /\ ~tCol.soon
    BY <1>1, Zenon DEF Reminders!Fresh
  <1>4. tTold = {} /\ tExcuse = {} /\ tJob.pc = "idle"
    BY DEF Reminders!Init, Reminders!NoJob
  <1>5. FlagsTold
    BY <1>3, <1>4, Zenon DEF FlagsTold
  <1>6. ToldFlagged
    BY <1>4 DEF ToldFlagged
  <1> QED BY <1>2, <1>4, <1>5, <1>6 DEF FlagInv, Running

\* Every step of the reminders keeps the invariant.
LEMMA FlagStep ==
    ASSUME FlagInv, [Reminders!Next]_tVars
    PROVE  FlagInv'
  <1>1. CASE Reminders!NextDay \/ UNCHANGED tVars
    <2>1. UNCHANGED <<tCol, tReq, tJob, tTold, tExcuse>>
      BY <1>1 DEF Reminders!NextDay, tVars
    <2>2. Reminders!TypeOK'
      BY <1>1, <2>1, DaysAssumption DEF FlagInv, Reminders!TypeOK, Reminders!Rows, Reminders!NextDay, tVars
    <2> QED BY <2>1, <2>2 DEF FlagInv, Running, FlagsTold, ToldFlagged, Without, Reminders!Same, Reminders!Deadline
  <1>2. CASE Reminders!Close
    <2>1. tCol' = [tCol EXCEPT !.closed = ~@] /\ UNCHANGED <<tToday, tReq, tJob, tTold, tExcuse>>
      BY <1>2 DEF Reminders!Close
    <2>2. tCol \in Reminders!Rows
      BY DEF FlagInv, Reminders!TypeOK
    <2>3. tCol' \in Reminders!Rows
      BY <2>1, <2>2, Zenon DEF Reminders!Rows
    <2>4. /\ tCol'.over = tCol.over /\ tCol'.soon = tCol.soon /\ tCol'.collector = tCol.collector
          /\ tCol'.anchor = tCol.anchor /\ tCol'.due = tCol.due
      BY <2>1, <2>2, Zenon DEF Reminders!Rows
    <2>5. Reminders!TypeOK'
      BY <2>1, <2>3, <2>4 DEF FlagInv, Reminders!TypeOK
    <2>6. FlagsTold' /\ ToldFlagged'
      BY <2>1, <2>4, Zenon DEF FlagInv, FlagsTold, ToldFlagged, Without
    <2> QED BY <2>1, <2>4, <2>5, <2>6 DEF FlagInv, Running, Reminders!Same, Reminders!Deadline
  <1>3. CASE Reminders!JobRead
    <2>1. /\ tJob.pc = "idle" /\ Reminders!Due(tCol) # "NONE"
          /\ tJob' = [pc |-> "fire", kind |-> Reminders!Due(tCol), row |-> tCol]
          /\ UNCHANGED <<tToday, tCol, tReq, tTold, tExcuse>>
      BY <1>3 DEF Reminders!JobRead
    <2>2. Reminders!Due(tCol) \in {"SOON", "OVER"}
      BY <2>1, Zenon DEF Reminders!Due
    <2>3. tJob'.pc = "fire" /\ tJob'.kind \in {"SOON", "OVER"} /\ tJob'.row = tCol
      BY <2>1, <2>2
    <2>4. Reminders!TypeOK'
      BY <2>1, <2>2 DEF FlagInv, Reminders!TypeOK
    <2>5. FlagsTold' /\ ToldFlagged'
      BY <2>1, <2>3 DEF FlagInv, FlagsTold, ToldFlagged, Without
    <2> QED BY <2>1, <2>3, <2>4, <2>5 DEF FlagInv, Reminders!Same, Reminders!Deadline
  <1>4. CASE Reminders!JobFire
    <2>1. /\ tJob.pc = "fire" /\ tJob' = [tJob EXCEPT !.pc = "flag"]
          /\ tTold' = IF Reminders!Same(tJob.row, tCol) THEN tTold \cup {tJob.kind} ELSE tTold
          /\ UNCHANGED <<tToday, tCol, tReq, tExcuse>>
      BY <1>4 DEF Reminders!JobFire
    <2>2. tJob'.pc = "flag" /\ tJob'.kind = tJob.kind /\ tJob'.row = tJob.row /\ tJob.kind \in {"SOON", "OVER"}
      BY <2>1 DEF FlagInv, Reminders!TypeOK, Running
    <2>3. Reminders!TypeOK'
      BY <2>1, <2>2 DEF FlagInv, Reminders!TypeOK
    <2>4. "gap" \notin tExcuse => tTold' = tTold \cup {tJob.kind}
      BY <2>1 DEF FlagInv, Running
    <2>5. FlagsTold'
      BY <2>1, <2>2, <2>4 DEF FlagInv, FlagsTold, Without
    <2>6. ToldFlagged'
      BY <2>1, <2>2, <2>4 DEF FlagInv, ToldFlagged, Without
    <2> QED BY <2>1, <2>2, <2>3, <2>5, <2>6 DEF FlagInv, Running, Reminders!Same, Reminders!Deadline
  <1>5. CASE Reminders!JobFireFails
    <2>1. /\ tJob.pc = "fire" /\ tJob' = [tJob EXCEPT !.pc = "flag"] /\ tExcuse' = tExcuse \cup {"swallowed"}
          /\ UNCHANGED <<tToday, tCol, tReq, tTold>>
      BY <1>5 DEF Reminders!JobFireFails
    <2>2. tJob'.pc = "flag" /\ tJob'.kind = tJob.kind /\ tJob'.row = tJob.row /\ tJob.kind \in {"SOON", "OVER"}
      BY <2>1 DEF FlagInv, Reminders!TypeOK, Running
    <2>3. Reminders!TypeOK'
      BY <2>1, <2>2 DEF FlagInv, Reminders!TypeOK
    <2>4. FlagsTold'
      BY <2>1 DEF FlagsTold, Without
    <2>5. ToldFlagged'
      BY <2>1, <2>2 DEF FlagInv, ToldFlagged, Without
    <2> QED BY <2>1, <2>2, <2>3, <2>4, <2>5 DEF FlagInv, Running, Reminders!Same, Reminders!Deadline
  <1>6. CASE Reminders!JobFlag
    <2>1. /\ tJob.pc = "flag" /\ tCol' = [tCol EXCEPT !.soon = TRUE, !.over = (@ \/ tJob.kind = "OVER")]
          /\ tJob' = Reminders!NoJob /\ UNCHANGED <<tToday, tReq, tTold, tExcuse>>
      BY <1>6 DEF Reminders!JobFlag
    <2>2. tCol \in Reminders!Rows
      BY DEF FlagInv, Reminders!TypeOK
    <2>3. tCol' \in Reminders!Rows
      BY <2>1, <2>2, Zenon DEF Reminders!Rows
    <2>4. /\ tCol'.over = (tCol.over \/ tJob.kind = "OVER") /\ tCol'.soon
          /\ tCol'.anchor = tCol.anchor /\ tCol'.due = tCol.due
      BY <2>1, <2>2, Zenon DEF Reminders!Rows
    <2>5. tJob'.pc = "idle" /\ tJob' \in [pc : {"idle", "fire", "flag"}, kind : {"NONE", "SOON", "OVER"}, row : Reminders!Rows]
      BY <2>1, DaysAssumption DEF Reminders!NoJob, Reminders!Fresh, Reminders!Rows
    <2>6. Reminders!TypeOK'
      BY <2>1, <2>3, <2>4, <2>5 DEF FlagInv, Reminders!TypeOK
    <2>7. FlagsTold'
      BY <2>1, <2>4, <2>5, Zenon DEF FlagInv, FlagsTold, Without
    <2>8. ToldFlagged'
      BY <2>1, <2>4, <2>5, Zenon DEF FlagInv, ToldFlagged, Without
    <2> QED BY <2>5, <2>6, <2>7, <2>8 DEF FlagInv, Running
  <1>7. CASE Reminders!Crash
    <2>1. /\ tExcuse' = IF tJob.pc = "flag" THEN tExcuse \cup {"cut"} ELSE tExcuse
          /\ tJob' = Reminders!NoJob /\ tReq' = [r \in Assigners |-> Reminders!NoWrite]
          /\ UNCHANGED <<tToday, tCol, tTold>>
      BY <1>7 DEF Reminders!Crash
    <2>2. tJob'.pc = "idle" /\ tJob' \in [pc : {"idle", "fire", "flag"}, kind : {"NONE", "SOON", "OVER"}, row : Reminders!Rows]
      BY <2>1, DaysAssumption DEF Reminders!NoJob, Reminders!Fresh, Reminders!Rows
    <2>3. Reminders!TypeOK'
      BY <2>1, <2>2 DEF FlagInv, Reminders!TypeOK, Reminders!NoWrite, Reminders!Keep
    <2>4. FlagsTold'
      BY <2>1, <2>2 DEF FlagInv, FlagsTold, Without
    <2>5. ToldFlagged'
      BY <2>1, <2>2 DEF FlagInv, ToldFlagged, Without
    <2> QED BY <2>2, <2>3, <2>4, <2>5 DEF FlagInv, Running
  <1>8. ASSUME NEW r \in Assigners, Reminders!UpdateRead(r) PROVE FlagInv'
    <2>1. UNCHANGED <<tToday, tCol, tJob, tTold, tExcuse>>
      BY <1>8 DEF Reminders!UpdateRead
    <2>2. Reminders!TypeOK'
      BY <1>8 DEF FlagInv, Reminders!TypeOK, Reminders!UpdateRead, Reminders!Rows
    <2> QED BY <2>1, <2>2 DEF FlagInv, Running, FlagsTold, ToldFlagged, Without, Reminders!Same, Reminders!Deadline
  <1>9. ASSUME NEW r \in Assigners, Reminders!UpdateWrite(r) PROVE FlagInv'
    <2>0. PICK q : q = tReq[r]
      OBVIOUS
    <2> DEFINE rearms == Reminders!Rearms(q)
               same   == Reminders!Same(tCol, Reminders!Written(q))
    <2>1. /\ tCol' = Reminders!Written(q) /\ tReq' = [tReq EXCEPT ![r] = Reminders!NoWrite] /\ UNCHANGED <<tToday, tJob>>
          /\ tTold' = IF rearms \/ ~same THEN {} ELSE tTold
          /\ tExcuse' = (IF rearms THEN {} ELSE tExcuse) \cup (IF tJob.pc # "idle" THEN {"gap"} ELSE {})
                        \cup (IF ~rearms /\ ~same THEN {"slid"} ELSE {})
      BY <1>9, <2>0 DEF Reminders!UpdateWrite
    <2>2. /\ tCol \in Reminders!Rows
          /\ q \in [active : BOOLEAN, held : Collectors \cup {Nobody},
                    collector : Collectors \cup {Nobody, "KEEP"}, due : DueDays \cup {0}]
      BY <2>0 DEF FlagInv, Reminders!TypeOK, Reminders!Keep
    <2>3. tCol' \in Reminders!Rows
      <3>1. /\ tCol.collector \in Collectors \cup {Nobody} /\ tCol.anchor \in 0..MaxDay
            /\ tCol.due \in DueDays \cup {0} /\ tCol.soon \in BOOLEAN /\ tCol.over \in BOOLEAN
        BY <2>2 DEF Reminders!Rows
      <3>2. /\ (IF q.collector = "KEEP" THEN tCol.collector ELSE q.collector) \in Collectors \cup {Nobody}
            /\ (IF q.collector = "KEEP" THEN tCol.anchor
                ELSE IF q.collector = Nobody THEN 0 ELSE tToday) \in 0..MaxDay
            /\ (IF q.due = 0 THEN tCol.due ELSE q.due) \in DueDays \cup {0}
        BY <2>2, <3>1, DaysAssumption DEF FlagInv, Reminders!TypeOK
      <3>3. /\ (IF rearms THEN FALSE ELSE tCol.soon) \in BOOLEAN
            /\ (IF rearms THEN FALSE ELSE tCol.over) \in BOOLEAN
        BY <3>1, Zenon
      <3> QED BY <2>1, <2>2, <3>2, <3>3, ZenonT(60) DEF Reminders!Written, Reminders!Rows, Reminders!Keep
    <2>4. /\ tCol'.over = (IF rearms THEN FALSE ELSE tCol.over) /\ tCol'.soon = (IF rearms THEN FALSE ELSE tCol.soon)
      BY <2>1, <2>2, Zenon DEF Reminders!Written, Reminders!Rows
    <2>5. tCol'.anchor <= tToday /\ tCol'.due # 0
      BY <2>1, <2>2, DaysAssumption DEF Reminders!Written, Reminders!Rows, Reminders!Keep, FlagInv, Reminders!TypeOK
    <2>6. Reminders!TypeOK'
      BY <2>1, <2>3, <2>5 DEF FlagInv, Reminders!TypeOK, Reminders!NoWrite, Reminders!Keep
    <2> HIDE DEF rearms, same
    <2>7. CASE tJob.pc # "idle"
      <3>1. "gap" \in tExcuse'
        BY <2>1, <2>7
      <3> QED BY <2>1, <2>6, <3>1 DEF FlagInv, FlagsTold, ToldFlagged, Without, Running
    <2>8. CASE tJob.pc = "idle"
      <3>1. FlagsTold'
        <4>1. CASE rearms
          BY <2>1, <2>4, <2>8, <4>1, Zenon DEF FlagsTold
        <4>2. CASE ~rearms /\ ~same
          BY <2>1, <4>2 DEF FlagsTold, Without
        <4>3. CASE ~rearms /\ same
          <5>1. tExcuse' = tExcuse /\ tTold' = tTold /\ tJob' = tJob
            BY <2>1, <2>8, <4>3
          <5> QED BY <2>4, <4>3, <5>1, Zenon DEF FlagInv, FlagsTold, Without
        <4> QED BY <4>1, <4>2, <4>3
      <3>2. ToldFlagged'
        <4>1. CASE rearms \/ ~same
          BY <2>1, <4>1 DEF ToldFlagged
        <4>2. CASE ~rearms /\ same
          <5>1. tExcuse' = tExcuse /\ tTold' = tTold /\ tJob' = tJob
            BY <2>1, <2>8, <4>2
          <5> QED BY <2>4, <4>2, <5>1, Zenon DEF FlagInv, ToldFlagged, Without
        <4> QED BY <4>1, <4>2
      <3> QED BY <2>1, <2>6, <2>8, <3>1, <3>2 DEF FlagInv, Running
    <2> QED BY <2>7, <2>8
  <1> QED BY <1>1, <1>2, <1>3, <1>4, <1>5, <1>6, <1>7, <1>8, <1>9 DEF Reminders!Next

\* The invariant holds while the reminders run.
LEMMA FlagAlways == OfficeSpec => [](part = "reminders" => FlagInv)
  <1> DEFINE Inv == part = "reminders" => FlagInv
  <1>1. OfficeInit => Inv
    BY FlagInit DEF OfficeInit
  <1>2. Inv /\ [OfficeNext]_officeVars => Inv'
    BY ReminderSteps, FlagStep
  <1> QED BY <1>1, <1>2, PTL DEF OfficeSpec

(* Between two runs of check the reminder flags of a collection say what   *)
(* its collector has been told, both ways, but for the updates, failures   *)
(* and crashes that the property names (CollectionDeadlineService.check).  *)
THEOREM RemindersFlagged == OfficeSpec => []FlagsTellTruth
  <1>1. ASSUME FlagInv PROVE Reminders!FlagsTellTruth
    BY <1>1, Zenon DEF FlagInv, FlagsTold, ToldFlagged, Without, Reminders!FlagsTellTruth
  <1>2. (part = "reminders" => FlagInv) => FlagsTellTruth
    BY <1>1 DEF FlagsTellTruth
  <1> QED BY <1>2, FlagAlways, PTL

-----------------------------------------------------------------------------
(* Messages.                                                               *)
\* A step of the office is one of the messages, or leaves them alone.
LEMMA ChatSteps ==
    ASSUME [OfficeNext]_officeVars
    PROVE  part' = part /\ (part = "chat" => [Chat!Next]_mVars)
  <1>1. CASE UNCHANGED officeVars
    BY <1>1 DEF officeVars, mVars
  <1>2. CASE OfficeNext
    BY <1>2 DEF OfficeNext, IdleBut, mVars
  <1> QED BY <1>1, <1>2

\* What Messages!TypeOK says of a request.
ChatSlots == [pc : {"idle", "mark", "edit", "remove"}, user : Users \cup {Nobody},
              seen : [MessageIds -> Chat!Row], todo : SUBSET MessageIds]

Has(q, m)  == q.pc # "idle" /\ q.seen[m].text # 0

\* The users who were shown the message.
Readers(m) == {u \in Users : mShown[m][u] # 0}

\* The receipts of the message are true.
Receipt(m) == mMessage[m].readBy = {mMessage[m].sender} \cup Readers(m)

\* What the one request that holds a message knows of its receipts.
Follows(q, m) ==
    IF q.pc = "mark"
    THEN /\ q.seen[m].readBy = {mMessage[m].sender} \cup Readers(m)
         /\ mMessage[m].readBy = q.seen[m].readBy \cup (IF m \in q.todo THEN {} ELSE {q.user})
    ELSE Receipt(m) /\ mMessage[m].readBy \subseteq {mMessage[m].sender}

\* A message keeps its sender as long as a request holds it.
Keeps(q, m) ==
    Has(q, m) => /\ q.seen[m].sender \in q.seen[m].readBy
                 /\ Chat!Exists(m) => mMessage[m].sender = q.seen[m].sender

\* Nobody was shown a message that is not there.
Blank(m) == Chat!Exists(m) \/ Readers(m) = {}

\* What holds of a message that no overlap has disturbed: one request at most
\* has read it, and knows its receipts.
Clear(m) ==
    /\ \A r, o \in Requests : Has(mReq[r], m) /\ Has(mReq[o], m) => r = o
    /\ \A r \in Requests : Has(mReq[r], m) => Follows(mReq[r], m)
    /\ Chat!Exists(m) /\ (\A r \in Requests : ~Has(mReq[r], m)) => Receipt(m)

\* The invariant.
ChatInv ==
    /\ Chat!TypeOK
    /\ \A r \in Requests : mReq[r].pc # "idle" => \A m \in mReq[r].todo : Has(mReq[r], m)
    /\ \A r \in Requests : mReq[r].pc = "mark" => mReq[r].user \in Users
    /\ \A m \in MessageIds : Blank(m)
    /\ \A m \in MessageIds, r \in Requests : Keeps(mReq[r], m)
    /\ \A m \in MessageIds : m \in mDisturbed \/ Clear(m)

\* The module's own notion of holding a message is Has.
LEMMA HoldsHas ==
    ASSUME NEW r \in Requests, NEW m \in MessageIds
    PROVE  r \in Chat!InFlight /\ m \in Chat!Holds(r) <=> Has(mReq[r], m)
  BY Zenon DEF Chat!InFlight, Chat!Holds, Has

\* A free slot is a row, with neither text nor readers.
LEMMA BlankMessage == Chat!NoMessage \in Chat!Row /\ Chat!NoMessage.text = 0 /\ Chat!NoMessage.readBy = {}
  <1>1. 0 \in Chat!Texts
    BY EditsAssumption DEF Chat!Texts
  <1> QED BY <1>1 DEF Chat!NoMessage, Chat!Row

\* An idle slot has read nothing.
LEMMA IdleChat == Chat!Idle \in ChatSlots /\ Chat!Idle.pc = "idle" /\ \A m : ~Has(Chat!Idle, m)
  <1>1. Chat!Idle \in ChatSlots
    BY BlankMessage DEF Chat!Idle, ChatSlots
  <1>2. Chat!Idle.pc = "idle"
    BY DEF Chat!Idle
  <1> QED BY <1>1, <1>2, Zenon DEF Has

\* The thread starts empty.
LEMMA ChatInit == ASSUME Chat!Init PROVE ChatInv
  <1>1. Chat!TypeOK
    <2>1. mMessage \in [MessageIds -> Chat!Row] /\ \A m \in MessageIds : ~Chat!Exists(m)
      BY BlankMessage DEF Chat!Init, Chat!Exists
    <2>2. mReq \in [Requests -> ChatSlots]
      BY IdleChat DEF Chat!Init
    <2>3. 0 \in Chat!Texts
      BY EditsAssumption DEF Chat!Texts
    <2>4. mShown \in [MessageIds -> [Users -> Chat!Texts]]
      BY <2>3 DEF Chat!Init
    <2> QED BY <2>1, <2>2, <2>4 DEF Chat!Init, Chat!TypeOK, ChatSlots
  <1>2. ASSUME NEW r \in Requests PROVE mReq[r] = Chat!Idle
    BY DEF Chat!Init
  <1>3. ASSUME NEW m \in MessageIds PROVE ~Chat!Exists(m) /\ Readers(m) = {}
    BY BlankMessage DEF Chat!Init, Chat!Exists, Readers
  <1> QED BY <1>1, <1>2, <1>3, IdleChat DEF ChatInv, Blank, Clear, Keeps

\* A slot takes a turn.
LEMMA ChatTurn ==
    ASSUME Chat!TypeOK, NEW r \in Requests, NEW q \in ChatSlots, mReq' = [mReq EXCEPT ![r] = q]
    PROVE  /\ mReq' \in [Requests -> ChatSlots]
           /\ \A o \in Requests : mReq'[o] = IF o = r THEN q ELSE mReq[o]
  BY DEF Chat!TypeOK, ChatSlots

\* A message that a turn leaves as it is, in a slot that knows no more of it.
LEMMA ChatElsewhere ==
    ASSUME NEW m \in MessageIds, Clear(m), NEW r \in Requests, NEW q, ~Has(mReq[r], m), ~Has(q, m),
           \A o \in Requests : mReq'[o] = IF o = r THEN q ELSE mReq[o],
           mMessage'[m] = mMessage[m], mShown'[m] = mShown[m]
    PROVE  Clear(m)'
  BY DEF Clear, Follows, Receipt, Readers, Has, Chat!Exists

\* A handler begins, with receipts as they are.
LEMMA ChatBegin ==
    ASSUME ChatInv, NEW r \in Requests, NEW q \in ChatSlots, Chat!Begin(r, q), UNCHANGED <<mMessage, mShown>>,
           q.pc = "mark" => q.user \in Users, \A m \in q.todo : Has(q, m),
           \A m \in MessageIds : Has(q, m) => q.seen[m] = mMessage[m] /\ (Receipt(m) => Follows(q, m))
    PROVE  ChatInv'
  <1>1. /\ mReq[r].pc = "idle" /\ mReq' = [mReq EXCEPT ![r] = q]
        /\ mDisturbed' = mDisturbed \cup UNION {Chat!Holds(o) : o \in Chat!InFlight}
    BY DEF Chat!Begin, Chat!At
  <1>2. mReq' \in [Requests -> ChatSlots] /\ \A o \in Requests : mReq'[o] = IF o = r THEN q ELSE mReq[o]
    BY <1>1, ChatTurn DEF ChatInv
  <1>3. \A o \in Chat!InFlight : Chat!Holds(o) \subseteq MessageIds
    BY DEF Chat!Holds
  <1>4. Chat!TypeOK'
    BY <1>1, <1>2, <1>3 DEF ChatInv, Chat!TypeOK, ChatSlots, Chat!Exists
  <1>5. ASSUME NEW m \in MessageIds, m \notin mDisturbed' PROVE Clear(m)'
    <2>1. \A o \in Requests : ~Has(mReq[o], m)
      BY <1>1, <1>5, HoldsHas
    <2>2. Clear(m)
      BY <1>1, <1>5 DEF ChatInv
    <2>3. Has(q, m) => Follows(q, m)
      <3>1. Has(q, m) => q.seen[m] = mMessage[m]
        OBVIOUS
      <3>2. Has(q, m) => Chat!Exists(m)
        BY <3>1, Zenon DEF Has, Chat!Exists
      <3> QED BY <2>1, <2>2, <3>2, Zenon DEF Clear
    <2>4. ASSUME NEW o \in Requests PROVE Has(mReq'[o], m) => o = r
      BY <1>2, <2>1, <2>4
    <2>5. (Receipt(m) <=> Receipt(m)') /\ (Chat!Exists(m) <=> Chat!Exists(m)')
      BY Zenon DEF Receipt, Readers, Chat!Exists
    <2>6. mReq'[r] = q
      BY <1>2
    <2>7. ASSUME NEW o \in Requests, Has(mReq'[o], m) PROVE Follows(mReq[o], m)'
      <3>1. o = r /\ mReq'[o] = q /\ Follows(q, m)
        BY <2>3, <2>4, <2>6, <2>7
      <3> QED BY <3>1, Zenon DEF Follows, Receipt, Readers
    <2>8. Chat!Exists(m)' /\ (\A o \in Requests : ~Has(mReq'[o], m)) => Receipt(m)'
      BY <2>1, <2>2, <2>5, Zenon DEF Clear
    <2>9. \A o, p \in Requests : Has(mReq'[o], m) /\ Has(mReq'[p], m) => o = p
      BY <2>4
    <2> QED BY <2>7, <2>8, <2>9 DEF Clear, Has
  <1>6. ASSUME NEW m \in MessageIds PROVE Blank(m)'
    BY DEF ChatInv, Blank, Chat!Exists, Readers
  <1>7. \A o \in Requests : (mReq'[o].pc # "idle" => \A m \in mReq'[o].todo : Has(mReq'[o], m))
                            /\ (mReq'[o].pc = "mark" => mReq'[o].user \in Users)
    BY <1>2 DEF ChatInv
  <1>8. ASSUME NEW m \in MessageIds, NEW o \in Requests PROVE Keeps(mReq[o], m)'
    <2>1. CASE o = r
      <3>1. mReq'[o] = q
        BY <1>2, <2>1
      <3>2. Has(q, m) => q.seen[m] = mMessage[m] /\ q.seen[m].sender \in q.seen[m].readBy
        <4>1. Has(q, m) => q.seen[m] = mMessage[m]
          OBVIOUS
        <4>2. mMessage[m].text # 0 => mMessage[m].sender \in mMessage[m].readBy
          BY DEF ChatInv, Chat!TypeOK, Chat!Exists
        <4> QED BY <4>1, <4>2, Zenon DEF Has
      <3> QED BY <3>1, <3>2, Zenon DEF Keeps, Has
    <2>2. CASE o # r
      <3>1. mReq'[o] = mReq[o] /\ Keeps(mReq[o], m)
        BY <1>2, <2>2 DEF ChatInv
      <3> QED BY <3>1, Zenon DEF Keeps, Has, Chat!Exists
    <2> QED BY <2>1, <2>2
  <1> QED BY <1>4, <1>5, <1>6, <1>7, <1>8 DEF ChatInv, Has

\* A handler ends, having touched no more than the messages that it holds.
LEMMA ChatFinish ==
    ASSUME ChatInv, Chat!TypeOK', NEW r \in Requests, Chat!Finish(r), mDisturbed \subseteq mDisturbed',
           \A m \in MessageIds : Blank(m)',
           \A m \in MessageIds : Chat!Exists(m)' => Chat!Exists(m) /\ mMessage'[m].sender = mMessage[m].sender,
           \A m \in MessageIds : Has(mReq[r], m) \/ (mMessage'[m] = mMessage[m] /\ mShown'[m] = mShown[m]),
           \A m \in MessageIds : Has(mReq[r], m) /\ m \notin mDisturbed' /\ Follows(mReq[r], m) /\ Chat!Exists(m)'
                                    => Receipt(m)'
    PROVE  ChatInv'
  <1>1. \A o \in Requests : mReq'[o] = IF o = r THEN Chat!Idle ELSE mReq[o]
    BY ChatTurn, IdleChat DEF ChatInv, Chat!Finish
  <1>2. ASSUME NEW m \in MessageIds, m \notin mDisturbed' PROVE Clear(m)'
    <2>1. Clear(m)
      BY <1>2 DEF ChatInv
    <2>2. CASE ~Has(mReq[r], m)
      BY <1>1, <2>1, <2>2, IdleChat, ChatElsewhere
    <2>3. CASE Has(mReq[r], m)
      <3>1. ASSUME NEW o \in Requests PROVE ~Has(mReq'[o], m)
        BY <1>1, <2>1, <2>3, IdleChat DEF Clear
      <3>2. Chat!Exists(m)' => Receipt(m)'
        BY <1>2, <2>1, <2>3 DEF Clear
      <3> QED BY <3>1, <3>2 DEF Clear, Has
    <2> QED BY <2>2, <2>3
  <1>3. \A o \in Requests : (mReq'[o].pc # "idle" => \A m \in mReq'[o].todo : Has(mReq'[o], m))
                            /\ (mReq'[o].pc = "mark" => mReq'[o].user \in Users)
    BY <1>1, IdleChat DEF ChatInv
  <1>4. ASSUME NEW m \in MessageIds, NEW o \in Requests PROVE Keeps(mReq[o], m)'
    BY <1>1, IdleChat DEF ChatInv, Keeps, Has
  <1> QED BY <1>2, <1>3, <1>4 DEF ChatInv, Has

\* A new message is its sender's, and nobody has seen it.
LEMMA ChatSend ==
    ASSUME ChatInv, Chat!Send
    PROVE  ChatInv'
  <1>1. PICK n \in MessageIds, u \in Users :
            /\ ~Chat!Exists(n) /\ \A r \in Chat!InFlight : n \notin Chat!Holds(r)
            /\ mMessage' = [mMessage EXCEPT ![n] = [text |-> 1, sender |-> u, readBy |-> {u}]]
            /\ mShown' = [mShown EXCEPT ![n] = [v \in Users |-> 0]]
            /\ mDisturbed' = mDisturbed \ {n}
    BY DEF Chat!Send
  <1>2. mReq' = mReq
    BY DEF Chat!Send
  <1> DEFINE new == [text |-> 1, sender |-> u, readBy |-> {u}]
  <1>3. new \in Chat!Row /\ new.text = 1 /\ new.sender = u /\ new.readBy = {u}
    BY EditsAssumption DEF Chat!Row, Chat!Texts
  <1> HIDE DEF new
  <1>4. \A m \in MessageIds : mMessage'[m] = IF m = n THEN new ELSE mMessage[m]
    BY <1>1 DEF ChatInv, Chat!TypeOK, new
  <1>5. /\ mMessage' \in [MessageIds -> Chat!Row]
        /\ \A m \in MessageIds : mMessage'[m].text # 0 => mMessage'[m].sender \in mMessage'[m].readBy
    BY <1>1, <1>3, <1>4 DEF ChatInv, Chat!TypeOK, Chat!Exists, new
  <1>6. [v \in Users |-> 0] \in [Users -> Chat!Texts]
    BY EditsAssumption DEF Chat!Texts
  <1>7. mShown' \in [MessageIds -> [Users -> Chat!Texts]] /\ \A m \in MessageIds \ {n} : mShown'[m] = mShown[m]
    BY <1>1, <1>6 DEF ChatInv, Chat!TypeOK
  <1>8. mShown'[n] = [v \in Users |-> 0]
    BY <1>1 DEF ChatInv, Chat!TypeOK
  <1>9. Chat!TypeOK'
    BY <1>1, <1>2, <1>5, <1>7 DEF ChatInv, Chat!TypeOK, Chat!Exists
  <1>10. ASSUME NEW m \in MessageIds, m \notin mDisturbed' PROVE Clear(m)'
    <2>1. CASE m = n
      <3>1. \A r \in Requests : ~Has(mReq[r], n)
        BY <1>1, HoldsHas
      <3>2. Receipt(n)'
        BY <1>3, <1>4, <1>8 DEF Receipt, Readers
      <3> QED BY <1>2, <2>1, <3>1, <3>2 DEF Clear, Has
    <2>2. CASE m # n
      <3>1. Clear(m) /\ mMessage'[m] = mMessage[m] /\ mShown'[m] = mShown[m]
        BY <1>1, <1>4, <1>7, <1>10, <2>2 DEF ChatInv
      <3> QED BY <1>2, <3>1, ZenonT(60) DEF Clear, Follows, Receipt, Readers, Has, Chat!Exists
    <2> QED BY <2>1, <2>2
  <1>11. ASSUME NEW m \in MessageIds PROVE Blank(m)'
    <2>1. CASE m = n
      BY <1>3, <1>4, <2>1 DEF Blank, Chat!Exists
    <2>2. CASE m # n
      BY <1>4, <1>7, <2>2 DEF ChatInv, Blank, Chat!Exists, Readers
    <2> QED BY <2>1, <2>2
  <1>12. ASSUME NEW m \in MessageIds, NEW o \in Requests PROVE Keeps(mReq[o], m)'
    <2>1. m = n => ~Has(mReq[o], m)
      BY <1>1, HoldsHas
    <2>2. m # n => mMessage'[m] = mMessage[m]
      BY <1>4
    <2>3. Keeps(mReq[o], m)
      BY DEF ChatInv
    <2> QED BY <1>2, <2>1, <2>2, <2>3, Zenon DEF Keeps, Has, Chat!Exists
  <1> QED BY <1>2, <1>9, <1>10, <1>11, <1>12 DEF ChatInv, Has

\* A list reads the whole thread.
LEMMA ChatList ==
    ASSUME ChatInv, NEW r \in Requests, Chat!ListRead(r)
    PROVE  ChatInv'
  <1>1. PICK u \in Users : Chat!Begin(r, [pc |-> "mark", user |-> u, seen |-> mMessage, todo |-> Chat!ToMark(u)])
    BY DEF Chat!ListRead
  <1> DEFINE q == [pc |-> "mark", user |-> u, seen |-> mMessage, todo |-> Chat!ToMark(u)]
  <1>2. q \in ChatSlots /\ q.pc = "mark" /\ q.user = u /\ q.seen = mMessage /\ q.todo = Chat!ToMark(u)
    BY DEF ChatSlots, ChatInv, Chat!TypeOK, Chat!ToMark
  <1> HIDE DEF q
  <1>3. \A m \in MessageIds : Has(q, m) <=> Chat!Exists(m)
    BY <1>2, Zenon DEF Has, Chat!Exists
  <1>4. \A m \in q.todo : Has(q, m)
    BY <1>2, <1>3 DEF Chat!ToMark
  <1>5. ASSUME NEW m \in MessageIds, Has(q, m), Receipt(m) PROVE Follows(q, m)
    <2>1. mMessage[m].sender \in mMessage[m].readBy
      BY <1>3, <1>5 DEF ChatInv, Chat!TypeOK
    <2>2. m \in q.todo <=> mMessage[m].sender # u /\ u \notin mMessage[m].readBy
      BY <1>2, <1>3, <1>5 DEF Chat!ToMark
    <2>3. mMessage[m].readBy = q.seen[m].readBy \cup (IF m \in q.todo THEN {} ELSE {q.user})
      BY <1>2, <2>1, <2>2
    <2> QED BY <1>2, <1>5, <2>3 DEF Follows, Receipt
  <1>6. Chat!Begin(r, q) /\ UNCHANGED <<mMessage, mShown>>
    BY <1>1 DEF Chat!ListRead, q
  <1> QED BY <1>2, <1>4, <1>5, <1>6, ChatBegin

\* ownUnreadMessage finds a message that none but its sender has read.
LEMMA ChatOwn ==
    ASSUME ChatInv, NEW r \in Requests, NEW pc \in {"edit", "remove"}, Chat!OwnUnread(r, pc)
    PROVE  ChatInv'
  <1>1. PICK n \in MessageIds :
            /\ Chat!Exists(n) /\ Chat!OthersRead(n) = {}
            /\ Chat!Begin(r, [pc |-> pc, user |-> mMessage[n].sender, todo |-> {n},
                              seen |-> [Chat!Idle.seen EXCEPT ![n] = mMessage[n]]])
    BY DEF Chat!OwnUnread
  <1> DEFINE seen == [Chat!Idle.seen EXCEPT ![n] = mMessage[n]]
             q == [pc |-> pc, user |-> mMessage[n].sender, todo |-> {n}, seen |-> seen]
  <1>2. mMessage[n] \in Chat!Row /\ mMessage[n].sender \in Users \cup {Nobody}
    BY DEF ChatInv, Chat!TypeOK, Chat!Row
  <1>3. Chat!Idle.seen = [m \in MessageIds |-> Chat!NoMessage]
    BY DEF Chat!Idle
  <1>4. seen \in [MessageIds -> Chat!Row] /\ \A m \in MessageIds : seen[m] = IF m = n THEN mMessage[n] ELSE Chat!NoMessage
    BY <1>2, <1>3, BlankMessage
  <1> HIDE DEF seen
  <1>5. q \in ChatSlots /\ q.pc = pc /\ q.todo = {n} /\ q.seen = seen
    BY <1>2, <1>4 DEF ChatSlots
  <1>6. Chat!Begin(r, q) /\ UNCHANGED <<mMessage, mShown>>
    BY <1>1 DEF Chat!OwnUnread, seen
  <1> HIDE DEF q
  <1>7. \A m \in MessageIds : Has(q, m) <=> m = n
    BY <1>1, <1>4, <1>5, BlankMessage DEF Has, Chat!Exists
  <1>8. Receipt(n) => Follows(q, n)
    BY <1>1, <1>5 DEF Follows, Chat!OthersRead
  <1>9. ASSUME NEW m \in MessageIds, Has(q, m) PROVE q.seen[m] = mMessage[m] /\ (Receipt(m) => Follows(q, m))
    BY <1>4, <1>5, <1>7, <1>8, <1>9
  <1> QED BY <1>5, <1>6, <1>7, <1>9, ChatBegin

\* The list that was read is written back with the viewer on it.
LEMMA ChatMark ==
    ASSUME ChatInv, NEW r \in Requests, Chat!ListMark(r)
    PROVE  ChatInv'
  <1>1. PICK n \in mReq[r].todo :
            /\ Chat!Exists(n)
            /\ mMessage' = [mMessage EXCEPT ![n].readBy = mReq[r].seen[n].readBy \cup {mReq[r].user}]
            /\ mReq' = [mReq EXCEPT ![r].todo = @ \ {n}]
    BY DEF Chat!ListMark
  <1>0. PICK q, p : q = mReq[r] /\ p = [q EXCEPT !.todo = @ \ {n}]
    OBVIOUS
  <1>2. /\ q \in ChatSlots /\ q.pc = "mark" /\ n \in MessageIds /\ q.user \in Users /\ Has(q, n)
        /\ \A m \in q.todo : Has(q, m)
        /\ UNCHANGED <<mShown, mDisturbed>>
    BY <1>0, <1>1 DEF Chat!ListMark, Chat!At, ChatInv, Chat!TypeOK, ChatSlots
  <1>3. p \in ChatSlots /\ p.pc = "mark" /\ p.user = q.user /\ p.seen = q.seen /\ p.todo = q.todo \ {n}
    BY <1>0, <1>2 DEF ChatSlots
  <1>4. mReq' = [mReq EXCEPT ![r] = p]
    BY <1>0, <1>1 DEF ChatInv, Chat!TypeOK
  <1>5. mReq' \in [Requests -> ChatSlots] /\ \A o \in Requests : mReq'[o] = IF o = r THEN p ELSE mReq[o]
    BY <1>3, <1>4, ChatTurn DEF ChatInv
  <1>6. /\ mMessage[n] \in Chat!Row /\ q.seen[n].readBy \subseteq Users
    BY <1>2 DEF ChatInv, Chat!TypeOK, ChatSlots, Chat!Row
  <1>7. /\ mMessage'[n] \in Chat!Row /\ mMessage'[n].text = mMessage[n].text /\ mMessage'[n].sender = mMessage[n].sender
        /\ mMessage'[n].readBy = q.seen[n].readBy \cup {q.user}
    BY <1>0, <1>1, <1>2, <1>6 DEF ChatInv, Chat!TypeOK, Chat!Row
  <1>8. \A m \in MessageIds \ {n} : mMessage'[m] = mMessage[m]
    BY <1>1 DEF ChatInv, Chat!TypeOK
  <1>9. mMessage' \in [MessageIds -> Chat!Row]
    BY <1>1, <1>7, <1>8 DEF ChatInv, Chat!TypeOK
  <1>10. ASSUME NEW m \in MessageIds, m \notin mDisturbed PROVE Clear(m)'
    <2>1. Clear(m) /\ \A o \in Requests : mReq'[o].pc = mReq[o].pc /\ mReq'[o].seen = mReq[o].seen
      BY <1>0, <1>2, <1>3, <1>5, <1>10 DEF ChatInv
    <2>2. \A o \in Requests : Has(mReq'[o], m) <=> Has(mReq[o], m)
      BY <2>1 DEF Has
    <2>3. CASE m = n
      <3>1. Follows(q, n) /\ \A o \in Requests : Has(mReq[o], n) <=> o = r
        BY <1>0, <1>2, <2>1, <2>3 DEF Clear
      <3>2. q.seen[n].readBy = {mMessage[n].sender} \cup Readers(n)
        BY <1>2, <3>1 DEF Follows
      <3>3. Readers(n)' = Readers(n)
        BY <1>2 DEF Readers
      <3>4. Follows(p, n)'
        BY <1>3, <1>7, <3>2, <3>3 DEF Follows
      <3>5. ASSUME NEW o \in Requests, Has(mReq'[o], n) PROVE Follows(mReq[o], n)'
        <4>1. mReq'[o] = p
          BY <1>5, <2>2, <2>3, <3>1, <3>5
        <4> QED BY <3>4, <4>1, Zenon DEF Follows, Receipt, Readers
      <3> QED BY <2>2, <2>3, <3>1, <3>5 DEF Clear, Has
    <2>4. CASE m # n
      <3>1. mMessage'[m] = mMessage[m] /\ mShown'[m] = mShown[m]
        BY <1>2, <1>8, <2>4
      <3>2. Readers(m)' = Readers(m) /\ (Receipt(m)' <=> Receipt(m)) /\ (Chat!Exists(m)' <=> Chat!Exists(m))
        BY <3>1, Zenon DEF Readers, Receipt, Chat!Exists
      <3>3. ASSUME NEW o \in Requests, Has(mReq'[o], m) PROVE Follows(mReq[o], m)'
        <4>1. Follows(mReq[o], m)
          BY <2>1, <2>2, <3>3 DEF Clear
        <4>2. (m \in mReq'[o].todo <=> m \in mReq[o].todo) /\ mReq'[o].pc = mReq[o].pc /\ mReq'[o].seen = mReq[o].seen
              /\ mReq'[o].user = mReq[o].user
          BY <1>0, <1>3, <1>5, <2>1, <2>4
        <4> QED BY <3>1, <3>2, <4>1, <4>2 DEF Follows, Receipt, Readers
      <3> QED BY <2>1, <2>2, <3>2, <3>3 DEF Clear, Has
    <2> QED BY <2>3, <2>4
  <1>11. ASSUME NEW m \in MessageIds PROVE Blank(m)'
    BY <1>2, <1>7, <1>8, <1>9 DEF ChatInv, Blank, Chat!Exists, Readers
  <1>12. Chat!TypeOK'
    <2>1. \A m \in MessageIds : mMessage'[m].text # 0 => mMessage'[m].sender \in mMessage'[m].readBy
      <3>1. mMessage'[n].sender \in mMessage'[n].readBy
        BY <1>0, <1>1, <1>2, <1>7 DEF ChatInv, Keeps
      <3> QED BY <1>7, <1>8, <3>1 DEF ChatInv, Chat!TypeOK, Chat!Exists
    <2> QED BY <1>2, <1>5, <1>9, <2>1 DEF ChatInv, Chat!TypeOK, Chat!Exists, ChatSlots
  <1>13. ASSUME NEW o \in Requests
         PROVE  /\ mReq'[o].pc # "idle" => \A m \in mReq'[o].todo : Has(mReq'[o], m)
                /\ mReq'[o].pc = "mark" => mReq'[o].user \in Users
    <2>1. CASE o = r
      BY <1>2, <1>3, <1>5, <2>1 DEF Has
    <2>2. CASE o # r
      BY <1>5, <2>2 DEF ChatInv
    <2> QED BY <2>1, <2>2
  <1>14. ASSUME NEW m \in MessageIds, NEW o \in Requests PROVE Keeps(mReq[o], m)'
    <2>1. mReq'[o].pc = mReq[o].pc /\ mReq'[o].seen = mReq[o].seen
      BY <1>0, <1>2, <1>3, <1>5
    <2>2. mMessage'[m].text = mMessage[m].text /\ mMessage'[m].sender = mMessage[m].sender
      BY <1>7, <1>8
    <2>3. Keeps(mReq[o], m)
      BY DEF ChatInv
    <2> QED BY <2>1, <2>2, <2>3, Zenon DEF Keeps, Has, Chat!Exists
  <1> QED BY <1>2, <1>10, <1>11, <1>12, <1>13, <1>14 DEF ChatInv, Has

\* The viewer is shown what he has been recorded to read.
LEMMA ChatAnswer ==
    ASSUME ChatInv, NEW r \in Requests, Chat!ListAnswer(r)
    PROVE  ChatInv'
  <1>0. PICK q : q = mReq[r]
    OBVIOUS
  <1>1. /\ q.pc = "mark" /\ q.todo = {} /\ Chat!Finish(r) /\ UNCHANGED <<mMessage, mDisturbed>>
        /\ mShown' = [m \in MessageIds |-> IF m \in Chat!Holds(r) /\ Chat!Exists(m)
                                           THEN [mShown[m] EXCEPT ![q.user] = q.seen[m].text] ELSE mShown[m]]
    BY <1>0 DEF Chat!ListAnswer, Chat!At
  <1>2. /\ q.user \in Users /\ q.seen \in [MessageIds -> Chat!Row]
        /\ mReq \in [Requests -> ChatSlots] /\ mShown \in [MessageIds -> [Users -> Chat!Texts]]
    BY <1>0, <1>1 DEF ChatInv, Chat!TypeOK, ChatSlots
  <1>3. \A m \in MessageIds : m \in Chat!Holds(r) <=> Has(q, m)
    BY <1>0, <1>1, Zenon DEF Chat!Holds, Has
  <1>4. ASSUME NEW m \in MessageIds
        PROVE  /\ mShown'[m] \in [Users -> Chat!Texts]
               /\ ~(Has(q, m) /\ Chat!Exists(m)) => mShown'[m] = mShown[m]
               /\ Has(q, m) /\ Chat!Exists(m) => Readers(m)' = Readers(m) \cup {q.user}
    <2>1. CASE ~(Has(q, m) /\ Chat!Exists(m))
      <3>1. mShown'[m] = mShown[m]
        BY <1>1, <1>3, <2>1
      <3> QED BY <1>2, <2>1, <3>1
    <2>2. CASE Has(q, m) /\ Chat!Exists(m)
      <3>1. mShown'[m] = [mShown[m] EXCEPT ![q.user] = q.seen[m].text]
        BY <1>1, <1>3, <2>2
      <3>2. q.seen[m].text \in Chat!Texts /\ q.seen[m].text # 0
        BY <1>2, <2>2 DEF Has, Chat!Row
      <3>3. mShown'[m] \in [Users -> Chat!Texts]
        BY <1>2, <3>1, <3>2
      <3>4. \A u \in Users : mShown'[m][u] = IF u = q.user THEN q.seen[m].text ELSE mShown[m][u]
        BY <1>2, <3>1
      <3>5. Readers(m)' = Readers(m) \cup {q.user}
        BY <1>2, <3>2, <3>4 DEF Readers
      <3> QED BY <2>2, <3>3, <3>5
    <2> QED BY <2>1, <2>2
  <1>5. mReq' \in [Requests -> ChatSlots]
    BY <1>1, IdleChat, ChatTurn DEF Chat!Finish, ChatInv
  <1>6. mShown' \in [MessageIds -> [Users -> Chat!Texts]]
    BY <1>1, <1>4
  <1>7. Chat!TypeOK'
    BY <1>1, <1>5, <1>6 DEF ChatInv, Chat!TypeOK, ChatSlots, Chat!Exists
  <1>8. ASSUME NEW m \in MessageIds PROVE Blank(m)'
    <2>1. CASE Chat!Exists(m)
      BY <1>1, <2>1 DEF Blank, Chat!Exists
    <2>2. CASE ~Chat!Exists(m)
      BY <1>4, <2>2 DEF ChatInv, Blank, Readers
    <2> QED BY <2>1, <2>2
  <1>9. ASSUME NEW m \in MessageIds PROVE Has(q, m) \/ (mMessage'[m] = mMessage[m] /\ mShown'[m] = mShown[m])
    BY <1>1, <1>4
  <1>10. ASSUME NEW m \in MessageIds, Has(q, m), Follows(q, m), Chat!Exists(m)' PROVE Receipt(m)'
    <2>1. mMessage[m].readBy = {mMessage[m].sender} \cup Readers(m) \cup {q.user}
      BY <1>1, <1>10 DEF Follows
    <2>2. Readers(m)' = Readers(m) \cup {q.user}
      BY <1>1, <1>4, <1>10 DEF Chat!Exists
    <2> QED BY <1>1, <2>1, <2>2 DEF Receipt
  <1>11. ASSUME NEW m \in MessageIds, Chat!Exists(m)' PROVE Chat!Exists(m) /\ mMessage'[m].sender = mMessage[m].sender
    BY <1>1, <1>11 DEF Chat!Exists
  <1> QED BY <1>0, <1>1, <1>7, <1>8, <1>9, <1>10, <1>11, ChatFinish

\* The text of an unread message changes, or the message is gone.
LEMMA ChatEdit ==
    ASSUME ChatInv, NEW r \in Requests, Chat!EditWrite(r)
    PROVE  ChatInv'
  <1>1. PICK n \in mReq[r].todo :
            /\ Chat!Exists(n) /\ mMessage[n].text <= MaxEdits
            /\ mMessage' = [mMessage EXCEPT ![n].text = @ + 1]
    BY DEF Chat!EditWrite
  <1>2. mReq[r].pc = "edit" /\ Chat!Finish(r) /\ UNCHANGED <<mShown, mDisturbed>>
    BY DEF Chat!EditWrite, Chat!At
  <1>3. n \in MessageIds /\ Has(mReq[r], n) /\ mMessage[n] \in Chat!Row
    BY <1>1, <1>2 DEF ChatInv, Chat!TypeOK
  <1>4. /\ mMessage'[n] \in Chat!Row /\ mMessage'[n].text # 0
        /\ mMessage'[n].sender = mMessage[n].sender /\ mMessage'[n].readBy = mMessage[n].readBy
    <2>1. mMessage'[n] = [mMessage[n] EXCEPT !.text = @ + 1]
      BY <1>1, <1>3 DEF ChatInv, Chat!TypeOK
    <2>2. PICK w : w = mMessage[n]
      OBVIOUS
    <2>3. w.text \in 1..(MaxEdits + 1) /\ w.text <= MaxEdits
      BY <1>1, <1>3, <2>2, EditsAssumption DEF Chat!Row, Chat!Texts, Chat!Exists
    <2>4. w.text + 1 \in Chat!Texts /\ w.text + 1 # 0
      BY <2>3, EditsAssumption DEF Chat!Texts
    <2>5. /\ [w EXCEPT !.text = w.text + 1] \in Chat!Row
          /\ [w EXCEPT !.text = w.text + 1].text = w.text + 1
          /\ [w EXCEPT !.text = w.text + 1].sender = w.sender
          /\ [w EXCEPT !.text = w.text + 1].readBy = w.readBy
      BY <1>3, <2>2, <2>4, Zenon DEF Chat!Row
    <2> QED BY <2>1, <2>2, <2>4, <2>5
  <1>5. \A m \in MessageIds \ {n} : mMessage'[m] = mMessage[m]
    BY <1>1 DEF ChatInv, Chat!TypeOK
  <1>6. mReq' \in [Requests -> ChatSlots]
    BY <1>2, IdleChat, ChatTurn DEF Chat!Finish, ChatInv
  <1>7. mMessage' \in [MessageIds -> Chat!Row]
    BY <1>1, <1>4, <1>5 DEF ChatInv, Chat!TypeOK
  <1>8. Chat!TypeOK'
    BY <1>1, <1>2, <1>4, <1>5, <1>6, <1>7 DEF ChatInv, Chat!TypeOK, ChatSlots, Chat!Exists
  <1>9. ASSUME NEW m \in MessageIds PROVE Blank(m)'
    BY <1>2, <1>4, <1>5 DEF ChatInv, Blank, Chat!Exists, Readers
  <1>10. ASSUME NEW m \in MessageIds, Has(mReq[r], m), Follows(mReq[r], m) PROVE Receipt(m)'
    <2>1. Receipt(m)
      BY <1>2, <1>10 DEF Follows
    <2> QED BY <1>2, <1>4, <1>5, <2>1 DEF Receipt, Readers
  <1>11. ASSUME NEW m \in MessageIds, Chat!Exists(m)' PROVE Chat!Exists(m) /\ mMessage'[m].sender = mMessage[m].sender
    BY <1>1, <1>4, <1>5, <1>11 DEF Chat!Exists
  <1>12. ASSUME NEW m \in MessageIds PROVE Has(mReq[r], m) \/ (mMessage'[m] = mMessage[m] /\ mShown'[m] = mShown[m])
    BY <1>2, <1>3, <1>5
  <1> QED BY <1>2, <1>8, <1>9, <1>10, <1>11, <1>12, ChatFinish

\* An unread message is removed.
LEMMA ChatDrop ==
    ASSUME ChatInv, NEW r \in Requests, Chat!RemoveWrite(r)
    PROVE  ChatInv'
  <1>1. PICK n \in mReq[r].todo :
            /\ Chat!Exists(n) /\ mMessage' = [mMessage EXCEPT ![n] = Chat!NoMessage]
            /\ mShown' = [mShown EXCEPT ![n] = [v \in Users |-> 0]]
    BY DEF Chat!RemoveWrite
  <1>2. mReq[r].pc = "remove" /\ Chat!Finish(r) /\ UNCHANGED mDisturbed
    BY DEF Chat!RemoveWrite, Chat!At
  <1>3. n \in MessageIds /\ Has(mReq[r], n)
    BY <1>1, <1>2 DEF ChatInv, Chat!TypeOK
  <1>4. \A m \in MessageIds : /\ mMessage'[m] = (IF m = n THEN Chat!NoMessage ELSE mMessage[m])
                              /\ mShown'[m] = (IF m = n THEN [v \in Users |-> 0] ELSE mShown[m])
    BY <1>1, <1>3 DEF ChatInv, Chat!TypeOK
  <1>5. [v \in Users |-> 0] \in [Users -> Chat!Texts]
    BY EditsAssumption DEF Chat!Texts
  <1>6. mReq' \in [Requests -> ChatSlots]
    BY <1>2, IdleChat, ChatTurn DEF Chat!Finish, ChatInv
  <1>7. mMessage' \in [MessageIds -> Chat!Row] /\ mShown' \in [MessageIds -> [Users -> Chat!Texts]]
    BY <1>1, <1>3, <1>5, BlankMessage DEF ChatInv, Chat!TypeOK
  <1>8. Chat!TypeOK'
    BY <1>2, <1>4, <1>6, <1>7, BlankMessage DEF ChatInv, Chat!TypeOK, ChatSlots, Chat!Exists
  <1>9. ASSUME NEW m \in MessageIds PROVE Blank(m)'
    <2>1. CASE m = n
      BY <1>4, <2>1 DEF Blank, Readers
    <2>2. CASE m # n
      BY <1>4, <2>2 DEF ChatInv, Blank, Chat!Exists, Readers
    <2> QED BY <2>1, <2>2
  <1>10. ASSUME NEW m \in MessageIds, Chat!Exists(m)' PROVE m # n /\ mMessage'[m] = mMessage[m] /\ mShown'[m] = mShown[m]
    BY <1>4, <1>10, BlankMessage DEF Chat!Exists
  <1>11. ASSUME NEW m \in MessageIds, Follows(mReq[r], m), Chat!Exists(m)' PROVE Receipt(m)'
    BY <1>2, <1>10, <1>11 DEF Follows, Receipt, Readers
  <1>12. ASSUME NEW m \in MessageIds, Chat!Exists(m)' PROVE Chat!Exists(m) /\ mMessage'[m].sender = mMessage[m].sender
    BY <1>10, <1>12 DEF Chat!Exists
  <1>13. ASSUME NEW m \in MessageIds PROVE Has(mReq[r], m) \/ (mMessage'[m] = mMessage[m] /\ mShown'[m] = mShown[m])
    BY <1>3, <1>4
  <1> QED BY <1>2, <1>8, <1>9, <1>11, <1>12, <1>13, ChatFinish

\* A request that is cut off disturbs what it holds.
LEMMA ChatCut ==
    ASSUME ChatInv, NEW r \in Requests, Chat!Cut(r)
    PROVE  ChatInv'
  <1>1. /\ Chat!Finish(r) /\ UNCHANGED <<mMessage, mShown>>
        /\ mDisturbed' = IF mReq[r].pc = "mark" THEN mDisturbed \cup Chat!Holds(r) ELSE mDisturbed
    BY DEF Chat!Cut, Chat!At
  <1>2. mReq' \in [Requests -> ChatSlots]
    BY <1>1, IdleChat, ChatTurn DEF Chat!Finish, ChatInv
  <1>3. mDisturbed' \subseteq MessageIds /\ mDisturbed \subseteq mDisturbed'
    BY <1>1 DEF ChatInv, Chat!TypeOK, Chat!Holds
  <1>4. Chat!TypeOK'
    BY <1>1, <1>2, <1>3 DEF ChatInv, Chat!TypeOK, ChatSlots, Chat!Exists
  <1>5. ASSUME NEW m \in MessageIds PROVE Blank(m)'
    BY <1>1 DEF ChatInv, Blank, Chat!Exists, Readers
  <1>6. ASSUME NEW m \in MessageIds, Has(mReq[r], m), m \notin mDisturbed', Follows(mReq[r], m) PROVE Receipt(m)'
    <2>1. mReq[r].pc # "mark"
      BY <1>1, <1>6, HoldsHas
    <2>2. Receipt(m)
      BY <1>6, <2>1 DEF Follows
    <2> QED BY <1>1, <2>2 DEF Receipt, Readers
  <1>7. ASSUME NEW m \in MessageIds, Chat!Exists(m)' PROVE Chat!Exists(m)
    BY <1>1, <1>7 DEF Chat!Exists
  <1> QED BY <1>1, <1>3, <1>4, <1>5, <1>6, <1>7, ChatFinish

\* Every step of the messages keeps the invariant.
LEMMA ChatStep ==
    ASSUME ChatInv, [Chat!Next]_mVars
    PROVE  ChatInv'
  <1>1. CASE UNCHANGED mVars
    <2>1. UNCHANGED <<mMessage, mReq, mShown, mDisturbed>>
      BY <1>1 DEF mVars
    <2> QED BY <2>1 DEF ChatInv, Chat!TypeOK, Chat!Exists, Blank, Clear, Keeps, Follows, Receipt, Readers, Has
  <1>2. CASE Chat!Next
    BY <1>2, ChatSend, ChatList, ChatMark, ChatAnswer, ChatOwn, ChatEdit, ChatDrop, ChatCut
       DEF Chat!Next, Chat!EditRead, Chat!RemoveRead
  <1> QED BY <1>1, <1>2

\* A message that a request may change or remove was shown to none but its
\* sender, if it is undisturbed.
LEMMA Withdrawn ==
    ASSUME ChatInv, NEW r \in Requests, mReq[r].pc \in {"edit", "remove"}, NEW m \in MessageIds,
           m \in mReq[r].todo, m \notin mDisturbed
    PROVE  \A u \in Users : u # mMessage[m].sender => mShown[m][u] = 0
  <1>1. Has(mReq[r], m) /\ Clear(m)
    BY DEF ChatInv
  <1>2. Receipt(m) /\ mMessage[m].readBy \subseteq {mMessage[m].sender}
    BY <1>1 DEF Clear, Follows
  <1> QED BY <1>2 DEF Receipt, Readers

\* So a step changes or removes no message that somebody else was shown.
LEMMA ShownKept ==
    ASSUME ChatInv, [Chat!Next]_mVars
    PROVE  Chat!ShownStays
  <1> SUFFICES ASSUME NEW m \in MessageIds, m \notin mDisturbed',
                      NEW u \in Users, u # mMessage[m].sender, mShown[m][u] # 0
               PROVE  mMessage'[m].text = mMessage[m].text
    BY DEF Chat!ShownStays
  <1>1. Chat!Exists(m)
    BY DEF ChatInv, Blank, Readers
  <1>2. mMessage \in [MessageIds -> Chat!Row]
    BY DEF ChatInv, Chat!TypeOK
  <1>3. CASE Chat!Send
    <2>1. PICK n \in MessageIds, v \in Users :
              ~Chat!Exists(n) /\ mMessage' = [mMessage EXCEPT ![n] = [text |-> 1, sender |-> v, readBy |-> {v}]]
      BY <1>3 DEF Chat!Send
    <2> QED BY <1>1, <1>2, <2>1
  <1>4. ASSUME NEW r \in Requests, Chat!ListMark(r) PROVE mMessage'[m].text = mMessage[m].text
    <2>1. PICK n \in mReq[r].todo : mMessage' = [mMessage EXCEPT ![n].readBy = mReq[r].seen[n].readBy \cup {mReq[r].user}]
      BY <1>4 DEF Chat!ListMark
    <2> QED BY <1>2, <2>1 DEF Chat!Row
  <1>5. ASSUME NEW r \in Requests, Chat!EditWrite(r) PROVE mMessage'[m].text = mMessage[m].text
    <2>1. PICK n \in mReq[r].todo : mMessage' = [mMessage EXCEPT ![n].text = @ + 1]
      BY <1>5 DEF Chat!EditWrite
    <2>2. mReq[r].pc = "edit" /\ m \notin mDisturbed
      BY <1>5 DEF Chat!EditWrite, Chat!At
    <2>3. m # n
      BY <2>2, Withdrawn
    <2> QED BY <1>2, <2>1, <2>3
  <1>6. ASSUME NEW r \in Requests, Chat!RemoveWrite(r) PROVE mMessage'[m].text = mMessage[m].text
    <2>1. PICK n \in mReq[r].todo : mMessage' = [mMessage EXCEPT ![n] = Chat!NoMessage]
      BY <1>6 DEF Chat!RemoveWrite
    <2>2. mReq[r].pc = "remove" /\ m \notin mDisturbed
      BY <1>6 DEF Chat!RemoveWrite, Chat!At
    <2>3. m # n
      BY <2>2, Withdrawn
    <2> QED BY <1>2, <2>1, <2>3
  <1>7. CASE UNCHANGED mMessage
    BY <1>7
  <1> QED BY <1>3, <1>4, <1>5, <1>6, <1>7 DEF Chat!Next, mVars, Chat!ListRead, Chat!ListAnswer, Chat!EditRead,
             Chat!RemoveRead, Chat!OwnUnread, Chat!Cut

\* The invariant holds throughout, as both theorems below need.
LEMMA ChatAlways == OfficeSpec => [](part = "chat" => ChatInv)
  <1> DEFINE Inv == part = "chat" => ChatInv
  <1>1. OfficeInit => Inv
    BY ChatInit DEF OfficeInit
  <1>2. Inv /\ [OfficeNext]_officeVars => Inv'
    BY ChatSteps, ChatStep
  <1> QED BY <1>1, <1>2, PTL DEF OfficeSpec

(* With no list in flight, the recorded readers of a message are its       *)
(* sender and those who were shown it, unless requests overlapped on it or *)
(* were cut off (MessagesController.list writes the receipts one by one).  *)
THEOREM ReceiptsTold == OfficeSpec => []ReceiptsAreTrue
  <1>1. ASSUME ChatInv PROVE Chat!ReceiptsAreTrue
    <2> SUFFICES ASSUME NEW m \in MessageIds, Chat!Exists(m), m \notin mDisturbed,
                        \A r \in Chat!InFlight : m \notin Chat!Holds(r)
                 PROVE  mMessage[m].readBy = {mMessage[m].sender} \cup {u \in Users : mShown[m][u] # 0}
      BY DEF Chat!ReceiptsAreTrue
    <2>1. \A r \in Requests : ~Has(mReq[r], m)
      BY HoldsHas
    <2>2. Clear(m)
      BY <1>1 DEF ChatInv
    <2>3. Receipt(m)
      BY <2>1, <2>2, Zenon DEF Clear
    <2> QED BY <2>3 DEF Receipt, Readers
  <1>2. (part = "chat" => ChatInv) => ReceiptsAreTrue
    BY <1>1 DEF ReceiptsAreTrue
  <1> QED BY <1>2, ChatAlways, PTL

(* What somebody else has been shown is neither changed nor withdrawn      *)
(* afterwards, unless requests on the message overlapped: ownUnreadMessage *)
(* looks at the receipts, and these are true.                              *)
THEOREM ShownIsFinal == OfficeSpec => ShownSettles
  <1> DEFINE Inv == part = "chat" => ChatInv
  <1>1. Inv /\ [OfficeNext]_officeVars => [part = "chat" => Chat!ShownStays]_mVars
    BY ChatSteps, ShownKept
  <1>2. OfficeSpec => []Inv /\ [][OfficeNext]_officeVars
    BY ChatAlways, PTL DEF OfficeSpec
  <1> QED BY <1>1, <1>2, PTL DEF ShownSettles

-----------------------------------------------------------------------------
(* Documents.                                                              *)
\* A step of the office is one of the documents, or leaves them alone.
LEMMA PaperSteps ==
    ASSUME [OfficeNext]_officeVars
    PROVE  part' = part /\ (part = "papers" => [Papers!Next]_dVars)
  <1>1. CASE UNCHANGED officeVars
    BY <1>1 DEF officeVars, dVars
  <1>2. CASE OfficeNext
    BY <1>2 DEF OfficeNext, IdleBut, dVars
  <1> QED BY <1>1, <1>2

\* What Documents!TypeOK says of a request.
PaperSlots == [pc : {"idle", "insert", "save", "unlink", "update", "delete", "erase"},
               doc : DocIds, old : Files \cup {Nobody}, new : Files \cup {Nobody},
               collateral : 0..MaxSaves, chat : BOOLEAN]

\* A request knows the file that it saved, or the one that it found, or both.
Phase(q) ==
    /\ q.new # Nobody <=> q.pc \in {"insert", "unlink", "update"}
    /\ q.old # Nobody <=> q.pc \in {"save", "unlink", "update", "delete", "erase"}

\* The file that a row names.
File(d) == dRow[d].file

\* A file belongs to one row.
Distinct == \A d, e \in DocIds : File(d) # Nobody /\ File(d) = File(e) => d = e

\* The file that a request has saved is on disk and nobody else's.
NewOwn ==
    \A r \in Requests : dReq[r].new # Nobody =>
        /\ dReq[r].new \in dDisk
        /\ \A d \in DocIds : File(d) # dReq[r].new
        /\ \A o \in Requests : dReq[o].old # dReq[r].new /\ (dReq[o].new = dReq[r].new => o = r)

\* The file that a request is to unlink is no other row's.
OldOwn ==
    \A r \in Requests : dReq[r].old # Nobody =>
        \A d \in DocIds : File(d) = dReq[r].old => d = dReq[r].doc /\ dReq[r].pc # "erase"

\* Without cuts and overlaps one request knows all that no row names.
Tidy ==
    /\ \A r, o \in Requests : dReq[r].pc # "idle" /\ dReq[o].pc # "idle" => r = o
    /\ \A f \in dDisk : (\E d \in DocIds : File(d) = f) \/ (\E r \in Requests : dReq[r].new = f \/ dReq[r].old = f)
    /\ \A r \in Requests : dReq[r].pc \in {"save", "unlink", "update", "delete"} => File(dReq[r].doc) = dReq[r].old
    /\ \A r \in Requests : dReq[r].pc = "update" => dReq[r].old \notin dDisk

\* The invariant; RowHasFile is a part of it as it stands.
PaperInv ==
    /\ Papers!TypeOK
    /\ \A r \in Requests : Phase(dReq[r])
    /\ Distinct /\ NewOwn /\ OldOwn
    /\ Papers!RowHasFile
    /\ dUntidy \/ Tidy

\* An idle slot knows no file.
LEMMA IdlePaper == Papers!Idle \in PaperSlots /\ Papers!Idle.pc = "idle" /\ Papers!Idle.new = Nobody /\ Papers!Idle.old = Nobody
  <1>1. (CHOOSE d \in DocIds : TRUE) \in DocIds
    BY FilesAssumption
  <1>2. 0 \in 0..MaxSaves
    BY FilesAssumption
  <1> QED BY <1>1, <1>2 DEF Papers!Idle, PaperSlots

\* A free row names no file.
LEMMA BlankPaper == Papers!NoRow \in [file : Files \cup {Nobody}, collateral : 0..MaxSaves, chat : BOOLEAN]
                    /\ Papers!NoRow.file = Nobody
  <1>1. 0 \in 0..MaxSaves
    BY FilesAssumption
  <1> QED BY <1>1 DEF Papers!NoRow

\* There are no documents and no files.
LEMMA PaperInit == ASSUME Papers!Init PROVE PaperInv
  <1>1. /\ \A r \in Requests : dReq[r] = Papers!Idle
        /\ \A d \in DocIds : File(d) = Nobody
        /\ dDisk = {} /\ dUntidy = FALSE
    BY BlankPaper DEF Papers!Init, File
  <1>2. Papers!TypeOK
    <2>1. dReq \in [Requests -> PaperSlots]
      BY IdlePaper DEF Papers!Init
    <2>2. dRow \in [DocIds -> [file : Files \cup {Nobody}, collateral : 0..MaxSaves, chat : BOOLEAN]]
      BY BlankPaper DEF Papers!Init
    <2>3. dDisk = {} /\ dCollateral \in 0..MaxSaves /\ dLost = {}
      BY FilesAssumption DEF Papers!Init
    <2>4. dUntidy \in BOOLEAN
      BY <1>1, Zenon
    <2> QED BY <2>1, <2>2, <2>3, <2>4 DEF Papers!TypeOK, PaperSlots
  <1>3. Papers!RowHasFile
    BY <1>1 DEF Papers!RowHasFile, Papers!Exists, File
  <1>4. Distinct /\ NewOwn /\ OldOwn /\ Tidy
    BY <1>1, IdlePaper DEF Distinct, NewOwn, OldOwn, Tidy
  <1>5. \A r \in Requests : Phase(dReq[r])
    BY <1>1, IdlePaper DEF Phase
  <1> QED BY <1>2, <1>3, <1>4, <1>5 DEF PaperInv

\* A slot takes a turn.
LEMMA PaperTurn ==
    ASSUME PaperInv, NEW r \in Requests, NEW q \in PaperSlots, Phase(q), dReq' = [dReq EXCEPT ![r] = q]
    PROVE  /\ dReq' \in [Requests -> PaperSlots]
           /\ \A o \in Requests : dReq'[o] = IF o = r THEN q ELSE dReq[o]
           /\ \A o \in Requests : Phase(dReq[o])'
  <1>1. dReq \in [Requests -> PaperSlots]
    BY DEF PaperInv, Papers!TypeOK, PaperSlots
  <1>2. dReq' \in [Requests -> PaperSlots] /\ \A o \in Requests : dReq'[o] = IF o = r THEN q ELSE dReq[o]
    BY <1>1
  <1> QED BY <1>2 DEF PaperInv, Phase

\* A request finds a row, and has nothing new yet.
LEMMA PaperFinds ==
    ASSUME PaperInv, NEW r \in Requests, NEW d \in DocIds, Papers!Exists(d), NEW q \in PaperSlots,
           q.pc \in {"save", "delete"}, q.doc = d, q.old = dRow[d].file, q.new = Nobody,
           Papers!Begin(r, q), UNCHANGED <<dRow, dDisk, dCollateral, dLost>>
    PROVE  PaperInv'
  <1>1. /\ dReq[r].pc = "idle" /\ dReq' = [dReq EXCEPT ![r] = q] /\ File(d) # Nobody
        /\ dUntidy' = (dUntidy \/ Papers!InFlight # {})
    BY DEF Papers!Begin, Papers!At, Papers!Exists, File
  <1>2. Phase(q)
    BY <1>1 DEF Phase, File
  <1>3. /\ dReq' \in [Requests -> PaperSlots] /\ \A o \in Requests : Phase(dReq[o])'
        /\ \A o \in Requests : dReq'[o] = IF o = r THEN q ELSE dReq[o]
    BY <1>1, <1>2, PaperTurn
  <1>4. \A e : File(e)' = File(e)
    BY DEF File
  <1>5. Papers!TypeOK'
    <2>1. dUntidy' \in BOOLEAN
      BY <1>1, Zenon
    <2> QED BY <1>3, <2>1 DEF PaperInv, Papers!TypeOK, PaperSlots
  <1>6. Distinct' /\ NewOwn' /\ OldOwn'
    BY <1>1, <1>3, <1>4 DEF PaperInv, Distinct, NewOwn, OldOwn, File
  <1>7. Papers!RowHasFile'
    BY <1>1, <1>3 DEF PaperInv, Papers!RowHasFile, Papers!Exists, Papers!At
  <1>8. ASSUME ~dUntidy' PROVE Tidy'
    <2>1. ~dUntidy /\ Papers!InFlight = {}
      BY <1>1, <1>8, Zenon
    <2>2. Tidy /\ \A o \in Requests : dReq[o].pc = "idle"
      BY <2>1 DEF PaperInv, Papers!InFlight
    <2>3. \A o \in Requests : dReq[o].new = Nobody /\ dReq[o].old = Nobody
      BY <2>2 DEF PaperInv, Phase
    <2>4. \A f \in dDisk : \E e \in DocIds : File(e) = f
      BY <2>2, <2>3, FilesAssumption DEF PaperInv, Papers!TypeOK, Tidy
    <2> QED BY <1>3, <1>4, <2>2, <2>4 DEF Tidy, File
  <1> QED BY <1>3, <1>5, <1>6, <1>7, <1>8 DEF PaperInv, Phase

\* A new file is no row's and no request's.
LEMMA UnusedFile ==
    ASSUME NEW f \in Papers!Unused
    PROVE  /\ f \in Files /\ f # Nobody
           /\ \A d \in DocIds : File(d) # f
           /\ \A r \in Requests : dReq[r].new # f /\ dReq[r].old # f
  BY FilesAssumption DEF Papers!Unused, Papers!Known, File

\* A request saves a new file, and begins with that or goes on.
LEMMA PaperSaves ==
    ASSUME PaperInv, NEW r \in Requests, NEW f \in Papers!Unused, NEW q \in PaperSlots, Phase(q),
           q.new = f, q.old = dReq[r].old, q.doc = dReq[r].doc \/ q.old = Nobody, dReq[r].new = Nobody,
           dReq' = [dReq EXCEPT ![r] = q], dDisk' = dDisk \cup {f}, UNCHANGED <<dRow, dCollateral, dLost>>,
           q.pc = "insert" \/ (q.pc = "unlink" /\ dReq[r].pc = "save"), dUntidy' \in BOOLEAN,
           ~dUntidy' => ~dUntidy /\ (dReq[r].pc = "idle" => Papers!InFlight = {})
    PROVE  PaperInv'
  <1>1. /\ dReq' \in [Requests -> PaperSlots] /\ \A o \in Requests : Phase(dReq[o])'
        /\ \A o \in Requests : dReq'[o] = IF o = r THEN q ELSE dReq[o]
    BY PaperTurn
  <1>2. \A e : File(e)' = File(e)
    BY DEF File
  <1>3. Papers!TypeOK'
    BY <1>1, UnusedFile DEF PaperInv, Papers!TypeOK, PaperSlots
  <1>4. Distinct' /\ OldOwn'
    BY <1>1, <1>2 DEF PaperInv, Distinct, OldOwn, File, Phase
  <1>5. NewOwn'
    BY <1>1, <1>2, UnusedFile DEF PaperInv, NewOwn, File
  <1>6. Papers!RowHasFile'
    <2>1. dReq[r].pc # "update"
      BY DEF PaperInv, Phase
    <2> QED BY <1>1, <2>1 DEF PaperInv, Papers!RowHasFile, Papers!Exists, Papers!At
  <1>7. ASSUME ~dUntidy' PROVE Tidy'
    <2>1. Tidy
      BY <1>7, Zenon DEF PaperInv
    <2>2. \A o \in Requests \ {r} : dReq[o].pc = "idle" /\ dReq[o].new = Nobody /\ dReq[o].old = Nobody
      BY <1>7, <2>1 DEF PaperInv, Tidy, Phase, Papers!InFlight
    <2>3. q.pc = "unlink" => q.doc = dReq[r].doc
      BY DEF PaperInv, Phase
    <2>4. q.pc = "unlink" => File(q.doc) = q.old
      BY <2>1, <2>3 DEF Tidy
    <2>5. \A o \in Requests : dReq'[o].pc \in {"save", "unlink", "update", "delete"} => o = r /\ q.pc = "unlink"
      BY <1>1, <2>2
    <2>6. \A g \in dDisk' : (\E d \in DocIds : File(d) = g) \/ (\E o \in Requests : dReq'[o].new = g \/ dReq'[o].old = g)
      BY <1>1, <2>1, UnusedFile, FilesAssumption DEF Tidy, PaperInv, Papers!TypeOK
    <2> QED BY <1>1, <1>2, <2>2, <2>4, <2>5, <2>6 DEF Tidy, File
  <1> QED BY <1>1, <1>3, <1>4, <1>5, <1>6, <1>7, Zenon DEF PaperInv, Phase

\* A request changes the file of a row, or none, and ends or goes on.
LEMMA PaperRow ==
    ASSUME PaperInv, Papers!TypeOK', NEW r \in Requests, NEW q \in PaperSlots, Phase(q), q.new = Nobody,
           q.old = Nobody \/ (q.old = dReq[r].old /\ q.doc = dReq[r].doc), q.pc \in {"idle", "erase"},
           dReq' = [dReq EXCEPT ![r] = q], UNCHANGED <<dDisk, dCollateral, dUntidy>>,
           NEW d \in DocIds, NEW f, \A e \in DocIds : dRow'[e].file = IF e = d THEN f ELSE File(e),
           f = dReq[r].new, dReq[r].pc \in {"insert", "update", "delete"}, dLost' \in {dLost, dLost \ {d}},
           q.pc = "erase" <=> dReq[r].pc = "delete",
           IF dReq[r].pc = "insert" THEN File(d) = Nobody ELSE d = dReq[r].doc
    PROVE  PaperInv'
  <1>1. /\ dReq' \in [Requests -> PaperSlots] /\ \A o \in Requests : Phase(dReq[o])'
        /\ \A o \in Requests : dReq'[o] = IF o = r THEN q ELSE dReq[o]
    BY PaperTurn
  <1>2. \A e \in DocIds : File(e)' = IF e = d THEN f ELSE File(e)
    BY DEF File
  <1>3. f # Nobody => f \in dDisk /\ \A e \in DocIds : File(e) # f
    BY DEF PaperInv, NewOwn
  <1>4. \A o \in Requests : f # Nobody => dReq[o].old # f /\ (dReq[o].new = f => o = r)
    BY DEF PaperInv, NewOwn
  <1>5. Distinct'
    BY <1>2, <1>3 DEF PaperInv, Distinct
  <1>6. NewOwn'
    BY <1>1, <1>2, <1>4 DEF PaperInv, NewOwn, File
  <1>7. OldOwn'
    <2> SUFFICES ASSUME NEW o \in Requests, dReq'[o].old # Nobody, NEW e \in DocIds, dRow'[e].file = dReq'[o].old
                 PROVE  e = dReq'[o].doc /\ dReq'[o].pc # "erase"
      BY DEF OldOwn, File
    <2>1. dReq'[o].old = dReq[o].old /\ dReq'[o].doc = dReq[o].doc
      BY <1>1
    <2>2. e # d /\ File(e) = dReq[o].old
      BY <1>4, <2>1 DEF File
    <2>3. e = dReq[o].doc /\ dReq[o].pc # "erase"
      BY <2>1, <2>2 DEF PaperInv, OldOwn
    <2>4. o = r => dReq[r].pc # "delete"
      BY <2>2, <2>3
    <2> QED BY <1>1, <2>1, <2>3, <2>4
  <1>8. Papers!RowHasFile'
    <2> SUFFICES ASSUME NEW e \in DocIds, dRow'[e].file # Nobody, dRow'[e].file \notin dDisk
                 PROVE  e \in dLost' \/ \E o \in Requests : dReq'[o].pc = "update" /\ dReq'[o].doc = e
      BY DEF Papers!RowHasFile, Papers!Exists, Papers!At
    <2>1. e # d /\ dRow[e].file # Nobody /\ dRow[e].file \notin dDisk
      BY <1>3 DEF File
    <2>2. e \in dLost \/ \E o \in Requests : dReq[o].pc = "update" /\ dReq[o].doc = e
      BY <2>1 DEF PaperInv, Papers!RowHasFile, Papers!Exists, Papers!At
    <2>3. dReq[r].pc = "update" => dReq[r].doc = d
      OBVIOUS
    <2> QED BY <1>1, <2>1, <2>2, <2>3
  <1>9. ASSUME Tidy PROVE Tidy'
    <2>1. \A o \in Requests \ {r} : dReq[o].pc = "idle" /\ dReq[o].new = Nobody /\ dReq[o].old = Nobody
      BY <1>9 DEF PaperInv, Tidy, Phase
    <2>2. \A o \in Requests : dReq'[o].pc \notin {"save", "unlink", "update", "delete"}
      BY <1>1, <2>1
    <2>3. ASSUME NEW g \in dDisk
          PROVE  (\E e \in DocIds : File(e)' = g) \/ (\E o \in Requests : dReq'[o].new = g \/ dReq'[o].old = g)
      <3>1. g # Nobody
        BY FilesAssumption DEF PaperInv, Papers!TypeOK
      <3>2. CASE g = f
        BY <1>2, <3>2
      <3>3. CASE g # f
        <4>1. (\E e \in DocIds : File(e) = g) \/ g = dReq[r].old
          BY <1>9, <2>1, <3>1, <3>3 DEF Tidy
        <4>2. dReq[r].pc = "insert" => dReq[r].old = Nobody
          BY DEF PaperInv, Phase
        <4>3. dReq[r].pc = "update" => dReq[r].old # g /\ File(d) = dReq[r].old
          BY <1>9 DEF Tidy
        <4>4. dReq[r].pc = "delete" => q.old = dReq[r].old /\ File(d) = dReq[r].old
          BY <1>9 DEF Tidy, Phase
        <4>5. CASE g = File(d)
          BY <1>1, <3>1, <4>3, <4>4, <4>5
        <4>6. CASE g # File(d)
          BY <1>1, <1>2, <3>1, <4>1, <4>2, <4>3, <4>4, <4>6
        <4> QED BY <4>5, <4>6
      <3> QED BY <3>2, <3>3
    <2> QED BY <1>1, <2>1, <2>2, <2>3 DEF Tidy, File
  <1> QED BY <1>1, <1>5, <1>6, <1>7, <1>8, <1>9 DEF PaperInv, Phase

\* A request unlinks the file that it found.
LEMMA PaperUnlinks ==
    ASSUME PaperInv, NEW r \in Requests, dReq[r].pc \in {"unlink", "erase"}, NEW q \in PaperSlots, Phase(q),
           IF dReq[r].pc = "unlink"
           THEN q.pc = "update" /\ q.new = dReq[r].new /\ q.old = dReq[r].old /\ q.doc = dReq[r].doc
           ELSE q = Papers!Idle,
           dReq' = [dReq EXCEPT ![r] = q], dDisk' = dDisk \ {dReq[r].old},
           UNCHANGED <<dRow, dCollateral, dLost, dUntidy>>
    PROVE  PaperInv'
  <1>1. /\ dReq' \in [Requests -> PaperSlots] /\ \A o \in Requests : Phase(dReq[o])'
        /\ \A o \in Requests : dReq'[o] = IF o = r THEN q ELSE dReq[o]
    BY PaperTurn
  <1>2. \A e : File(e)' = File(e)
    BY DEF File
  <1>3. dReq[r].old # Nobody
    BY DEF PaperInv, Phase
  <1>4. Papers!TypeOK'
    BY <1>1 DEF PaperInv, Papers!TypeOK, PaperSlots
  <1>5. Distinct' /\ OldOwn'
    BY <1>1, <1>2, IdlePaper DEF PaperInv, Distinct, OldOwn, File
  <1>6. NewOwn'
    BY <1>1, <1>2, IdlePaper DEF PaperInv, NewOwn, File
  <1>7. Papers!RowHasFile'
    <2> SUFFICES ASSUME NEW e \in DocIds, dRow[e].file # Nobody, dRow[e].file \notin dDisk'
                 PROVE  e \in dLost \/ \E o \in Requests : dReq'[o].pc = "update" /\ dReq'[o].doc = e
      BY DEF Papers!RowHasFile, Papers!Exists, Papers!At
    <2>1. CASE dRow[e].file = dReq[r].old
      BY <1>1, <1>3, <2>1 DEF PaperInv, OldOwn, File
    <2>2. CASE dRow[e].file # dReq[r].old
      BY <1>1, <2>2 DEF PaperInv, Papers!RowHasFile, Papers!Exists, Papers!At
    <2> QED BY <2>1, <2>2
  <1>8. ASSUME Tidy PROVE Tidy'
    <2>1. \A o \in Requests \ {r} : dReq[o].pc = "idle" /\ dReq[o].new = Nobody /\ dReq[o].old = Nobody
      BY <1>8 DEF PaperInv, Tidy, Phase
    <2>2. dReq[r].pc = "erase" => dReq[r].new = Nobody
      BY DEF PaperInv, Phase
    <2>3. ASSUME NEW g \in dDisk'
          PROVE  (\E e \in DocIds : File(e) = g) \/ (\E o \in Requests : dReq'[o].new = g \/ dReq'[o].old = g)
      <3>1. g # Nobody /\ g \in dDisk /\ g # dReq[r].old
        BY FilesAssumption DEF PaperInv, Papers!TypeOK
      <3>2. (\E e \in DocIds : File(e) = g) \/ g = dReq[r].new
        BY <1>8, <2>1, <3>1 DEF Tidy
      <3> QED BY <1>1, <2>2, <3>1, <3>2
    <2>4. q.pc = "update" => File(q.doc) = q.old /\ q.old \notin dDisk'
      BY <1>8, IdlePaper DEF Tidy
    <2>5. \A o \in Requests : dReq'[o].pc # "idle" => o = r /\ q.pc = "update"
      BY <1>1, <2>1, IdlePaper
    <2> QED BY <1>1, <1>2, <2>3, <2>4, <2>5 DEF Tidy, File
  <1> QED BY <1>1, <1>4, <1>5, <1>6, <1>7, <1>8 DEF PaperInv, Phase

\* Every step of the documents keeps the invariant.
LEMMA PaperStep ==
    ASSUME PaperInv, [Papers!Next]_dVars
    PROVE  PaperInv'
  <1>0. /\ dReq \in [Requests -> PaperSlots]
        /\ dRow \in [DocIds -> [file : Files \cup {Nobody}, collateral : 0..MaxSaves, chat : BOOLEAN]]
        /\ dCollateral \in 0..MaxSaves /\ 0 \in 0..MaxSaves /\ dUntidy \in BOOLEAN
    BY FilesAssumption DEF PaperInv, Papers!TypeOK, PaperSlots
  <1>1. ASSUME NEW r \in Requests, Papers!UploadSave(r) PROVE PaperInv'
    <2>1. PICK f \in Papers!Unused, chat \in BOOLEAN, c \in {0, dCollateral} :
              /\ Papers!Begin(r, [Papers!Idle EXCEPT !.pc = "insert", !.new = f, !.collateral = c, !.chat = chat])
              /\ dDisk' = dDisk \cup {f}
      BY <1>1, Zenon DEF Papers!UploadSave
    <2>0. PICK q : q = [Papers!Idle EXCEPT !.pc = "insert", !.new = f, !.collateral = c, !.chat = chat]
      OBVIOUS
    <2>2. f \in Files /\ f # Nobody
      BY UnusedFile
    <2>3. q \in PaperSlots
      <3>1. c \in 0..MaxSaves
        BY <1>0
      <3> QED BY <2>0, <2>2, <3>1, IdlePaper, Zenon DEF PaperSlots
    <2>4. q.pc = "insert" /\ q.new = f /\ q.old = Nobody
      BY <2>0, IdlePaper, Zenon DEF PaperSlots
    <2>5. /\ dReq[r].pc = "idle" /\ dReq' = [dReq EXCEPT ![r] = q] /\ dUntidy' = (dUntidy \/ Papers!InFlight # {})
      BY <2>0, <2>1 DEF Papers!Begin, Papers!At
    <2>6. dReq[r].new = Nobody /\ dReq[r].old = Nobody
      BY <2>5 DEF PaperInv, Phase
    <2>7. dUntidy' \in BOOLEAN /\ (~dUntidy' => ~dUntidy /\ Papers!InFlight = {})
      BY <2>5, Zenon
    <2>8. UNCHANGED <<dRow, dCollateral, dLost>>
      BY <1>1 DEF Papers!UploadSave
    <2>9. Phase(q)
      BY <2>2, <2>4 DEF Phase
    <2> QED BY <2>1, <2>3, <2>4, <2>5, <2>6, <2>7, <2>8, <2>9, PaperSaves
  <1>2. ASSUME NEW r \in Requests, Papers!UploadRow(r) PROVE PaperInv'
    <2>1. PICK d \in DocIds :
              /\ ~Papers!Exists(d)
              /\ dRow' = [dRow EXCEPT ![d] = [file |-> dReq[r].new, chat |-> dReq[r].chat, collateral |-> dReq[r].collateral]]
      BY <1>2 DEF Papers!UploadRow
    <2>2. /\ dReq[r].pc = "insert" /\ dReq' = [dReq EXCEPT ![r] = Papers!Idle]
          /\ UNCHANGED <<dDisk, dCollateral, dLost, dUntidy>>
      BY <1>2 DEF Papers!UploadRow, Papers!At, Papers!Finish
    <2>3. dReq[r] \in PaperSlots
      BY <1>0
    <2>4. [file |-> dReq[r].new, chat |-> dReq[r].chat, collateral |-> dReq[r].collateral]
             \in [file : Files \cup {Nobody}, collateral : 0..MaxSaves, chat : BOOLEAN]
      BY <2>3, Zenon DEF PaperSlots
    <2>5. dRow' \in [DocIds -> [file : Files \cup {Nobody}, collateral : 0..MaxSaves, chat : BOOLEAN]]
      BY <1>0, <2>1, <2>4
    <2>6. \A e \in DocIds : dRow'[e].file = IF e = d THEN dReq[r].new ELSE File(e)
      BY <1>0, <2>1 DEF File
    <2>7. dReq' \in [Requests -> PaperSlots]
      BY <1>0, <2>2, IdlePaper
    <2>8. Papers!TypeOK'
      BY <1>0, <2>2, <2>5, <2>7 DEF PaperInv, Papers!TypeOK, PaperSlots
    <2>9. File(d) = Nobody
      BY <2>1 DEF Papers!Exists, File
    <2>10. PICK f : f = dReq[r].new
      OBVIOUS
    <2>11. Phase(Papers!Idle)
      BY IdlePaper DEF Phase
    <2> QED BY <2>2, <2>6, <2>8, <2>9, <2>10, <2>11, IdlePaper, PaperRow
  <1>3. ASSUME NEW r \in Requests, Papers!ReplaceRead(r) \/ Papers!RemoveRead(r) PROVE PaperInv'
    <2>1. PICK d \in DocIds, pc \in {"save", "delete"} :
              Papers!Exists(d) /\ Papers!Begin(r, [Papers!Idle EXCEPT !.pc = pc, !.doc = d, !.old = dRow[d].file])
      BY <1>3, Zenon DEF Papers!ReplaceRead, Papers!RemoveRead
    <2>0. PICK q : q = [Papers!Idle EXCEPT !.pc = pc, !.doc = d, !.old = dRow[d].file]
      OBVIOUS
    <2>2. dRow[d].file \in Files \cup {Nobody}
      BY <1>0
    <2>3. q \in PaperSlots /\ q.pc = pc /\ q.doc = d /\ q.old = dRow[d].file /\ q.new = Nobody
      BY <2>0, <2>2, IdlePaper, Zenon DEF PaperSlots
    <2>4. UNCHANGED <<dRow, dDisk, dCollateral, dLost>>
      BY <1>3 DEF Papers!ReplaceRead, Papers!RemoveRead
    <2> QED BY <2>0, <2>1, <2>3, <2>4, PaperFinds
  <1>4. ASSUME NEW r \in Requests, Papers!ReplaceSave(r) PROVE PaperInv'
    <2>1. PICK f \in Papers!Unused : /\ dDisk' = dDisk \cup {f}
                                     /\ dReq' = [dReq EXCEPT ![r].pc = "unlink", ![r].new = f]
      BY <1>4 DEF Papers!ReplaceSave
    <2>0. PICK q : q = [dReq[r] EXCEPT !.pc = "unlink", !.new = f]
      OBVIOUS
    <2>2. dReq[r] \in PaperSlots /\ f \in Files /\ f # Nobody
      BY <1>0, UnusedFile
    <2>3. q \in PaperSlots /\ q.pc = "unlink" /\ q.new = f /\ q.old = dReq[r].old /\ q.doc = dReq[r].doc
      BY <2>0, <2>2, Zenon DEF PaperSlots
    <2>4. /\ dReq[r].pc = "save" /\ UNCHANGED <<dRow, dCollateral, dLost, dUntidy>>
      BY <1>4 DEF Papers!ReplaceSave, Papers!At
    <2>5. dReq' = [dReq EXCEPT ![r] = q]
      BY <1>0, <2>0, <2>1
    <2>6. dReq[r].new = Nobody /\ dReq[r].old # Nobody
      BY <2>4 DEF PaperInv, Phase
    <2>7. Phase(q)
      BY <2>2, <2>3, <2>6 DEF Phase
    <2>8. dUntidy' \in BOOLEAN /\ (~dUntidy' => ~dUntidy)
      BY <1>0, <2>4
    <2> QED BY <2>1, <2>3, <2>4, <2>5, <2>6, <2>7, <2>8, PaperSaves
  <1>5. ASSUME NEW r \in Requests, Papers!ReplaceUnlink(r) PROVE PaperInv'
    <2>0. PICK q : q = [dReq[r] EXCEPT !.pc = "update"]
      OBVIOUS
    <2>1. /\ dReq[r].pc = "unlink" /\ dReq' = [dReq EXCEPT ![r].pc = "update"] /\ dDisk' = dDisk \ {dReq[r].old}
          /\ UNCHANGED <<dRow, dCollateral, dLost, dUntidy>>
      BY <1>5 DEF Papers!ReplaceUnlink, Papers!At, Papers!Goto
    <2>2. dReq[r] \in PaperSlots
      BY <1>0
    <2>3. q \in PaperSlots /\ q.pc = "update" /\ q.new = dReq[r].new /\ q.old = dReq[r].old /\ q.doc = dReq[r].doc
      BY <2>0, <2>2, Zenon DEF PaperSlots
    <2>4. dReq' = [dReq EXCEPT ![r] = q]
      BY <1>0, <2>0, <2>1
    <2>5. Phase(q)
      BY <2>1, <2>3 DEF PaperInv, Phase
    <2> QED BY <2>1, <2>3, <2>4, <2>5, PaperUnlinks
  <1>6. ASSUME NEW r \in Requests, Papers!RemoveFile(r) PROVE PaperInv'
    <2>1. /\ dReq[r].pc = "erase" /\ dReq' = [dReq EXCEPT ![r] = Papers!Idle] /\ dDisk' = dDisk \ {dReq[r].old}
          /\ UNCHANGED <<dRow, dCollateral, dLost, dUntidy>>
      BY <1>6 DEF Papers!RemoveFile, Papers!At, Papers!Finish
    <2>2. Phase(Papers!Idle)
      BY IdlePaper DEF Phase
    <2> QED BY <2>1, <2>2, IdlePaper, PaperUnlinks
  <1>7. ASSUME NEW r \in Requests, Papers!ReplaceRow(r) PROVE PaperInv'
    <2>0. PICK d, f : d = dReq[r].doc /\ f = dReq[r].new
      OBVIOUS
    <2>1. /\ dReq[r].pc = "update" /\ dRow' = [dRow EXCEPT ![d].file = f] /\ dLost' = dLost \ {d}
          /\ dReq' = [dReq EXCEPT ![r] = Papers!Idle] /\ UNCHANGED <<dDisk, dCollateral, dUntidy>>
      BY <1>7, <2>0 DEF Papers!ReplaceRow, Papers!At, Papers!Finish
    <2>2. d \in DocIds /\ f \in Files \cup {Nobody}
      BY <1>0, <2>0 DEF PaperSlots
    <2>3. dRow[d] \in [file : Files \cup {Nobody}, collateral : 0..MaxSaves, chat : BOOLEAN]
      BY <1>0, <2>2
    <2>4. /\ [dRow[d] EXCEPT !.file = f] \in [file : Files \cup {Nobody}, collateral : 0..MaxSaves, chat : BOOLEAN]
          /\ [dRow[d] EXCEPT !.file = f].file = f
      BY <2>2, <2>3, Zenon
    <2>5. dRow' = [dRow EXCEPT ![d] = [dRow[d] EXCEPT !.file = f]]
      BY <1>0, <2>1, <2>2
    <2>6. /\ dRow' \in [DocIds -> [file : Files \cup {Nobody}, collateral : 0..MaxSaves, chat : BOOLEAN]]
          /\ \A e \in DocIds : dRow'[e].file = IF e = d THEN f ELSE File(e)
      BY <1>0, <2>4, <2>5 DEF File
    <2>7. dReq' \in [Requests -> PaperSlots]
      BY <1>0, <2>1, IdlePaper
    <2>8. Papers!TypeOK'
      BY <1>0, <2>1, <2>6, <2>7 DEF PaperInv, Papers!TypeOK, PaperSlots
    <2>9. Phase(Papers!Idle)
      BY IdlePaper DEF Phase
    <2>10. /\ dReq' = [dReq EXCEPT ![r] = Papers!Idle] /\ UNCHANGED <<dDisk, dCollateral, dUntidy>>
           /\ f = dReq[r].new /\ dReq[r].pc \in {"insert", "update", "delete"} /\ dLost' \in {dLost, dLost \ {d}}
           /\ (Papers!Idle.pc = "erase" <=> dReq[r].pc = "delete")
           /\ IF dReq[r].pc = "insert" THEN File(d) = Nobody ELSE d = dReq[r].doc
      BY <2>0, <2>1, IdlePaper
    <2>11. \A e \in DocIds : dRow'[e].file = IF e = d THEN f ELSE File(e)
      BY <2>6
    <2> QED BY <2>2, <2>8, <2>9, <2>10, <2>11, IdlePaper, PaperRow, ZenonT(60)
  <1>8. ASSUME NEW r \in Requests, Papers!RemoveRow(r) PROVE PaperInv'
    <2>0. PICK d, f, q : d = dReq[r].doc /\ f = dReq[r].new /\ q = [dReq[r] EXCEPT !.pc = "erase"]
      OBVIOUS
    <2>1. /\ dReq[r].pc = "delete" /\ dRow' = [dRow EXCEPT ![d] = Papers!NoRow] /\ dLost' = dLost \ {d}
          /\ dReq' = [dReq EXCEPT ![r].pc = "erase"] /\ UNCHANGED <<dDisk, dCollateral, dUntidy>>
      BY <1>8, <2>0 DEF Papers!RemoveRow, Papers!At, Papers!Goto
    <2>2. d \in DocIds /\ dReq[r] \in PaperSlots
      BY <1>0, <2>0 DEF PaperSlots
    <2>3. q \in PaperSlots /\ q.pc = "erase" /\ q.new = dReq[r].new /\ q.old = dReq[r].old /\ q.doc = dReq[r].doc
      BY <2>0, <2>2, Zenon DEF PaperSlots
    <2>4. dReq' = [dReq EXCEPT ![r] = q]
      BY <1>0, <2>0, <2>1
    <2>5. f = Nobody /\ Phase(q)
      BY <2>0, <2>1, <2>3 DEF PaperInv, Phase
    <2>6. /\ dRow' \in [DocIds -> [file : Files \cup {Nobody}, collateral : 0..MaxSaves, chat : BOOLEAN]]
          /\ \A e \in DocIds : dRow'[e].file = IF e = d THEN f ELSE File(e)
      BY <1>0, <2>1, <2>5, BlankPaper DEF File
    <2>7. dReq' \in [Requests -> PaperSlots]
      BY <1>0, <2>3, <2>4
    <2>8. Papers!TypeOK'
      BY <1>0, <2>1, <2>6, <2>7 DEF PaperInv, Papers!TypeOK, PaperSlots
    <2>10. /\ UNCHANGED <<dDisk, dCollateral, dUntidy>>
           /\ f = dReq[r].new /\ dReq[r].pc \in {"insert", "update", "delete"} /\ dLost' \in {dLost, dLost \ {d}}
           /\ (q.pc = "erase" <=> dReq[r].pc = "delete") /\ q.pc \in {"idle", "erase"}
           /\ q.new = Nobody /\ q.old = dReq[r].old /\ q.doc = dReq[r].doc
           /\ IF dReq[r].pc = "insert" THEN File(d) = Nobody ELSE d = dReq[r].doc
      BY <2>0, <2>1, <2>3, <2>5
    <2>11. \A e \in DocIds : dRow'[e].file = IF e = d THEN f ELSE File(e)
      BY <2>6
    <2> QED BY <2>2, <2>3, <2>4, <2>5, <2>8, <2>10, <2>11, PaperRow, ZenonT(60)
  <1>9. ASSUME NEW r \in Requests, Papers!Cut(r) PROVE PaperInv'
    <2>1. /\ dReq[r].pc # "idle" /\ dReq' = [dReq EXCEPT ![r] = Papers!Idle] /\ dUntidy' = TRUE
          /\ dLost' = IF dReq[r].pc = "update" /\ dRow[dReq[r].doc].file # Nobody /\ dRow[dReq[r].doc].file \notin dDisk
                      THEN dLost \cup {dReq[r].doc} ELSE dLost
          /\ UNCHANGED <<dRow, dDisk, dCollateral>>
      BY <1>9 DEF Papers!Cut, Papers!At, Papers!Finish, Papers!InFlight, Papers!Exists
    <2>2. Phase(Papers!Idle)
      BY IdlePaper DEF Phase
    <2>3. /\ dReq' \in [Requests -> PaperSlots] /\ \A o \in Requests : Phase(dReq[o])'
          /\ \A o \in Requests : dReq'[o] = IF o = r THEN Papers!Idle ELSE dReq[o]
      BY <2>1, <2>2, IdlePaper, PaperTurn
    <2>4. \A e : File(e)' = File(e)
      BY <2>1 DEF File
    <2>5. dLost' \subseteq DocIds /\ dLost \subseteq dLost'
      BY <1>0, <2>1 DEF PaperInv, Papers!TypeOK, PaperSlots
    <2>6. Papers!TypeOK'
      BY <1>0, <2>1, <2>3, <2>5 DEF PaperInv, Papers!TypeOK, PaperSlots
    <2>7. Distinct' /\ NewOwn' /\ OldOwn'
      BY <2>1, <2>3, <2>4, IdlePaper DEF PaperInv, Distinct, NewOwn, OldOwn, File
    <2>8. Papers!RowHasFile'
      <3> SUFFICES ASSUME NEW e \in DocIds, dRow[e].file # Nobody, dRow[e].file \notin dDisk
                   PROVE  e \in dLost' \/ \E o \in Requests : dReq'[o].pc = "update" /\ dReq'[o].doc = e
        BY <2>1 DEF Papers!RowHasFile, Papers!Exists, Papers!At
      <3>1. e \in dLost \/ \E o \in Requests : dReq[o].pc = "update" /\ dReq[o].doc = e
        BY DEF PaperInv, Papers!RowHasFile, Papers!Exists, Papers!At
      <3> QED BY <2>1, <2>3, <2>5, <3>1
    <2> QED BY <2>1, <2>3, <2>6, <2>7, <2>8, Zenon DEF PaperInv, Phase
  <1>10. CASE Papers!ChatRemove
    <2>1. PICK d \in DocIds : Papers!Exists(d) /\ dRow' = [dRow EXCEPT ![d] = Papers!NoRow] /\ dLost' = dLost \ {d}
      BY <1>10 DEF Papers!ChatRemove
    <2>2. dUntidy' = TRUE /\ UNCHANGED <<dDisk, dCollateral, dReq>>
      BY <1>10 DEF Papers!ChatRemove
    <2>3. /\ dRow' \in [DocIds -> [file : Files \cup {Nobody}, collateral : 0..MaxSaves, chat : BOOLEAN]]
          /\ \A e \in DocIds : File(e)' = IF e = d THEN Nobody ELSE File(e)
      BY <1>0, <2>1, BlankPaper DEF File
    <2>4. Papers!TypeOK'
      BY <1>0, <2>1, <2>2, <2>3 DEF PaperInv, Papers!TypeOK, PaperSlots
    <2>5. Distinct' /\ NewOwn' /\ OldOwn'
      BY <2>2, <2>3 DEF PaperInv, Distinct, NewOwn, OldOwn, File
    <2>6. Papers!RowHasFile'
      BY <2>1, <2>2, <2>3 DEF PaperInv, Papers!RowHasFile, Papers!Exists, Papers!At, File
    <2> QED BY <2>2, <2>4, <2>5, <2>6, Zenon DEF PaperInv, Phase
  <1>11. CASE Papers!SaveCollaterals \/ UNCHANGED dVars
    <2>1. UNCHANGED <<dRow, dDisk, dReq, dLost, dUntidy>> /\ dCollateral' \in 0..MaxSaves
      BY <1>0, <1>11, FilesAssumption DEF Papers!SaveCollaterals, dVars
    <2>2. Papers!TypeOK'
      BY <2>1 DEF PaperInv, Papers!TypeOK
    <2> QED BY <2>1, <2>2 DEF PaperInv, Phase, Distinct, NewOwn, OldOwn, Tidy, File, Papers!RowHasFile,
               Papers!Exists, Papers!At
  <1> QED BY <1>1, <1>2, <1>3, <1>4, <1>5, <1>6, <1>7, <1>8, <1>9, <1>10, <1>11 DEF Papers!Next

\* The invariant holds while the documents run.
LEMMA PaperAlways == OfficeSpec => [](part = "papers" => PaperInv)
  <1> DEFINE Inv == part = "papers" => PaperInv
  <1>1. OfficeInit => Inv
    BY PaperInit DEF OfficeInit
  <1>2. Inv /\ [OfficeNext]_officeVars => Inv'
    BY PaperSteps, PaperStep
  <1> QED BY <1>1, <1>2, PTL DEF OfficeSpec

(* The files on disk and the rows match: a row's file is there, but for a  *)
(* replacement between its unlink and its update or cut off there, and a   *)
(* file is some row's or some request's unless requests were cut or        *)
(* overlapped (DocumentsController.upload, replace and remove, and what    *)
(* takes documents along).                                                 *)
THEOREM FilesKept == OfficeSpec => []FilesMatchRows
  <1>1. ASSUME PaperInv PROVE Papers!FilesMatchRows
    <2>1. ASSUME ~dUntidy PROVE dDisk \subseteq Papers!Known
      <3>1. Tidy
        BY <1>1, <2>1 DEF PaperInv
      <3> QED BY <3>1 DEF Tidy, Papers!Known, File
    <2> QED BY <1>1, <2>1, Zenon DEF PaperInv, Papers!FilesMatchRows, Papers!NoStrayFiles
  <1>2. (part = "papers" => PaperInv) => FilesMatchRows
    BY <1>1 DEF FilesMatchRows
  <1> QED BY <1>2, PaperAlways, PTL
=============================================================================
