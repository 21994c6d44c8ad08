------------------------------ MODULE Messages ------------------------------
(***************************************************************************)
(* The chat of one case: MessagesController's send, list, edit and remove, *)
(* with the read receipts that Message.readBy keeps as a comma list.       *)
(* Opening the thread (list) reads every message, appends the viewer to    *)
(* the readBy it has read and writes the list back, one update a message,  *)
(* and answers when all are done.  hydrate does the same for the direct,   *)
(* general and saved threads.  A message can be changed by its sender as   *)
(* long as no one else is recorded to have read it.                        *)
(*                                                                         *)
(* The text is the number of times it was written; 0 is no message.  Every *)
(* user may see every message: visibleTo only narrows the reads.  The      *)
(* attachments are in Documents.                                           *)
(***************************************************************************)
EXTENDS Naturals, FiniteSets

CONSTANTS
    Users,     \* participants of the case
    Nobody,    \* the null reference
    Slots,     \* identities a Message row may take
    Requests,  \* request slots, the bound on concurrency
    MaxEdits   \* bound: the number of edits of a message

VARIABLES
    message,    \* the Message rows
    req,        \* what each request in flight has read
    shown,      \* ghost: who has been shown each message, and how it read
    disturbed   \* ghost: messages on which requests overlapped or were cut

vars == <<message, req, shown, disturbed>>

-----------------------------------------------------------------------------
Texts     == 0..(MaxEdits + 1)
NoMessage == [text |-> 0, sender |-> Nobody, readBy |-> {}]
Idle      == [pc |-> "idle", user |-> Nobody, seen |-> [m \in Slots |-> NoMessage], todo |-> {}]

Init ==
    /\ message   = [m \in Slots |-> NoMessage]
    /\ req       = [r \in Requests |-> Idle]
    /\ shown     = [m \in Slots |-> [u \in Users |-> 0]]
    /\ disturbed = {}

Exists(m) == message[m].text # 0
InFlight  == {r \in Requests : req[r].pc # "idle"}
At(r, pc) == req[r].pc = pc
Finish(r) == req' = [req EXCEPT ![r] = Idle]

\* The messages a request in flight has read.
Holds(r) == {m \in Slots : req[r].seen[m].text # 0}

Begin(r, q) ==
    /\ At(r, "idle")
    /\ req' = [req EXCEPT ![r] = q]
    /\ disturbed' = disturbed \cup UNION {Holds(o) : o \in InFlight}

-----------------------------------------------------------------------------
\* Slip: nobody counts as a reader at first.
SendUnread ==
    /\ \E m \in Slots, u \in Users :
          /\ ~Exists(m)
          /\ \A r \in InFlight : m \notin Holds(r)
          /\ message' = [message EXCEPT ![m] = [text |-> 1, sender |-> u, readBy |-> {}]]
          /\ shown' = [shown EXCEPT ![m] = [v \in Users |-> 0]]
          /\ disturbed' = disturbed \ {m}
    /\ UNCHANGED req

\* send: the sender counts as a reader from the start.
Send ==
    /\ \E m \in Slots, u \in Users :
          /\ ~Exists(m)
          /\ \A r \in InFlight : m \notin Holds(r)
          /\ message' = [message EXCEPT ![m] = [text |-> 1, sender |-> u, readBy |-> {u}]]
          /\ shown' = [shown EXCEPT ![m] = [v \in Users |-> 0]]
          /\ disturbed' = disturbed \ {m}
    /\ UNCHANGED req

\* list: the messages of others that the viewer is not recorded on.
ToMark(u) == {m \in Slots : Exists(m) /\ message[m].sender # u /\ u \notin message[m].readBy}

ListRead(r) ==
    /\ \E u \in Users : Begin(r, [pc |-> "mark", user |-> u, seen |-> message, todo |-> ToMark(u)])
    /\ UNCHANGED <<message, shown>>

\* Slip: the viewer is written in place of the list.
ListMarkOnly(r) ==
    /\ At(r, "mark")
    /\ \E m \in req[r].todo :
          /\ Exists(m)
          /\ message' = [message EXCEPT ![m].readBy = {message[m].sender, req[r].user}]
          /\ req' = [req EXCEPT ![r].todo = @ \ {m}]
    /\ UNCHANGED <<shown, disturbed>>

\* The updates run in any order; each writes the list as it was read.
ListMark(r) ==
    /\ At(r, "mark")
    /\ \E m \in req[r].todo :
          /\ Exists(m)
          /\ message' = [message EXCEPT ![m].readBy = req[r].seen[m].readBy \cup {req[r].user}]
          /\ req' = [req EXCEPT ![r].todo = @ \ {m}]
    /\ UNCHANGED <<shown, disturbed>>

\* The answer shows the texts as they were read.
ListAnswer(r) ==
    /\ At(r, "mark")
    /\ req[r].todo = {}
    /\ shown' = [m \in Slots |-> IF m \in Holds(r) /\ Exists(m)
                                 THEN [shown[m] EXCEPT ![req[r].user] = req[r].seen[m].text]
                                 ELSE shown[m]]
    /\ Finish(r)
    /\ UNCHANGED <<message, disturbed>>

-----------------------------------------------------------------------------
(* edit and remove, behind ownUnreadMessage.                               *)
OthersRead(m) == message[m].readBy \ {message[m].sender}

\* Slip: a read message passes the guard.
OwnUnreadAlways(r, pc) ==
    /\ \E m \in Slots :
          /\ Exists(m)
          /\ Begin(r, [pc |-> pc, user |-> message[m].sender, todo |-> {m},
                       seen |-> [Idle.seen EXCEPT ![m] = message[m]]])
    /\ UNCHANGED <<message, shown>>

OwnUnread(r, pc) ==
    /\ \E m \in Slots :
          /\ Exists(m)
          /\ OthersRead(m) = {}
          /\ Begin(r, [pc |-> pc, user |-> message[m].sender, todo |-> {m},
                       seen |-> [Idle.seen EXCEPT ![m] = message[m]]])
    /\ UNCHANGED <<message, shown>>

EditRead(r)   == OwnUnread(r, "edit")
RemoveRead(r) == OwnUnread(r, "remove")

EditWrite(r) ==
    /\ At(r, "edit")
    /\ \E m \in req[r].todo :
          /\ Exists(m)
          /\ message[m].text <= MaxEdits
          /\ message' = [message EXCEPT ![m].text = @ + 1]
    /\ Finish(r)
    /\ UNCHANGED <<shown, disturbed>>

RemoveWrite(r) ==
    /\ At(r, "remove")
    /\ \E m \in req[r].todo : /\ Exists(m)
                              /\ message' = [message EXCEPT ![m] = NoMessage]
                              /\ shown' = [shown EXCEPT ![m] = [v \in Users |-> 0]]
    /\ Finish(r)
    /\ UNCHANGED disturbed

\* A crash, or an update of a row that is gone, which fails the whole list:
\* marks that were made stay, and the viewer sees nothing.
Cut(r) ==
    /\ r \in InFlight
    /\ Finish(r)
    /\ disturbed' = IF At(r, "mark") THEN disturbed \cup Holds(r) ELSE disturbed
    /\ UNCHANGED <<message, shown>>

Next ==
    \/ Send
    \/ \E r \in Requests :
          \/ ListRead(r) \/ ListMark(r) \/ ListAnswer(r)
          \/ EditRead(r) \/ EditWrite(r) \/ RemoveRead(r) \/ RemoveWrite(r)
          \/ Cut(r)

Spec == Init /\ [][Next]_vars

-----------------------------------------------------------------------------
(* Rows and slots stay in their domains, and a sender has read his own.    *)
Row == [text : Texts, sender : Users \cup {Nobody}, readBy : SUBSET Users]

TypeOK ==
    /\ message \in [Slots -> Row]
    /\ \A m \in Slots : Exists(m) => message[m].sender \in message[m].readBy
    /\ req \in [Requests -> [pc : {"idle", "mark", "edit", "remove"}, user : Users \cup {Nobody},
                             seen : [Slots -> Row], todo : SUBSET Slots]]
    /\ shown \in [Slots -> [Users -> Texts]]
    /\ disturbed \subseteq Slots

(* The receipts are true: with no list in flight, the recorded readers of  *)
(* a message are its sender and those who were shown it.  Only requests    *)
(* that overlapped on the message, or were cut off, can lose a receipt or  *)
(* record a reader who saw nothing.                                        *)
ReceiptsAreTrue ==
    \A m \in Slots : Exists(m) /\ m \notin disturbed /\ (\A r \in InFlight : m \notin Holds(r)) =>
        message[m].readBy = {message[m].sender} \cup {u \in Users : shown[m][u] # 0}

(* What someone has been shown is not changed or withdrawn behind his back *)
(* (ownUnreadMessage), unless requests on the message overlapped: reading  *)
(* the thread and changing a message meet only through the receipts.       *)
ShownStays ==
    \A m \in Slots : (\E u \in Users : u # message[m].sender /\ shown[m][u] # 0) /\ m \notin disturbed'
        => message'[m].text = message[m].text

ShownSettles == [][ShownStays]_vars
=============================================================================
