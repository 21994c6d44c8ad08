------------------------ MODULE CollectionReminders -------------------------
(***************************************************************************)
(* The deadline of one debt collection: the collector it is assigned to,   *)
(* the day it runs from, its length, and the two flags by which            *)
(* CollectionDeadlineService.check sends each reminder once.  The update   *)
(* handler of CollectionsService writes the same columns; its money and    *)
(* status are in Collections, and here only whether it is closed.          *)
(*                                                                         *)
(* Time is in days.  check reads the row, sends, and then sets the flag:   *)
(* three actions, with an update or a crash possible between them.         *)
(***************************************************************************)
EXTENDS Naturals

CONSTANTS
    Collectors,  \* the active accounts a collection can be assigned to
    NoOne,       \* the null reference
    DueDays,     \* the lengths an update may set
    MaxDay,      \* bound: the last day
    Requests     \* update slots, the bound on concurrency

VARIABLES
    today,
    col,     \* the columns of the collection
    req,     \* what each update in flight has read and was sent
    job,     \* what the run of check in flight has read
    told,    \* ghost: reminders sent since the deadline last changed or was re-armed
    excuse   \* ghost: what has come between the flags and the reminders since

vars == <<today, col, req, job, told, excuse>>

-----------------------------------------------------------------------------
Keep    == "KEEP"
NoWrite == [active |-> FALSE, held |-> NoOne, collector |-> Keep, due |-> 0]

\* The anchor is assignedAt, or createdAt, which is day 0.
Fresh(collector, due, day) ==
    [collector |-> collector, anchor |-> day, due |-> due, soon |-> FALSE, over |-> FALSE, closed |-> FALSE]

NoJob == [pc |-> "idle", kind |-> "NONE", row |-> Fresh(NoOne, 0, 0)]

Init ==
    /\ today  = 0
    /\ \E c \in Collectors \cup {NoOne}, n \in DueDays : col = Fresh(c, n, 0)
    /\ req    = [r \in Requests |-> NoWrite]
    /\ job    = NoJob
    /\ told   = {}
    /\ excuse = {}

Deadline(c)  == c.anchor + c.due
Same(c, d)   == c.collector = d.collector /\ Deadline(c) = Deadline(d)
Overdue(c)   == Deadline(c) < today
DueSoon(c)   == ~Overdue(c) /\ Deadline(c) - today <= 1

NextDay ==
    /\ today < MaxDay
    /\ today' = today + 1
    /\ UNCHANGED <<col, req, job, told, excuse>>

-----------------------------------------------------------------------------
\* update: read, with the collector held by the row; due = 0 leaves dueDays.
UpdateRead(r) ==
    /\ ~req[r].active
    /\ \E collector \in Collectors \cup {NoOne, Keep}, due \in DueDays \cup {0} :
          req' = [req EXCEPT ![r] = [active |-> TRUE, held |-> col.collector, collector |-> collector, due |-> due]]
    /\ UNCHANGED <<today, col, job, told, excuse>>

NewlyAssigned(q) == q.collector \in Collectors /\ q.collector # q.held
Rearms(q)        == q.due # 0 \/ NewlyAssigned(q)

\* Slip: only one of the flags is cleared.
WrittenKeepsFlags(q) ==
    [col EXCEPT !.collector = IF q.collector = Keep THEN @ ELSE q.collector,
                !.anchor    = IF q.collector = Keep THEN @ ELSE IF q.collector = NoOne THEN 0 ELSE today,
                !.due       = IF q.due = 0 THEN @ ELSE q.due,
                !.soon      = IF Rearms(q) THEN FALSE ELSE @]

Written(q) ==
    [col EXCEPT !.collector = IF q.collector = Keep THEN @ ELSE q.collector,
                !.anchor    = IF q.collector = Keep THEN @ ELSE IF q.collector = NoOne THEN 0 ELSE today,
                !.due       = IF q.due = 0 THEN @ ELSE q.due,
                !.soon      = IF Rearms(q) THEN FALSE ELSE @,
                !.over      = IF Rearms(q) THEN FALSE ELSE @]

\* The row is written over the read one.  A run of check in flight holds the
\* old deadline; a deadline that moves without being re-armed slides.
UpdateWrite(r) ==
    /\ req[r].active
    /\ LET q == req[r]  new == Written(q)
       IN  /\ col' = new
           /\ told' = IF Rearms(q) \/ ~Same(col, new) THEN {} ELSE told
           /\ excuse' = (IF Rearms(q) THEN {} ELSE excuse)
                        \cup (IF job.pc # "idle" THEN {"gap"} ELSE {})
                        \cup (IF ~Rearms(q) /\ ~Same(col, new) THEN {"slid"} ELSE {})
    /\ req' = [req EXCEPT ![r] = NoWrite]
    /\ UNCHANGED <<today, job>>

\* A status edit or a visit closes the collection or opens it again.
Close ==
    /\ col' = [col EXCEPT !.closed = ~@]
    /\ UNCHANGED <<today, req, job, told, excuse>>

-----------------------------------------------------------------------------
\* check: which reminder the row calls for.
Due(c) ==
    IF c.closed \/ c.collector = NoOne THEN "NONE"
    ELSE IF Overdue(c) THEN IF c.over THEN "NONE" ELSE "OVER"
    ELSE IF DueSoon(c) /\ ~c.soon THEN "SOON" ELSE "NONE"

JobRead ==
    /\ job.pc = "idle"
    /\ Due(col) # "NONE"
    /\ job' = [pc |-> "fire", kind |-> Due(col), row |-> col]
    /\ UNCHANGED <<today, col, req, told, excuse>>

JobFire ==
    /\ job.pc = "fire"
    /\ job' = [job EXCEPT !.pc = "flag"]
    /\ told' = IF Same(job.row, col) THEN told \cup {job.kind} ELSE told
    /\ UNCHANGED <<today, col, req, excuse>>

\* The insert of the notification fails: the failure is swallowed.
JobFireFails ==
    /\ job.pc = "fire"
    /\ job' = [job EXCEPT !.pc = "flag"]
    /\ excuse' = excuse \cup {"swallowed"}
    /\ UNCHANGED <<today, col, req, told>>

JobFlag ==
    /\ job.pc = "flag"
    /\ col' = [col EXCEPT !.soon = TRUE, !.over = (@ \/ job.kind = "OVER")]
    /\ job' = NoJob
    /\ UNCHANGED <<today, req, told, excuse>>

\* A crash; only one between the notice and its flag is remembered.
Crash ==
    /\ job.pc # "idle" \/ \E r \in Requests : req[r].active
    /\ excuse' = IF job.pc = "flag" THEN excuse \cup {"cut"} ELSE excuse
    /\ job' = NoJob
    /\ req' = [r \in Requests |-> NoWrite]
    /\ UNCHANGED <<today, col, told>>

Next ==
    \/ NextDay \/ Close \/ JobRead \/ JobFire \/ JobFireFails \/ JobFlag \/ Crash
    \/ \E r \in Requests : UpdateRead(r) \/ UpdateWrite(r)

Spec == Init /\ [][Next]_vars

-----------------------------------------------------------------------------
(* The columns and slots stay in their domains, and nothing is dated ahead.*)
Rows == [collector : Collectors \cup {NoOne}, anchor : 0..MaxDay, due : DueDays \cup {0},
         soon : BOOLEAN, over : BOOLEAN, closed : BOOLEAN]

TypeOK ==
    /\ today \in 0..MaxDay
    /\ col \in Rows /\ col.anchor <= today /\ col.due # 0
    /\ req \in [Requests -> [active : BOOLEAN, held : Collectors \cup {NoOne},
                             collector : Collectors \cup {NoOne, Keep}, due : DueDays \cup {0}]]
    /\ job \in [pc : {"idle", "fire", "flag"}, kind : {"NONE", "SOON", "OVER"}, row : Rows]
    /\ told \subseteq {"SOON", "OVER"}
    /\ excuse \subseteq {"gap", "slid", "swallowed", "cut"}

(* Between two runs of check, the flags say what the collector in charge   *)
(* has been told about the deadline in force.  A set flag without the      *)
(* notice, which would keep it from ever being sent, needs an update       *)
(* during a run, a collector sent again without its days, or a swallowed   *)
(* failure; a notice without the flag, which repeats it, needs an update   *)
(* during a run or a crash right after the notice.                         *)
FlagsTellTruth ==
    job.pc = "idle" =>
        /\ excuse \cap {"gap", "slid", "swallowed"} = {} =>
              (col.over => "OVER" \in told) /\ (col.soon => told # {})
        /\ excuse \cap {"gap", "cut"} = {} =>
              ("OVER" \in told => col.over) /\ (told # {} => col.soon)
=============================================================================
