----------------------------- MODULE Documents ------------------------------
(***************************************************************************)
(* The uploaded documents of one case: Document rows in the database and   *)
(* files on disk, which no transaction joins.  DocumentsController's       *)
(* upload, replace and remove, the attachments that MessagesController's   *)
(* send writes and its remove drops, and what applyUpdate does to them     *)
(* without naming them: a save that carries the collaterals deletes and    *)
(* recreates them, while a Document refers to its collateral by a bare id. *)
(*                                                                         *)
(* An action is one awaited statement.  Storage keys are random, so a new  *)
(* file never meets one that a row or a request knows; the key of a file   *)
(* that nothing refers to any more is taken again, which keeps the model   *)
(* finite and which nobody can tell.  The case has one collateral, named   *)
(* by the number of saves that created it; 0 stands for none.              *)
(***************************************************************************)
EXTENDS Naturals

CONSTANTS
    Docs,      \* identities a Document row may take
    Files,     \* storage keys
    NoFile,    \* the null reference
    Requests,  \* request slots, the bound on concurrency
    MaxSaves   \* bound: the number of saves that carry the collaterals

VARIABLES
    row,         \* the Document rows
    disk,        \* the files that exist
    collateral,  \* id of the case's collateral
    req,         \* what each request in flight has read
    lost,        \* ghost: rows whose replacement was cut off after the unlink
    untidy       \* ghost: a file was left behind by a cut, an overlap or a chat

vars == <<row, disk, collateral, req, lost, untidy>>

-----------------------------------------------------------------------------
NoRow == [file |-> NoFile, collateral |-> 0, chat |-> FALSE]
Idle  == [pc |-> "idle", doc |-> CHOOSE d \in Docs : TRUE, old |-> NoFile, new |-> NoFile,
          collateral |-> 0, chat |-> FALSE]

Init ==
    /\ row = [d \in Docs |-> NoRow]
    /\ disk = {}
    /\ collateral = 0
    /\ req = [r \in Requests |-> Idle]
    /\ lost = {}
    /\ untidy = FALSE

Exists(d) == row[d].file # NoFile
InFlight  == {r \in Requests : req[r].pc # "idle"}
At(r, pc) == req[r].pc = pc
Finish(r) == req' = [req EXCEPT ![r] = Idle]
Goto(r, pc) == req' = [req EXCEPT ![r].pc = pc]

\* Requests that overlap may leave files that no row names.
Begin(r, q) ==
    /\ At(r, "idle")
    /\ req' = [req EXCEPT ![r] = q]
    /\ untidy' = (untidy \/ InFlight # {})

Known  == {row[d].file : d \in Docs} \cup {req[r].new : r \in Requests} \cup {req[r].old : r \in Requests}
Unused == Files \ Known

-----------------------------------------------------------------------------
(* upload, and an attachment of send: the file, then the row.              *)
UploadSave(r) ==
    /\ \E f \in Unused, chat \in BOOLEAN, c \in {0, collateral} :
          /\ chat => c = 0
          /\ Begin(r, [Idle EXCEPT !.pc = "insert", !.new = f, !.collateral = c, !.chat = chat])
          /\ disk' = disk \cup {f}
    /\ UNCHANGED <<row, collateral, lost>>

UploadRow(r) ==
    /\ At(r, "insert")
    /\ \E d \in Docs : /\ ~Exists(d)
                       /\ \A o \in InFlight \ {r} : req[o].doc # d \/ At(o, "insert")
                       /\ row' = [row EXCEPT ![d] = [file |-> req[r].new, chat |-> req[r].chat,
                                                     collateral |-> req[r].collateral]]
    /\ Finish(r)
    /\ UNCHANGED <<disk, collateral, lost, untidy>>

-----------------------------------------------------------------------------
(* replace: find the row, save the new file, unlink the old, update.       *)
ReplaceRead(r) ==
    /\ \E d \in Docs : /\ Exists(d)
                       /\ Begin(r, [Idle EXCEPT !.pc = "save", !.doc = d, !.old = row[d].file])
    /\ UNCHANGED <<row, disk, collateral, lost>>

ReplaceSave(r) ==
    /\ At(r, "save")
    /\ \E f \in Unused : /\ disk' = disk \cup {f}
                         /\ req' = [req EXCEPT ![r].pc = "unlink", ![r].new = f]
    /\ UNCHANGED <<row, collateral, lost, untidy>>

ReplaceUnlink(r) ==
    /\ At(r, "unlink")
    /\ disk' = disk \ {req[r].old}
    /\ Goto(r, "update")
    /\ UNCHANGED <<row, collateral, lost, untidy>>

ReplaceRow(r) ==
    /\ At(r, "update")
    /\ Exists(req[r].doc)
    /\ row' = [row EXCEPT ![req[r].doc].file = req[r].new]
    /\ lost' = lost \ {req[r].doc}
    /\ Finish(r)
    /\ UNCHANGED <<disk, collateral, untidy>>

-----------------------------------------------------------------------------
(* remove: find the row, delete it, unlink its file.                       *)
RemoveRead(r) ==
    /\ \E d \in Docs : /\ Exists(d)
                       /\ Begin(r, [Idle EXCEPT !.pc = "delete", !.doc = d, !.old = row[d].file])
    /\ UNCHANGED <<row, disk, collateral, lost>>

\* Slip: the file is left on disk.
RemoveRowOnly(r) ==
    /\ At(r, "delete")
    /\ Exists(req[r].doc)
    /\ row' = [row EXCEPT ![req[r].doc] = NoRow]
    /\ lost' = lost \ {req[r].doc}
    /\ Finish(r)
    /\ UNCHANGED <<disk, collateral, untidy>>

RemoveRow(r) ==
    /\ At(r, "delete")
    /\ Exists(req[r].doc)
    /\ row' = [row EXCEPT ![req[r].doc] = NoRow]
    /\ lost' = lost \ {req[r].doc}
    /\ Goto(r, "erase")
    /\ UNCHANGED <<disk, collateral, untidy>>

RemoveFile(r) ==
    /\ At(r, "erase")
    /\ disk' = disk \ {req[r].old}
    /\ Finish(r)
    /\ UNCHANGED <<row, collateral, lost, untidy>>

\* MessagesController.remove deletes the attachments' rows and no file.
ChatRemove ==
    /\ \E d \in Docs : /\ Exists(d) /\ row[d].chat
                       /\ row' = [row EXCEPT ![d] = NoRow]
                       /\ lost' = lost \ {d}
    /\ untidy' = TRUE
    /\ UNCHANGED <<disk, collateral, req>>

-----------------------------------------------------------------------------
\* applyUpdate with collaterals: deleteMany, then create, with new ids.  The
\* wizard sends them from its pledge, parameter and insurance steps alike.
SaveCollaterals ==
    /\ collateral < MaxSaves
    /\ collateral' = collateral + 1
    /\ UNCHANGED <<row, disk, req, lost, untidy>>

\* A crash, a lost connection, or a row that is gone when it is updated.
Cut(r) ==
    /\ r \in InFlight
    /\ Finish(r)
    /\ lost' = IF At(r, "update") /\ Exists(req[r].doc) /\ row[req[r].doc].file \notin disk
               THEN lost \cup {req[r].doc} ELSE lost
    /\ untidy' = TRUE
    /\ UNCHANGED <<row, disk, collateral>>

Next ==
    \/ \E r \in Requests :
          \/ UploadSave(r) \/ UploadRow(r)
          \/ ReplaceRead(r) \/ ReplaceSave(r) \/ ReplaceUnlink(r) \/ ReplaceRow(r)
          \/ RemoveRead(r) \/ RemoveRow(r) \/ RemoveFile(r)
          \/ Cut(r)
    \/ ChatRemove
    \/ SaveCollaterals

Spec == Init /\ [][Next]_vars

-----------------------------------------------------------------------------
(* Rows, files and slots stay in their domains.                            *)
TypeOK ==
    /\ row \in [Docs -> [file : Files \cup {NoFile}, collateral : 0..MaxSaves, chat : BOOLEAN]]
    /\ disk \subseteq Files
    /\ collateral \in 0..MaxSaves
    /\ req \in [Requests -> [pc : {"idle", "insert", "save", "unlink", "update", "delete", "erase"},
                             doc : Docs, old : Files \cup {NoFile}, new : Files \cup {NoFile},
                             collateral : 0..MaxSaves, chat : BOOLEAN]]
    /\ lost \subseteq Docs
    /\ untidy \in BOOLEAN

(* A document's file is there to be downloaded, also while uploads,        *)
(* replacements and removals of the same row overlap.  The one gap is a    *)
(* replacement between its unlink and its update, or cut off there.        *)
RowHasFile ==
    \A d \in Docs : Exists(d) /\ row[d].file \notin disk =>
        d \in lost \/ \E r \in Requests : At(r, "update") /\ req[r].doc = d

(* Every file on disk belongs to a row or to a request in flight, unless a *)
(* request was cut, two overlapped, or a chat message with files went.     *)
NoStrayFiles ==
    ~untidy => disk \subseteq Known

(* Both ways of the correspondence.                                        *)
FilesMatchRows == RowHasFile /\ NoStrayFiles

(* "a later-step autosave can't wipe rows or reset collateral IDs"         *)
(* (credit-cases.service.ts:382): a document attached to the collateral    *)
(* stays with it.                                                          *)
AttachedToCollateral ==
    \A d \in Docs : row[d].collateral # 0 => row[d].collateral = collateral
=============================================================================
