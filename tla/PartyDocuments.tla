----------------------------- MODULE PartyDocuments -----------------------------
(***************************************************************************)
(* The documents of a CRM party (crm/document_services.py,                 *)
(* crm/notifications.py and PartyDocumentViewSet): a file in an external   *)
(* store, the row that describes it, and the notification that warns of    *)
(* its expiry.                                                             *)
(*                                                                         *)
(* The three are changed one after the other, outside of any common        *)
(* transaction.  A request is a sequence of steps and may die between two  *)
(* of them; a call of the store may fail, and a failed upload may have     *)
(* stored the file.                                                        *)
(***************************************************************************)
EXTENDS Integers

CONSTANTS
    DocumentIds,  \* reserved ids of PartyDocument rows
    ContentOf,    \* party, category and checksum of what is uploaded under each id
    Dates,        \* expiry dates
    Users,        \* requests in progress at a time
    Faults,       \* whether requests may die and calls of the store fail
    MaxUploads,   \* bounds on the requests of each kind
    MaxUpdates,
    NoDocument

\* No date is 0; key is the date of the expiry notification the row names.
DocumentRow == [active : BOOLEAN, confidential : BOOLEAN, expires : Dates \cup {0},
                key : Dates \cup {0}]

ASSUME DocumentsAssumption ==
    /\ Dates \subseteq Nat \ {0}
    /\ Faults \in BOOLEAN
    /\ MaxUploads \in Nat /\ MaxUpdates \in Nat
    /\ DOMAIN ContentOf = DocumentIds
    /\ NoDocument \notin DocumentRow

VARIABLES
    documents, \* PartyDocument
    files,     \* the paths of the store that hold a file
    warnings,  \* the expiry notification with the key of a document and a date
    task,      \* what each request is doing
    uploads,   \* how many uploads and updates have been asked for
    updates,
    removed    \* the documents whose file a delete request has removed

documentVars == <<documents, files, warnings, task, uploads, updates, removed>>

NoTask == [op |-> "NONE"]

Active(d) == documents[d] # NoDocument /\ documents[d].active
DocumentUnlocked(d) == \A u \in Users : task[u].op = "DELETE" => task[u].id # d

\* A mutation of Path: identical uploads share an object.
PathByContent(d) == ContentOf[d]

\* The object path of a document names its row.
Path(d) == <<ContentOf[d], d>>

Warnings == {"NONE", "SCHEDULED", "CANCELLED"}

\* An upload, a schedule of the warning or a deletion, an update of the row that was read.
DocumentTask ==
    [op : {"STORE", "INSERT"}, id : DocumentIds, expires : Dates \cup {0}]
    \cup [op : {"DISCARD", "WARN", "DELETE"}, id : DocumentIds]
    \cup [op : {"NOTIFY", "KEY"}, id : DocumentIds, key : Dates]
    \cup [op : {"PATCH"}, id : DocumentIds, row : DocumentRow]
    \cup {NoTask}

DocumentsTypeOK ==
    /\ documents \in [DocumentIds -> DocumentRow \cup {NoDocument}]
    /\ task \in [Users -> DocumentTask]
    /\ files \subseteq {Path(d) : d \in DocumentIds}
    /\ warnings \in [DocumentIds -> [Dates -> Warnings]]
    /\ removed \subseteq DocumentIds
    /\ uploads \in 0 .. MaxUploads /\ updates \in 0 .. MaxUpdates

Goto(u, t) == task' = [task EXCEPT ![u] = t]

-----------------------------------------------------------------------------
(* Upload: search for a duplicate, store the file, insert the row.         *)

SameContent(d, e) == ContentOf[e] = ContentOf[d]
DuplicateOf(d) == {e \in DocumentIds : Active(e) /\ SameContent(d, e)}

\* The id is reserved by uuid4, so no other request has it.
begin_upload(u, d, expires) ==
    /\ task[u] = NoTask /\ uploads < MaxUploads
    /\ documents[d] = NoDocument
    /\ \A v \in Users : task[v] # NoTask => task[v].id # d
    /\ DuplicateOf(d) = {}
    /\ uploads' = uploads + 1
    /\ Goto(u, [op |-> "STORE", id |-> d, expires |-> expires])
    /\ UNCHANGED <<documents, files, warnings, updates, removed>>

store_file(u) ==
    /\ task[u].op = "STORE"
    /\ \/ /\ files' = files \cup {Path(task[u].id)}
          /\ Goto(u, [task[u] EXCEPT !.op = "INSERT"])
       \/ /\ Faults
          /\ \E left \in {{}, {Path(task[u].id)}} : files' = files \cup left
          /\ Goto(u, NoTask)
    /\ UNCHANGED <<documents, warnings, uploads, updates, removed>>

\* A row with the same active content makes the insertion fail.
create_party_document_record(u) ==
    LET d == task[u].id IN
    /\ task[u].op = "INSERT"
    /\ \/ /\ DuplicateOf(d) = {}
          /\ documents' = [documents EXCEPT ![d] =
                 [active |-> TRUE, confidential |-> FALSE, expires |-> task[u].expires, key |-> 0]]
          /\ Goto(u, IF task[u].expires = 0 THEN NoTask ELSE [op |-> "WARN", id |-> d])
       \/ /\ DuplicateOf(d) # {}
          /\ Goto(u, [op |-> "DISCARD", id |-> d])
          /\ UNCHANGED documents
    /\ UNCHANGED <<files, warnings, uploads, updates, removed>>

\* The file of a row that could not be inserted is deleted, or stays for good.
discard_file(u) ==
    /\ task[u].op = "DISCARD"
    /\ \/ files' = files \ {Path(task[u].id)}
       \/ Faults /\ UNCHANGED files
    /\ Goto(u, NoTask)
    /\ UNCHANGED <<documents, warnings, uploads, updates, removed>>

-----------------------------------------------------------------------------
(* The expiry notification: read the row, cancel the notification it       *)
(* names, ask for one with the new key, save the key.                      *)

Cancelled(w) == IF w = "SCHEDULED" THEN "CANCELLED" ELSE w

cancel_document_expiry_notification(d, key) ==
    IF key = 0 THEN warnings
    ELSE [warnings EXCEPT ![d][key] = Cancelled(@)]

begin_schedule(u) ==
    LET d == task[u].id IN
    /\ task[u].op = "WARN"
    /\ \/ /\ Active(d) /\ documents[d].expires # 0
          /\ warnings' = cancel_document_expiry_notification(d, documents[d].key)
          /\ Goto(u, [op |-> "NOTIFY", id |-> d, key |-> documents[d].expires])
       \/ /\ ~(Active(d) /\ documents[d].expires # 0)
          /\ Goto(u, NoTask)
          /\ UNCHANGED warnings
    /\ UNCHANGED <<documents, files, uploads, updates, removed>>

\* notify creates no second notification with the same key, in whatever state
\* the first one is.
notify_expiry(u) ==
    LET d == task[u].id IN
    /\ task[u].op = "NOTIFY"
    /\ warnings' = [warnings EXCEPT ![d][task[u].key] = IF @ = "NONE" THEN "SCHEDULED" ELSE @]
    /\ Goto(u, [task[u] EXCEPT !.op = "KEY"])
    /\ UNCHANGED <<documents, files, uploads, updates, removed>>

save_key(u) ==
    LET d == task[u].id IN
    /\ task[u].op = "KEY" /\ DocumentUnlocked(d)
    /\ documents' = [documents EXCEPT ![d].key = task[u].key]
    /\ Goto(u, NoTask)
    /\ UNCHANGED <<files, warnings, uploads, updates, removed>>

-----------------------------------------------------------------------------
(* PATCH of the metadata: the row is read (a deleted one with              *)
(* ?include_deleted=true), and saved as a whole later.                     *)

get_document(u, d) ==
    /\ task[u] = NoTask /\ updates < MaxUpdates
    /\ documents[d] # NoDocument
    /\ updates' = updates + 1
    /\ Goto(u, [op |-> "PATCH", id |-> d, row |-> documents[d]])
    /\ UNCHANGED <<documents, files, warnings, uploads, removed>>

perform_update(u, confidential, expires) ==
    LET d == task[u].id
        read == task[u].row
        differs == confidential # read.confidential \/ expires # read.expires
    IN  /\ task[u].op = "PATCH" /\ DocumentUnlocked(d)
        /\ documents' = [documents EXCEPT ![d] =
               [read EXCEPT !.confidential = confidential, !.expires = expires]]
        /\ Goto(u, IF differs /\ expires # 0 THEN [op |-> "WARN", id |-> d] ELSE NoTask)
        /\ UNCHANGED <<files, warnings, uploads, updates, removed>>

-----------------------------------------------------------------------------
(* Deletion, under the lock of the row from the call of the store to COMMIT. *)

begin_delete(u, d) ==
    /\ task[u] = NoTask
    /\ Active(d) /\ DocumentUnlocked(d)
    /\ files' = files \ {Path(d)}
    /\ removed' = removed \cup {d}
    /\ Goto(u, [op |-> "DELETE", id |-> d])
    /\ UNCHANGED <<documents, warnings, uploads, updates>>

finish_delete(u) ==
    LET d == task[u].id IN
    /\ task[u].op = "DELETE"
    /\ warnings' = cancel_document_expiry_notification(d, documents[d].key)
    /\ documents' = [documents EXCEPT ![d] = [@ EXCEPT !.active = FALSE, !.key = 0]]
    /\ Goto(u, NoTask)
    /\ UNCHANGED <<files, uploads, updates, removed>>

\* The request dies; its transaction, if it has one, is rolled back.
Die(u) ==
    /\ Faults /\ task[u] # NoTask
    /\ Goto(u, NoTask)
    /\ UNCHANGED <<documents, files, warnings, uploads, updates, removed>>

-----------------------------------------------------------------------------

DocumentsInit ==
    /\ documents = [d \in DocumentIds |-> NoDocument]
    /\ files = {} /\ removed = {}
    /\ warnings = [d \in DocumentIds |-> [k \in Dates |-> "NONE"]]
    /\ task = [u \in Users |-> NoTask]
    /\ uploads = 0 /\ updates = 0

\* A new document is scheduled for a warning once its row has been committed.
create_document(u) ==
    \/ \E d \in DocumentIds, expires \in Dates \cup {0} : begin_upload(u, d, expires)
    \/ store_file(u) \/ create_party_document_record(u) \/ discard_file(u)

destroy_document(u) == (\E d \in DocumentIds : begin_delete(u, d)) \/ finish_delete(u)

DocumentsNext ==
    \E u \in Users :
        \/ create_document(u) \/ destroy_document(u)
        \/ \E d \in DocumentIds : get_document(u, d)
        \/ begin_schedule(u) \/ notify_expiry(u) \/ save_key(u)
        \/ \E confidential \in BOOLEAN, expires \in Dates \cup {0} :
               perform_update(u, confidential, expires)
        \/ Die(u)

DocumentsSpec == DocumentsInit /\ [][DocumentsNext]_documentVars

-----------------------------------------------------------------------------
(* Properties.                                                             *)

\* An active row has its file, unless a request to delete it has removed the file
\* (and then died, or was undone by a stale PATCH): whatever uploads of the same
\* content do at the same time, the one that loses removes its own file only
\* (document_services.py:325-368).
ActiveHasFile ==
    \A d \in DocumentIds : Active(d) /\ d \notin removed => Path(d) \in files

(* Why: nobody else is at work on the id of an upload, and an active row that was  *)
(* read has its file, or a deletion has begun since.                               *)

Uploading(u) == task[u].op \in {"STORE", "INSERT", "DISCARD"}

UploadsOwnIds ==
    \A u \in Users : Uploading(u) =>
        /\ documents[task[u].id] = NoDocument
        /\ \A v \in Users \ {u} : task[v] # NoTask => task[v].id # task[u].id

InsertsHaveFiles == \A u \in Users : task[u].op = "INSERT" => Path(task[u].id) \in files

\* What is not an upload is about a row that is there; a deletion has removed its file.
RowsAtWork ==
    \A u \in Users : task[u] # NoTask /\ ~Uploading(u) =>
        /\ documents[task[u].id] # NoDocument
        /\ task[u].op = "DELETE" => task[u].id \in removed
        /\ task[u].op = "PATCH" /\ task[u].row.active =>
               Path(task[u].id) \in files \/ task[u].id \in removed

RemovedExist == \A d \in removed : documents[d] # NoDocument

DocumentsInvariant ==
    /\ DocumentsTypeOK
    /\ UploadsOwnIds /\ InsertsHaveFiles /\ RowsAtWork /\ RemovedExist /\ ActiveHasFile

\* "Save document metadata and reschedule expiry warning if required"
\* (crm/views.py:1931): when no request is at work, an active document that
\* expires has a warning scheduled for its date.  It does not hold: the warning
\* cancelled for rescheduling has the key of the one asked for, and notify
\* returns the notification that was cancelled.
WarningScheduled ==
    \A d \in DocumentIds :
        Active(d) /\ documents[d].expires # 0 /\ (\A u \in Users : task[u] = NoTask)
            => warnings[d][documents[d].expires] = "SCHEDULED"

=============================================================================
