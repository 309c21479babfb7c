------------------------------- MODULE Operations -------------------------------
(***************************************************************************)
(* The idempotent writes of the ledger and of procurement (operation in    *)
(* ledger/services/common.py, mutate in procurement/views.py), and the     *)
(* exports of official documents, the writes that also change an external  *)
(* store (ledger/documents.py).                                            *)
(*                                                                         *)
(* A client that has no answer repeats its request, with the key it has    *)
(* used before.  A request runs in one transaction: it inserts the row of  *)
(* its key, calls the service, saves the answer in the row and commits.    *)
(* It may die before the commit, and the answer may be lost after it.      *)
(***************************************************************************)
EXTENDS Integers

CONSTANTS
    Keys,         \* values of the Idempotency-Key header
    Fingerprints, \* digests of actor, method, path and payload
    ExportOf,     \* the document a request exports, NoResult for other requests
    Pages,        \* pages of an exported document, a file each
    Clients,      \* requests in progress at a time
    MaxServed,    \* bound on the requests of a behaviour
    NoResult

Exporting == {p \in Fingerprints : ExportOf[p] # NoResult}
ExportIds == {ExportOf[p] : p \in Exporting}

VARIABLES
    operations, \* LedgerOperation and Operation: fingerprint and result of each key
    executed,   \* the runs of a service that have been committed, with their key
    answers,    \* what clients were told: key, fingerprint and run
    exported,   \* LedgerDocument: export, run and page
    stored,     \* run and page of each file of the store
    serving,    \* what each request is doing
    run         \* how many requests have been made

operationVars == <<operations, executed, answers, exported, stored, serving, run>>

Runs == 1..MaxServed
OperationRow == [fingerprint : Fingerprints, result : Runs]
Resting == [at |-> "NONE"]
Request == [at : {"BEGIN", "CALLBACK", "SAVE"}, key : Keys, print : Fingerprints, run : Runs]
LedgerDocument == [export : ExportIds, file : Runs \X Pages]

ASSUME OperationsAssumption ==
    /\ MaxServed \in Nat
    /\ NoResult \notin OperationRow

OperationsTypeOK ==
    /\ operations \in [Keys -> OperationRow \cup {NoResult}]
    /\ executed \subseteq Keys \X Runs
    /\ answers \subseteq Keys \X Fingerprints \X Runs
    /\ exported \subseteq LedgerDocument
    /\ stored \subseteq Runs \X Pages
    /\ serving \in [Clients -> {Resting} \cup Request]
    /\ run \in 0 .. MaxServed

\* The transaction of c has inserted the row of its key.
Inserted(c) == serving[c].at \in {"CALLBACK", "SAVE"}

At(c, step) ==
    serving' = [serving EXCEPT ![c] =
        [at |-> step, key |-> @.key, print |-> @.print, run |-> @.run]]
Leave(c) == serving' = [serving EXCEPT ![c] = Resting]

\* A mutation of FileOf: the files of an export are named by their content.
FileOfContent(c, page) == <<ExportOf[serving[c].print], page>>

\* The object path of a file names the row, which has a fresh id.
FileOf(c, page) == <<serving[c].run, page>>

-----------------------------------------------------------------------------

\* The request arrives; the user may see what it is about.
mutate(c, key, print) ==
    /\ serving[c] = Resting /\ run < MaxServed
    /\ run' = run + 1
    /\ serving' = [serving EXCEPT ![c] =
           [at |-> "BEGIN", key |-> key, print |-> print, run |-> run + 1]]
    /\ UNCHANGED <<operations, executed, answers, exported, stored>>

\* A mutation of KeyFree: the key is looked up, and inserted without a unique index.
KeyLooksFree(c) == operations[serving[c].key] = NoResult

\* An INSERT waits for the transaction that has inserted the same key.
KeyFree(c) ==
    /\ operations[serving[c].key] = NoResult
    /\ \A d \in Clients \ {c} : Inserted(d) => serving[d].key # serving[c].key

get_or_create(c) ==
    /\ serving[c].at = "BEGIN"
    /\ KeyFree(c)
    /\ At(c, "CALLBACK")
    /\ UNCHANGED <<operations, executed, answers, exported, stored, run>>

\* The stored result, or 409 for another request with the same key.
replay(c) ==
    LET row == operations[serving[c].key] IN
    /\ serving[c].at = "BEGIN"
    /\ row # NoResult
    /\ \/ /\ row.fingerprint = serving[c].print
          /\ answers' = answers \cup {<<serving[c].key, serving[c].print, row.result>>}
       \/ /\ row.fingerprint # serving[c].print
          /\ UNCHANGED answers
    /\ Leave(c)
    /\ UNCHANGED <<operations, executed, exported, stored, run>>

\* The service has done its work, as a part of the transaction.
callback(c) ==
    /\ serving[c].at = "CALLBACK"
    /\ serving[c].print \notin Exporting
    /\ At(c, "SAVE")
    /\ UNCHANGED <<operations, executed, answers, exported, stored, run>>

\* The service refuses, or the request dies: the transaction is rolled back,
\* the key included.
rollback(c) ==
    /\ serving[c] # Resting
    /\ Leave(c)
    /\ UNCHANGED <<operations, executed, answers, exported, stored, run>>

\* What the transaction writes when it commits; the answer may be lost.
commit(c, rows) ==
    LET k == serving[c].key
        n == serving[c].run
    IN  /\ operations' = [operations EXCEPT ![k] =
               [fingerprint |-> serving[c].print, result |-> n]]
        /\ executed' = executed \cup {<<k, n>>}
        /\ answers' \in {answers, answers \cup {<<k, serving[c].print, n>>}}
        /\ exported' = exported \cup rows
        /\ Leave(c)
        /\ UNCHANGED <<stored, run>>

save_result(c) ==
    /\ serving[c].at = "SAVE"
    /\ serving[c].print \notin Exporting
    /\ commit(c, {})

-----------------------------------------------------------------------------
(* Exports.  The pages of a document are uploaded one by one, and their    *)
(* rows inserted in the transaction of the request.                        *)

Exported(c) == {d \in exported : d.export = ExportOf[serving[c].print]}

\* An export of the same content is used again.
reuse_export(c) ==
    /\ serving[c].at = "CALLBACK"
    /\ serving[c].print \in Exporting
    /\ Exported(c) # {}
    /\ commit(c, {})

begin_export(c) ==
    /\ serving[c].at = "CALLBACK"
    /\ serving[c].print \in Exporting
    /\ Exported(c) = {}
    /\ At(c, "SAVE")
    /\ UNCHANGED <<operations, executed, answers, exported, stored, run>>

Uploaded(c) == {page \in Pages : FileOf(c, page) \in stored}

store(c, page) ==
    /\ serving[c].at = "SAVE"
    /\ serving[c].print \in Exporting
    /\ page \notin Uploaded(c)
    /\ stored' = stored \cup {FileOf(c, page)}
    /\ UNCHANGED <<operations, executed, answers, exported, serving, run>>

\* A page could not be stored: the files of the others are deleted, as far as
\* the store allows, and the transaction is rolled back.
discard_export(c) ==
    /\ serving[c].at = "SAVE"
    /\ serving[c].print \in Exporting
    /\ \E kept \in SUBSET Uploaded(c) :
           stored' = stored \ {FileOf(c, page) : page \in Uploaded(c) \ kept}
    /\ Leave(c)
    /\ UNCHANGED <<operations, executed, answers, exported, run>>

\* Afterwards nothing deletes the files of a request that is rolled back.
save_export(c) ==
    /\ serving[c].at = "SAVE"
    /\ serving[c].print \in Exporting
    /\ Uploaded(c) = Pages
    /\ commit(c, {[export |-> ExportOf[serving[c].print], file |-> FileOf(c, page)] :
                  page \in Pages})

-----------------------------------------------------------------------------

OperationsInit ==
    /\ operations = [k \in Keys |-> NoResult]
    /\ executed = {} /\ answers = {}
    /\ exported = {} /\ stored = {}
    /\ serving = [c \in Clients |-> Resting]
    /\ run = 0

OperationsNext ==
    \E c \in Clients :
        \/ \E key \in Keys, print \in Fingerprints : mutate(c, key, print)
        \/ get_or_create(c) \/ replay(c) \/ callback(c) \/ rollback(c) \/ save_result(c)
        \/ reuse_export(c) \/ begin_export(c) \/ discard_export(c) \/ save_export(c)
        \/ \E page \in Pages : store(c, page)

OperationsSpec == OperationsInit /\ [][OperationsNext]_operationVars

-----------------------------------------------------------------------------
(* Properties.                                                             *)

\* "Same actor/path/payload/key replays the saved result; conflicting reuse
\* returns 409" (docs/apps/ledger.md:42): however requests with one key overlap,
\* fail and are repeated, the service runs once for it, and every answer for the
\* key is the result of that run, given to the request that caused it.
OncePerKey ==
    /\ \A x, y \in executed : x[1] = y[1] => x[2] = y[2]
    /\ \A x, y \in answers : x[1] = y[1] => x = y
    /\ \A x \in answers : <<x[1], x[3]>> \in executed

\* "A failed later JPG page must not leave an incomplete reusable export"
\* (ledger/documents.py:274): a document that can be reused has all its pages,
\* and the store still has the file of each.
ExportsComplete ==
    \A d \in exported :
        /\ d.file \in stored
        /\ \A page \in Pages :
               [export |-> d.export, file |-> <<d.file[1], page>>] \in exported

(* Neither is inductive: they need what the unique key and the fresh id of a run   *)
(* keep apart.                                                                     *)

RunsAreFresh ==
    \A c \in Clients : serving[c] # Resting =>
        /\ serving[c].run <= run
        /\ \A d \in Clients \ {c} :
               serving[d] # Resting => serving[d].run # serving[c].run
        /\ \A row \in exported : row.file[1] # serving[c].run

KeysAreHeld ==
    \A c \in Clients : Inserted(c) =>
        /\ operations[serving[c].key] = NoResult
        /\ \A d \in Clients \ {c} : Inserted(d) => serving[d].key # serving[c].key

ExecutedIsStored ==
    /\ \A x \in executed :
           operations[x[1]] # NoResult /\ operations[x[1]].result = x[2]
    /\ \A k \in Keys :
           operations[k] # NoResult => <<k, operations[k].result>> \in executed

AnswersAreStored ==
    \A x \in answers :
        /\ operations[x[1]] # NoResult
        /\ operations[x[1]].fingerprint = x[2] /\ operations[x[1]].result = x[3]

ExportsAreOld == \A row \in exported : row.file[1] <= run

OperationsInvariant ==
    /\ OperationsTypeOK
    /\ RunsAreFresh /\ KeysAreHeld
    /\ ExecutedIsStored /\ AnswersAreStored
    /\ ExportsAreOld /\ ExportsComplete

=============================================================================
