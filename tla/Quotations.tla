------------------------------- MODULE Quotations -------------------------------
(***************************************************************************)
(* The quotations of one procurement request: drafting and submitting the  *)
(* request, revisions, their numbers, their approval by the ledger, their  *)
(* issue to the client, the orders placed on them and the command that     *)
(* records their expiry (procurement/services.py, document_registry.py,    *)
(* ledger/integrations/procurement.py).                                    *)
(*                                                                         *)
(* Operations on the request hold its row to COMMIT and are one step each. *)
(* Two resources are shared beyond the request: the DocumentSequence row   *)
(* of the year, which quotations and the financial documents of the ledger *)
(* number themselves from, and the codes of clients.  A transaction that   *)
(* has one of them in hand and has not committed is part of the state.     *)
(***************************************************************************)
EXTENDS Integers, FiniteSets, Sequences

CONSTANTS
    Clerks,        \* staff who edit the draft of the request
    Commands,      \* runs of the expiry command
    Parties,       \* clients that need a document code
    Client,        \* the client of the request
    Codes,
    Financials,    \* invoices and receipts of the same client
    NoCode,
    MaxVersion, MaxTime, MaxQuotations, MaxRevisions, MaxIssues, MaxOrders  \* bounds

ASSUME QuotationsAssumption ==
    /\ Client \in Parties /\ NoCode \notin Codes
    /\ {MaxVersion, MaxTime, MaxQuotations, MaxRevisions, MaxIssues, MaxOrders} \subseteq Nat
    /\ Financials \cap (1 .. MaxQuotations) = {}

VARIABLES
    now,          \* the clock
    version,      \* ProcurementRequest.version
    submitted,    \* ProcurementRequest.submitted_at is set
    seen,         \* the version each clerk has loaded
    revisions,    \* ClientQuotationRevision rows
    approvals,    \* ApprovalRequest.status per revision
    issues,       \* QuotationIssue rows
    orders,       \* ClientPurchaseOrderLine rows with origin QUOTATION
    expiries,     \* QUOTATION_EXPIRED events per revision
    due,          \* the revisions a run of the command still has to visit
    codes,        \* ClientDocumentCode
    coding,       \* assignments that passed their checks and hold their Party row
    registers,    \* DocumentRegister rows: the document and its serial
    versions,     \* revisions with a DocumentVersion
    last_serial,  \* DocumentSequence.last_serial
    numbering     \* the register of the transaction that holds the sequence row

draft == <<version, submitted, seen>>
quotes == <<revisions, approvals, issues, orders>>
expiry == <<expiries, due>>
identity == <<codes, coding>>
register == <<registers, versions, last_serial, numbering>>
vars == <<now, draft, quotes, expiry, identity, register>>

Times == 0 .. MaxTime
Never == MaxTime + 1  \* an expiry that lies beyond the clock or is not set
Documents == Financials \cup 1 .. MaxQuotations
Revision == [quotation : 1 .. MaxQuotations, created : Times, expires : 1 .. Never,
             document : BOOLEAN]
Issue == [revision : Nat \ {0}, at : Times]
Register == [document : Documents, serial : Nat \ {0}]
Numbering == [document : Documents, serial : Nat \ {0}, revision : Nat]

Approval == {"NONE", "PENDING", "APPROVED", "REJECTED"}

TypeOK ==
    /\ now \in Times /\ version \in 0 .. MaxVersion /\ submitted \in BOOLEAN
    /\ seen \in [Clerks -> 0 .. MaxVersion]
    /\ revisions \in Seq(Revision)
    /\ approvals \in Seq(Approval) /\ Len(approvals) = Len(revisions)
    /\ issues \in Seq(Issue) /\ orders \in Seq(Issue)
    /\ expiries \in Seq(Nat) /\ Len(expiries) = Len(revisions)
    /\ due \in [Commands -> SUBSET DOMAIN revisions]
    /\ codes \in [Parties -> Codes \cup {NoCode}]
    /\ coding \subseteq [party : Parties, code : Codes]
    /\ registers \subseteq Register /\ versions \subseteq DOMAIN revisions
    /\ last_serial \in Nat /\ numbering \subseteq Numbering

Init ==
    /\ now = 0 /\ version = 0 /\ submitted = FALSE /\ seen = [c \in Clerks |-> 0]
    /\ revisions = <<>> /\ approvals = <<>> /\ issues = <<>> /\ orders = <<>>
    /\ expiries = <<>> /\ due = [c \in Commands |-> {}]
    /\ codes = [p \in Parties |-> NoCode] /\ coding = {}
    /\ registers = {} /\ versions = {} /\ last_serial = 0 /\ numbering = {}

-----------------------------------------------------------------------------
\* A quotation that is being numbered keeps the row of the request locked.
RequestFree == \A r \in numbering : r.document \in Financials

Revisions(q) == {n \in DOMAIN revisions : revisions[n].quotation = q}
Number(n) == Cardinality({k \in Revisions(revisions[n].quotation) : k <= n})
Latest(n) == Number(n) = Cardinality(Revisions(revisions[n].quotation))
Issued(n) == \E i \in DOMAIN issues : issues[i].revision = n
Expired(n, at) == revisions[n].expires <= at
Quotations == {revisions[n].quotation : n \in DOMAIN revisions}

Tick ==
    /\ now < MaxTime /\ now' = now + 1
    /\ UNCHANGED <<draft, quotes, expiry, identity, register>>

-----------------------------------------------------------------------------
(* The draft of the request                                                *)

load(c) ==
    /\ ~submitted
    /\ seen' = [seen EXCEPT ![c] = version]
    /\ UNCHANGED <<now, version, submitted, quotes, expiry, identity, register>>

\* edit_item and edit_request; the answer carries the new version.
edit_request(c) ==
    /\ ~submitted /\ seen[c] = version /\ version < MaxVersion
    /\ version' = version + 1 /\ seen' = [seen EXCEPT ![c] = version + 1]
    /\ UNCHANGED <<now, submitted, quotes, expiry, identity, register>>

\* The expected version is optional when a request is submitted.  What the
\* clerks have loaded is not used after that.
submit_request(c) ==
    /\ ~submitted /\ version < MaxVersion
    /\ submitted' = TRUE /\ version' = version + 1
    /\ seen' = [k \in Clerks |-> version + 1]
    /\ UNCHANGED <<now, quotes, expiry, identity, register>>

-----------------------------------------------------------------------------
(* Revisions, approval and issue                                           *)

create_quote(q, expires, document) ==
    /\ submitted /\ RequestFree /\ Len(revisions) < MaxRevisions
    /\ q \in Quotations \cup {Cardinality(Quotations) + 1} /\ q <= MaxQuotations
    /\ expires > now
    /\ revisions' = Append(revisions, [quotation |-> q, created |-> now, expires |-> expires,
                                       document |-> document])
    /\ approvals' = Append(approvals, "NONE") /\ expiries' = Append(expiries, 0)
    /\ UNCHANGED <<now, draft, issues, orders, due, identity, register>>

\* The snapshot of a revision goes to the ledger, once.
submit_quotation(n) ==
    /\ approvals[n] = "NONE"
    /\ approvals' = [approvals EXCEPT ![n] = "PENDING"]

require_quotation_approval(n) == approvals[n] = "APPROVED"

\* Only a revision that has been prepared can be submitted.
request_approval(n) ==
    /\ submitted /\ RequestFree /\ n \in versions
    /\ submit_quotation(n)
    /\ UNCHANGED <<now, draft, revisions, issues, orders, expiry, identity, register>>

\* The ledger locks the approval and not the request.
decide_quotation(n, approved) ==
    /\ approvals[n] = "PENDING"
    /\ approvals' = [approvals EXCEPT ![n] = IF approved THEN "APPROVED" ELSE "REJECTED"]
    /\ UNCHANGED <<now, draft, revisions, issues, orders, expiry, identity, register>>

\* A faulty service: the ledger is not asked.
IssueUnapproved(n, at) ==
    /\ submitted /\ RequestFree /\ Len(issues) < MaxIssues
    /\ ~Expired(n, now) /\ Latest(n) /\ revisions[n].document /\ revisions[n].created <= at
    /\ issues' = Append(issues, [revision |-> n, at |-> at])
    /\ UNCHANGED <<now, draft, revisions, approvals, orders, expiry, identity, register>>

issue_quote(n, at) ==
    /\ submitted /\ RequestFree /\ Len(issues) < MaxIssues
    /\ require_quotation_approval(n)
    /\ ~Expired(n, now) /\ Latest(n) /\ revisions[n].document /\ revisions[n].created <= at
    /\ issues' = Append(issues, [revision |-> n, at |-> at])
    /\ UNCHANGED <<now, draft, revisions, approvals, orders, expiry, identity, register>>

\* An order names when it was received; it may be recorded later.
create_po(n, at) ==
    /\ submitted /\ RequestFree /\ Len(orders) < MaxOrders
    /\ \E i \in DOMAIN issues : issues[i].revision = n /\ issues[i].at <= at
    /\ at <= revisions[n].expires
    /\ orders' = Append(orders, [revision |-> n, at |-> at])
    /\ UNCHANGED <<now, draft, revisions, approvals, issues, expiry, identity, register>>

-----------------------------------------------------------------------------
(* The expiry command: a list read once, one transaction per revision.     *)

\* A faulty query: a revision that was revised since does not expire.
ToExpireLatest ==
    {n \in DOMAIN revisions : Expired(n, now) /\ expiries[n] = 0 /\ Issued(n) /\ Latest(n)}

ToExpire == {n \in DOMAIN revisions : Expired(n, now) /\ expiries[n] = 0 /\ Issued(n)}

scan(c) ==
    /\ due[c] = {} /\ ToExpire # {}
    /\ due' = [due EXCEPT ![c] = ToExpire]
    /\ UNCHANGED <<now, draft, quotes, expiries, identity, register>>

\* A faulty transaction: it trusts the list.
ExpireFromList(c, n) ==
    /\ n \in due[c] /\ RequestFree
    /\ due' = [due EXCEPT ![c] = @ \ {n}]
    /\ expiries' = [expiries EXCEPT ![n] = @ + 1]
    /\ UNCHANGED <<now, draft, quotes, identity, register>>

expire_revision(c, n) ==
    /\ n \in due[c] /\ RequestFree
    /\ due' = [due EXCEPT ![c] = @ \ {n}]
    /\ expiries' = IF n \in ToExpire THEN [expiries EXCEPT ![n] = @ + 1] ELSE expiries
    /\ UNCHANGED <<now, draft, quotes, identity, register>>

\* The process of a run dies between two transactions.
crash(c) ==
    /\ due[c] # {} /\ due' = [due EXCEPT ![c] = {}]
    /\ UNCHANGED <<now, draft, quotes, expiries, identity, register>>

-----------------------------------------------------------------------------
(* Client codes: procurement and ledger each have a service that assigns   *)
(* one under the lock of the Party row.                                    *)

check_code(p, code) ==
    /\ \A a \in coding : a.party # p
    /\ codes[p] = NoCode /\ \A other \in Parties : codes[other] # code
    /\ coding' = coding \cup {[party |-> p, code |-> code]}
    /\ UNCHANGED <<now, draft, quotes, expiry, codes, register>>

\* The unique constraints refuse a code that another party got in between, and
\* a second code for one party.
set_client_code(p, code) ==
    /\ [party |-> p, code |-> code] \in coding
    /\ coding' = coding \ {[party |-> p, code |-> code]}
    /\ codes' = IF codes[p] # NoCode \/ \E other \in Parties : codes[other] = code THEN codes
                ELSE [codes EXCEPT ![p] = code]
    /\ UNCHANGED <<now, draft, quotes, expiry, register>>

-----------------------------------------------------------------------------
(* Numbers                                                                 *)

\* A faulty read of the sequence: the row is not locked.
AllocateUnlocked(document, n) ==
    /\ codes[Client] # NoCode
    /\ numbering' = numbering \cup {[document |-> document, serial |-> last_serial + 1,
                                     revision |-> n]}
    /\ UNCHANGED <<registers, versions, last_serial>>

\* Wait for the row of the sequence and take the next serial.
allocate_number(document, n) ==
    /\ codes[Client] # NoCode
    /\ numbering = {}
    /\ numbering' = {[document |-> document, serial |-> last_serial + 1, revision |-> n]}
    /\ UNCHANGED <<registers, versions, last_serial>>

Registered(document) == \E r \in registers : r.document = document

\* The first document of a quotation needs a number, later ones reuse it.
prepare(n) ==
    /\ submitted /\ RequestFree /\ n \notin versions
    /\ IF Registered(revisions[n].quotation)
       THEN /\ versions' = versions \cup {n}
            /\ UNCHANGED <<registers, last_serial, numbering>>
       ELSE allocate_number(revisions[n].quotation, n)
    /\ UNCHANGED <<now, draft, quotes, expiry, identity>>

\* The ledger numbers an approved invoice or receipt when it registers it.
register_financial(f) ==
    /\ ~Registered(f) /\ allocate_number(f, 0)
    /\ UNCHANGED <<now, draft, quotes, expiry, identity>>

\* COMMIT of a numbering transaction: register, version and sequence together.
commit(r) ==
    /\ r \in numbering
    /\ numbering' = numbering \ {r}
    /\ registers' = registers \cup {[document |-> r.document, serial |-> r.serial]}
    /\ last_serial' = r.serial
    /\ versions' = IF r.revision = 0 THEN versions ELSE versions \cup {r.revision}
    /\ UNCHANGED <<now, draft, quotes, expiry, identity>>

\* ROLLBACK: a later check or the process fails.
rollback(r) ==
    /\ r \in numbering
    /\ numbering' = numbering \ {r}
    /\ UNCHANGED <<now, draft, quotes, expiry, identity, registers, versions, last_serial>>

-----------------------------------------------------------------------------
Next ==
    \/ Tick
    \/ \E c \in Clerks : load(c) \/ edit_request(c) \/ submit_request(c)
    \/ \E q \in 1 .. MaxQuotations, expires \in 1 .. Never, document \in BOOLEAN :
           create_quote(q, expires, document)
    \/ \E n \in DOMAIN revisions :
        \/ request_approval(n) \/ prepare(n)
        \/ \E approved \in BOOLEAN : decide_quotation(n, approved)
        \/ \E at \in 0 .. now : issue_quote(n, at) \/ create_po(n, at)
    \/ \E c \in Commands : scan(c) \/ crash(c) \/ \E n \in due[c] : expire_revision(c, n)
    \/ \E p \in Parties, code \in Codes : check_code(p, code) \/ set_client_code(p, code)
    \/ \E f \in Financials : register_financial(f)
    \/ \E r \in numbering : commit(r) \/ rollback(r)

Spec == Init /\ [][Next]_vars

\* The deployment runs the command again and again, by the clock, so that now and
\* then a run begins while no number is being taken; a transaction that waits for
\* the row of the request gets it, in the order of the database's lock queue.
FairSpec ==
    /\ Spec
    /\ \A c \in Commands :
           /\ SF_vars(RequestFree /\ scan(c))
           /\ SF_vars(\E n \in due[c] : expire_revision(c, n))
    /\ WF_vars(\E r \in numbering : commit(r) \/ rollback(r))

-----------------------------------------------------------------------------
(* Properties                                                              *)

\* Numbers of the year are complete and unique, whatever transactions wait or
\* fail: the registered serials are 1 .. last_serial, and no document has two.
SerialsComplete ==
    /\ {r.serial : r \in registers} = 1 .. last_serial
    /\ \A r1, r2 \in registers :
           r1.serial = r2.serial \/ r1.document = r2.document => r1 = r2

\* The client ordered what was sent: each order names a revision that the ledger
\* approved, that was numbered, and that had been sent and had not expired when
\* the order was received.
OrderedWasSent ==
    \A o \in DOMAIN orders :
        LET n == orders[o].revision IN
        /\ approvals[n] = "APPROVED" /\ n \in versions
        /\ \E i \in DOMAIN issues :
               /\ issues[i].revision = n
               /\ revisions[n].created <= issues[i].at /\ issues[i].at <= orders[o].at
        /\ orders[o].at <= revisions[n].expires

\* However many runs of the command overlap, the expiry of a revision is
\* recorded at most once, and only if it was sent.
ExpiryRecordedOnce ==
    \A n \in DOMAIN revisions :
        expiries[n] <= 1 /\ (expiries[n] = 1 => Issued(n) /\ Expired(n, now))

\* The expiry of a revision that was sent is recorded, even if runs die.
ExpiryRecorded ==
    \A n \in 1 .. MaxRevisions :
        (n \in DOMAIN revisions /\ Issued(n) /\ Expired(n, now))
            ~> (n \in DOMAIN revisions /\ expiries[n] = 1)

(* The first three are inductive with what a transaction that takes a number may   *)
(* rely on, and with what an approval and an issue say of their revision.          *)

NumbersInHand ==
    /\ \A r1, r2 \in numbering : r1 = r2
    /\ \A r \in numbering :
           /\ r.serial = last_serial + 1 /\ ~Registered(r.document)
           /\ r.revision \in {0} \cup DOMAIN revisions

SubmittedWasPrepared == \A n \in DOMAIN approvals : approvals[n] # "NONE" => n \in versions

IssuedWasApproved ==
    \A i \in DOMAIN issues :
        /\ issues[i].revision \in DOMAIN revisions
        /\ approvals[issues[i].revision] = "APPROVED"
        /\ revisions[issues[i].revision].created <= issues[i].at

QuotationsInvariant ==
    /\ TypeOK
    /\ NumbersInHand /\ SerialsComplete
    /\ SubmittedWasPrepared /\ IssuedWasApproved /\ OrderedWasSent
    /\ ExpiryRecordedOnce

=============================================================================
