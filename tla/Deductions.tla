------------------------------- MODULE Deductions -------------------------------
(***************************************************************************)
(* The authorizations under which a client withholds tax (authorize and    *)
(* revoke in ledger/services/tax.py) and the deductions posted under them  *)
(* (WITHHOLDING in ledger/services/business_posting.py and reversals.py),  *)
(* for one client and one type of tax.                                     *)
(*                                                                         *)
(* Authorizing and revoking lock the row of the client; posting and        *)
(* reversing lock the book of the currency, and not the client.  What      *)
(* posting and revoking both lock is the row of the authorization.         *)
(* Settlement models the amounts of deductions.                            *)
(***************************************************************************)
EXTENDS Integers

CONSTANTS
    Authorizations, \* ClientWithholdingAuthorization rows
    Deducted,       \* WithholdingRecord rows
    LastDay,        \* accounting dates are 1..LastDay
    Accountants,    \* requests in progress at a time
    NoEntry

Days == 1..LastDay
NoDay == 0   \* NULL in effective_to and revoked_from

VARIABLES
    authorization, \* the rows of authorizations
    deduction,     \* the rows of deductions, with the status of their record
    session        \* the transaction of each request

deductionVars == <<authorization, deduction, session>>

AuthorizationRow == [from : Days, to : Days \cup {NoDay}, revoked : Days \cup {NoDay}]

ASSUME DeductionsAssumption == LastDay \in Nat /\ NoEntry \notin AuthorizationRow

DeductionRow == [under : Authorizations, day : Days, status : {"APPROVED", "POSTED", "REVERSED"}]
NoSession == [op |-> "NONE"]
Posting == [op : {"POST"}, row : Deducted, locks : Authorizations]
Revoking == [op : {"REVOKE"}, locks : Authorizations, day : Days]

DeductionsTypeOK ==
    /\ authorization \in [Authorizations -> AuthorizationRow \cup {NoEntry}]
    /\ deduction \in [Deducted -> DeductionRow \cup {NoEntry}]
    /\ session \in [Accountants -> {NoSession} \cup Posting \cup Revoking]

Free(a) ==
    \A c \in Accountants : session[c].op \in {"POST", "REVOKE"} => session[c].locks # a

\* A mutation of AuthorizationUnlocked: posting reads the authorization without locking it.
FreeOfRevocations(a) == \A c \in Accountants : session[c].op = "REVOKE" => session[c].locks # a

\* The row of the authorization can be locked.
AuthorizationUnlocked(a) == Free(a)

PartyUnlocked == \A c \in Accountants : session[c].op # "REVOKE"
BookUnlocked == \A c \in Accountants : session[c].op # "POST"

\* The authorization covers the day.
Covers(row, day) ==
    /\ row.from <= day
    /\ row.to = NoDay \/ day <= row.to
    /\ row.revoked = NoDay \/ day < row.revoked

-----------------------------------------------------------------------------

\* The intervals of two authorizations that have not been revoked before they meet.
Overlaps(row, from, to) ==
    /\ row.to = NoDay \/ row.to >= from
    /\ row.revoked = NoDay \/ row.revoked > from
    /\ to = NoDay \/ row.from <= to

authorize(a, from, to) ==
    /\ authorization[a] = NoEntry /\ PartyUnlocked
    /\ to = NoDay \/ to >= from
    /\ \A b \in Authorizations :
           authorization[b] # NoEntry => ~Overlaps(authorization[b], from, to)
    /\ authorization' = [authorization EXCEPT ![a] =
           [from |-> from, to |-> to, revoked |-> NoDay]]
    /\ UNCHANGED <<deduction, session>>

\* The locks of the client and of the authorization, and the checks.
revoke(c, a, day) ==
    /\ session[c] = NoSession
    /\ PartyUnlocked /\ AuthorizationUnlocked(a)
    /\ authorization[a] # NoEntry
    /\ authorization[a].revoked = NoDay /\ day >= authorization[a].from
    /\ \A w \in Deducted : deduction[w] # NoEntry =>
           ~(deduction[w].under = a /\ deduction[w].status = "POSTED" /\ deduction[w].day >= day)
    /\ session' = [session EXCEPT ![c] = [op |-> "REVOKE", locks |-> a, day |-> day]]
    /\ UNCHANGED <<authorization, deduction>>

commit_revocation(c) ==
    LET a == session[c].locks IN
    /\ session[c].op = "REVOKE"
    /\ authorization' = [authorization EXCEPT ![a] =
           [from |-> @.from, to |-> @.to, revoked |-> session[c].day]]
    /\ session' = [session EXCEPT ![c] = NoSession]
    /\ UNCHANGED deduction

-----------------------------------------------------------------------------

\* The draft of a deduction, approved; whether the day is covered is not asked.
create_deduction(w, a, day) ==
    /\ deduction[w] = NoEntry
    /\ authorization[a] # NoEntry
    /\ deduction' = [deduction EXCEPT ![w] = [under |-> a, day |-> day, status |-> "APPROVED"]]
    /\ UNCHANGED <<authorization, session>>

\* The locks of the book and of the authorization, and the checks.
post_deduction(c, w) ==
    /\ session[c] = NoSession
    /\ deduction[w] # NoEntry /\ deduction[w].status = "APPROVED"
    /\ BookUnlocked /\ AuthorizationUnlocked(deduction[w].under)
    /\ Covers(authorization[deduction[w].under], deduction[w].day)
    /\ session' = [session EXCEPT ![c] =
           [op |-> "POST", row |-> w, locks |-> deduction[w].under]]
    /\ UNCHANGED <<authorization, deduction>>

SetStatus(w, status) ==
    deduction' = [deduction EXCEPT ![w] =
        [under |-> @.under, day |-> @.day, status |-> status]]

commit_posting(c) ==
    /\ session[c].op = "POST"
    /\ SetStatus(session[c].row, "POSTED")
    /\ session' = [session EXCEPT ![c] = NoSession]
    /\ UNCHANGED authorization

reverse_deduction(w) ==
    /\ BookUnlocked
    /\ deduction[w] # NoEntry /\ deduction[w].status = "POSTED"
    /\ SetStatus(w, "REVERSED")
    /\ UNCHANGED <<authorization, session>>

\* Any other failure: the transaction is rolled back.
rollback_session(c) ==
    /\ session[c] # NoSession
    /\ session' = [session EXCEPT ![c] = NoSession]
    /\ UNCHANGED <<authorization, deduction>>

-----------------------------------------------------------------------------

DeductionsInit ==
    /\ authorization = [a \in Authorizations |-> NoEntry]
    /\ deduction = [w \in Deducted |-> NoEntry]
    /\ session = [c \in Accountants |-> NoSession]

DeductionsNext ==
    \/ \E a \in Authorizations, day \in Days :
           \/ \E to \in Days \cup {NoDay} : authorize(a, day, to)
           \/ \E c \in Accountants : revoke(c, a, day)
           \/ \E w \in Deducted : create_deduction(w, a, day)
    \/ \E w \in Deducted : reverse_deduction(w) \/ \E c \in Accountants : post_deduction(c, w)
    \/ \E c \in Accountants :
           commit_revocation(c) \/ commit_posting(c) \/ rollback_session(c)

DeductionsSpec == DeductionsInit /\ [][DeductionsNext]_deductionVars

-----------------------------------------------------------------------------
(* Properties.                                                             *)

\* "Revocation cannot invalidate posted deductions" (ledger/services/tax.py:75),
\* "Client was not authorized on the deduction date"
\* (ledger/services/business_posting.py:333): the day of a posted deduction is
\* covered by the authorization it names and by no other, whatever is authorized,
\* revoked and posted at the same time.
AuthorizedOnce ==
    \A w \in Deducted : deduction[w] # NoEntry /\ deduction[w].status = "POSTED" =>
        \A a \in Authorizations :
            authorization[a] # NoEntry /\ Covers(authorization[a], deduction[w].day)
                <=> a = deduction[w].under

(* AuthorizedOnce is not inductive: it needs what a transaction may rely on while *)
(* it holds the row of an authorization.                                          *)

Busy(c) == session[c].op \in {"POST", "REVOKE"}

LocksHeldOnce ==
    \A c, d \in Accountants : c # d /\ Busy(c) /\ Busy(d) =>
        /\ session[c].locks # session[d].locks
        /\ session[c].op # session[d].op

PostingStands ==
    \A c \in Accountants : session[c].op = "POST" =>
        /\ deduction[session[c].row] # NoEntry
        /\ deduction[session[c].row].status = "APPROVED"
        /\ deduction[session[c].row].under = session[c].locks
        /\ Covers(authorization[session[c].locks], deduction[session[c].row].day)

RevocationStands ==
    \A c \in Accountants : session[c].op = "REVOKE" =>
        /\ authorization[session[c].locks] # NoEntry
        /\ authorization[session[c].locks].revoked = NoDay
        /\ session[c].day >= authorization[session[c].locks].from
        /\ \A w \in Deducted :
              deduction[w] # NoEntry /\ deduction[w].status = "POSTED"
              /\ deduction[w].under = session[c].locks => deduction[w].day < session[c].day

\* No two authorizations cover one day.
Disjoint ==
    \A a, b \in Authorizations, day \in Days :
        /\ authorization[a] # NoEntry /\ Covers(authorization[a], day)
        /\ authorization[b] # NoEntry /\ Covers(authorization[b], day)
        => a = b

DraftsAreAuthorized ==
    \A w \in Deducted : deduction[w] # NoEntry => authorization[deduction[w].under] # NoEntry

PostedIsCovered ==
    \A w \in Deducted : deduction[w] # NoEntry /\ deduction[w].status = "POSTED" =>
        Covers(authorization[deduction[w].under], deduction[w].day)

DeductionsInvariant ==
    /\ DeductionsTypeOK
    /\ LocksHeldOnce /\ PostingStands /\ RevocationStands
    /\ Disjoint /\ DraftsAreAuthorized /\ PostedIsCovered

=============================================================================
