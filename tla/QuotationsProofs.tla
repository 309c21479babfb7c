---------------------------- MODULE QuotationsProofs ----------------------------
(***************************************************************************)
(* Proofs about Quotations: for any number of clerks, clients, documents   *)
(* and runs of the expiry command, the numbers of the year are complete    *)
(* and unique, what the client ordered had been sent to it, and an expiry  *)
(* is recorded once.                                                       *)
(***************************************************************************)
EXTENDS Quotations, TLAPS

LEMMA BoundsAreNaturals ==
    /\ MaxVersion \in Nat /\ MaxTime \in Nat /\ MaxQuotations \in Nat
    /\ MaxRevisions \in Nat /\ MaxIssues \in Nat /\ MaxOrders \in Nat
  BY QuotationsAssumption DEF QuotationsAssumption

USE BoundsAreNaturals

\* The rows of a typed state.
LEMMA RowsAreTyped ==
    ASSUME TypeOK
    PROVE  /\ \A n \in DOMAIN revisions :
                 /\ revisions[n].quotation \in Documents
                 /\ revisions[n].created \in Nat /\ revisions[n].expires \in Nat
           /\ \A i \in DOMAIN issues : issues[i].revision \in Nat /\ issues[i].at \in Nat
           /\ \A o \in DOMAIN orders : orders[o].revision \in Nat /\ orders[o].at \in Nat
<1>1. \A n \in DOMAIN revisions : revisions[n] \in Revision
  BY DEF TypeOK
<1>2. /\ \A i \in DOMAIN issues : issues[i] \in Issue
      /\ \A o \in DOMAIN orders : orders[o] \in Issue
  BY DEF TypeOK
<1> QED
  BY <1>1, <1>2 DEF Revision, Issue, Documents, Times, Never

LEMMA QuotationsStart == Init => QuotationsInvariant
<1> SUFFICES ASSUME Init PROVE QuotationsInvariant
  OBVIOUS
<1>1. TypeOK
  <2>1. now \in Times /\ version \in 0 .. MaxVersion /\ last_serial \in Nat
    BY DEF Init, Times
  <2>2. submitted \in BOOLEAN /\ seen \in [Clerks -> 0 .. MaxVersion]
    <3>1. submitted = FALSE /\ seen = [c \in Clerks |-> 0] /\ 0 \in 0 .. MaxVersion
      BY DEF Init
    <3> QED
      BY <3>1
  <2>3. /\ revisions \in Seq(Revision) /\ approvals \in Seq(Approval)
        /\ issues \in Seq(Issue) /\ orders \in Seq(Issue) /\ expiries \in Seq(Nat)
        /\ Len(approvals) = Len(revisions) /\ Len(expiries) = Len(revisions)
    BY DEF Init
  <2>4. /\ due \in [Commands -> SUBSET DOMAIN revisions]
        /\ codes \in [Parties -> Codes \cup {NoCode}]
        /\ coding = {} /\ registers = {} /\ versions = {} /\ numbering = {}
    BY DEF Init
  <2> QED
    BY <2>1, <2>2, <2>3, <2>4 DEF TypeOK
<1>2. NumbersInHand /\ SerialsComplete
  BY DEF Init, NumbersInHand, SerialsComplete
<1>3. SubmittedWasPrepared /\ IssuedWasApproved /\ OrderedWasSent /\ ExpiryRecordedOnce
  BY DEF Init, SubmittedWasPrepared, IssuedWasApproved, OrderedWasSent, ExpiryRecordedOnce
<1> QED
  BY <1>1, <1>2, <1>3 DEF QuotationsInvariant

-----------------------------------------------------------------------------
(* The draft, the clock and the codes: the quotations are left alone, and   *)
(* the clock only goes on.                                                  *)

QuotesKept == UNCHANGED <<quotes, expiries, register>>

LEMMA KeptQuotes ==
    ASSUME QuotationsInvariant, QuotesKept, TypeOK', now' >= now
    PROVE  QuotationsInvariant'
<1> USE DEF QuotationsInvariant, QuotesKept, quotes, register
<1>1. NumbersInHand'
  BY DEF NumbersInHand, Registered
<1>2. SerialsComplete'
  BY DEF SerialsComplete
<1>3. SubmittedWasPrepared' /\ IssuedWasApproved' /\ OrderedWasSent'
  BY DEF SubmittedWasPrepared, IssuedWasApproved, OrderedWasSent
<1>4. ExpiryRecordedOnce'
  <2>1. \A n \in DOMAIN revisions : revisions[n].expires \in Nat
    BY RowsAreTyped
  <2>2. now \in Nat /\ now' \in Nat
    BY DEF TypeOK, Times
  <2> QED
    BY <2>1, <2>2 DEF ExpiryRecordedOnce, Issued, Expired
<1> QED
  BY <1>1, <1>2, <1>3, <1>4

LEMMA TickKeeps ==
    ASSUME QuotationsInvariant, Tick
    PROVE  QuotationsInvariant'
<1>1. TypeOK' /\ now' >= now
  BY DEF QuotationsInvariant, TypeOK, Tick, Times, draft, quotes, expiry, identity, register
<1> QED
  BY <1>1, KeptQuotes DEF Tick, QuotesKept, expiry

LEMMA DraftKeeps ==
    ASSUME QuotationsInvariant, NEW c \in Clerks, load(c) \/ edit_request(c) \/ submit_request(c)
    PROVE  QuotationsInvariant'
<1> USE DEF QuotationsInvariant, TypeOK, Times, quotes, expiry, identity, register
<1>1. CASE load(c)
  <2>1. TypeOK' /\ now' >= now
    BY <1>1 DEF load
  <2> QED
    BY <1>1, <2>1, KeptQuotes DEF load, QuotesKept
<1>2. CASE edit_request(c)
  <2>1. TypeOK' /\ now' >= now
    BY <1>2 DEF edit_request
  <2> QED
    BY <1>2, <2>1, KeptQuotes DEF edit_request, QuotesKept
<1>3. CASE submit_request(c)
  <2>1. TypeOK' /\ now' >= now
    BY <1>3 DEF submit_request
  <2> QED
    BY <1>3, <2>1, KeptQuotes DEF submit_request, QuotesKept
<1> QED
  BY <1>1, <1>2, <1>3

LEMMA CodesKeep ==
    ASSUME QuotationsInvariant, NEW p \in Parties, NEW code \in Codes,
           check_code(p, code) \/ set_client_code(p, code)
    PROVE  QuotationsInvariant'
<1> USE DEF QuotationsInvariant, TypeOK, Times, draft, quotes, expiry, register
<1>1. CASE check_code(p, code)
  <2>1. TypeOK' /\ now' >= now
    BY <1>1 DEF check_code
  <2> QED
    BY <1>1, <2>1, KeptQuotes DEF check_code, QuotesKept
<1>2. CASE set_client_code(p, code)
  <2>1. TypeOK' /\ now' >= now
    BY <1>2 DEF set_client_code
  <2> QED
    BY <1>2, <2>1, KeptQuotes DEF set_client_code, QuotesKept
<1> QED
  BY <1>1, <1>2

LEMMA CommandKeeps ==
    ASSUME QuotationsInvariant, NEW c \in Commands, scan(c) \/ crash(c)
    PROVE  QuotationsInvariant'
<1> USE DEF QuotationsInvariant, TypeOK, Times, draft, quotes, identity, register
<1>1. CASE scan(c)
  <2>1. TypeOK' /\ now' >= now
    BY <1>1 DEF scan, ToExpire
  <2> QED
    BY <1>1, <2>1, KeptQuotes DEF scan, QuotesKept
<1>2. CASE crash(c)
  <2>1. TypeOK' /\ now' >= now
    BY <1>2 DEF crash
  <2> QED
    BY <1>2, <2>1, KeptQuotes DEF crash, QuotesKept
<1> QED
  BY <1>1, <1>2

-----------------------------------------------------------------------------
(* Revisions, approvals, issues and orders                                 *)

\* A new revision is appended: what was said of the others stays.
LEMMA CreateKeeps ==
    ASSUME QuotationsInvariant, NEW q \in 1 .. MaxQuotations, NEW expires \in 1 .. Never,
           NEW document \in BOOLEAN, create_quote(q, expires, document)
    PROVE  QuotationsInvariant'
<1> USE DEF QuotationsInvariant, create_quote
<1> DEFINE row == [quotation |-> q, created |-> now, expires |-> expires, document |-> document]
<1>1. row \in Revision
  BY DEF TypeOK, Revision
<1>2. /\ revisions' \in Seq(Revision) /\ Len(revisions') = Len(revisions) + 1
      /\ \A n \in DOMAIN revisions : n \in DOMAIN revisions' /\ revisions'[n] = revisions[n]
  BY <1>1 DEF TypeOK
<1>3. /\ approvals' \in Seq(Approval) /\ Len(approvals') = Len(approvals) + 1
      /\ \A n \in DOMAIN approvals : approvals'[n] = approvals[n]
      /\ \A n \in DOMAIN approvals' : n \notin DOMAIN approvals => approvals'[n] = "NONE"
  <2>1. approvals \in Seq(Approval) /\ "NONE" \in Approval /\ approvals' = Append(approvals, "NONE")
    BY DEF TypeOK, Approval
  <2> QED
    BY <2>1
<1>4. /\ expiries' \in Seq(Nat) /\ Len(expiries') = Len(expiries) + 1
      /\ \A n \in DOMAIN expiries : expiries'[n] = expiries[n]
      /\ \A n \in DOMAIN expiries' : n \notin DOMAIN expiries => expiries'[n] = 0
  <2>1. expiries \in Seq(Nat) /\ 0 \in Nat /\ expiries' = Append(expiries, 0)
    BY DEF TypeOK
  <2> QED
    BY <2>1
<1>5. DOMAIN approvals = DOMAIN revisions /\ DOMAIN expiries = DOMAIN revisions
  BY DEF TypeOK
<1>6. TypeOK'
  BY <1>2, <1>3, <1>4 DEF TypeOK, draft, identity, register
<1>7. NumbersInHand' /\ SerialsComplete'
  BY <1>2 DEF NumbersInHand, SerialsComplete, Registered, register
<1>8. SubmittedWasPrepared'
  BY <1>3 DEF SubmittedWasPrepared, register
<1>9. IssuedWasApproved'
  BY <1>2, <1>3, <1>5, <1>6 DEF IssuedWasApproved, TypeOK
<1>10. OrderedWasSent'
  <2> SUFFICES ASSUME NEW o \in DOMAIN orders
               PROVE  LET n_1 == orders[o].revision IN
                      /\ approvals'[n_1] = "APPROVED" /\ n_1 \in versions
                      /\ \E i \in DOMAIN issues :
                             /\ issues[i].revision = n_1
                             /\ revisions'[n_1].created <= issues[i].at
                             /\ issues[i].at <= orders[o].at
                      /\ orders[o].at <= revisions'[n_1].expires
    BY <1>2 DEF OrderedWasSent, register
  <2> DEFINE sent == orders[o].revision
  <2>1. /\ approvals[sent] = "APPROVED" /\ sent \in versions
        /\ \E i \in DOMAIN issues :
               /\ issues[i].revision = sent
               /\ revisions[sent].created <= issues[i].at /\ issues[i].at <= orders[o].at
        /\ orders[o].at <= revisions[sent].expires
    BY DEF OrderedWasSent
  <2>2. sent \in DOMAIN revisions /\ sent \in DOMAIN approvals
    BY <2>1 DEF TypeOK
  <2> QED
    BY <2>1, <2>2, <1>1, <1>2, <1>3
<1>11. ExpiryRecordedOnce'
  BY <1>2, <1>4, <1>5, <1>6 DEF ExpiryRecordedOnce, Issued, Expired, TypeOK
<1> QED
  BY <1>6, <1>7, <1>8, <1>9, <1>10, <1>11

\* A decision changes an approval that is not APPROVED.
LEMMA ApprovalKeeps ==
    ASSUME QuotationsInvariant, NEW n \in DOMAIN revisions,
           request_approval(n) \/ \E approved \in BOOLEAN : decide_quotation(n, approved)
    PROVE  QuotationsInvariant'
<1> USE DEF QuotationsInvariant
<1>1. /\ UNCHANGED <<now, draft, revisions, issues, orders, expiry, identity, register>>
      /\ approvals[n] # "APPROVED" /\ n \in versions
      /\ \E status \in Approval : approvals' = [approvals EXCEPT ![n] = status]
  BY DEF request_approval, submit_quotation, decide_quotation, Approval,
     SubmittedWasPrepared, TypeOK
<1>2. /\ approvals' \in Seq(Approval) /\ Len(approvals') = Len(approvals)
      /\ \A k \in DOMAIN approvals : k # n => approvals'[k] = approvals[k]
  BY <1>1 DEF TypeOK
<1>3. TypeOK'
  BY <1>1, <1>2 DEF TypeOK, draft, expiry, identity, register
<1>4. NumbersInHand' /\ SerialsComplete'
  BY <1>1 DEF NumbersInHand, SerialsComplete, Registered, register
<1>5. SubmittedWasPrepared'
  BY <1>1, <1>2 DEF SubmittedWasPrepared, register, TypeOK
<1>6. IssuedWasApproved'
  BY <1>1, <1>2 DEF IssuedWasApproved, TypeOK
<1>7. OrderedWasSent'
  <2> SUFFICES ASSUME NEW o \in DOMAIN orders
               PROVE  LET n_1 == orders[o].revision IN
                      /\ approvals'[n_1] = "APPROVED" /\ n_1 \in versions
                      /\ \E i \in DOMAIN issues :
                             /\ issues[i].revision = n_1
                             /\ revisions[n_1].created <= issues[i].at
                             /\ issues[i].at <= orders[o].at
                      /\ orders[o].at <= revisions[n_1].expires
    BY <1>1 DEF OrderedWasSent, register
  <2> DEFINE sent == orders[o].revision
  <2>1. /\ approvals[sent] = "APPROVED" /\ sent \in versions
        /\ \E i \in DOMAIN issues :
               /\ issues[i].revision = sent
               /\ revisions[sent].created <= issues[i].at /\ issues[i].at <= orders[o].at
        /\ orders[o].at <= revisions[sent].expires
    BY DEF OrderedWasSent
  <2>2. sent \in DOMAIN revisions /\ sent \in DOMAIN approvals
    BY <2>1 DEF TypeOK
  <2> QED
    BY <2>1, <2>2, <1>1, <1>2
<1>8. ExpiryRecordedOnce'
  BY <1>1 DEF ExpiryRecordedOnce, Issued, Expired, expiry
<1> QED
  BY <1>3, <1>4, <1>5, <1>6, <1>7, <1>8

LEMMA IssueKeeps ==
    ASSUME QuotationsInvariant, NEW n \in DOMAIN revisions, NEW at \in 0 .. now,
           issue_quote(n, at)
    PROVE  QuotationsInvariant'
<1> USE DEF QuotationsInvariant, issue_quote
<1>1. [revision |-> n, at |-> at] \in Issue
  BY DEF TypeOK, Issue, Times
<1>2. /\ issues' \in Seq(Issue) /\ Len(issues') = Len(issues) + 1
      /\ \A i \in DOMAIN issues : i \in DOMAIN issues' /\ issues'[i] = issues[i]
      /\ issues'[Len(issues) + 1] = [revision |-> n, at |-> at]
  BY <1>1 DEF TypeOK
<1>3. TypeOK'
  BY <1>2 DEF TypeOK, draft, expiry, identity, register
<1>4. NumbersInHand' /\ SerialsComplete' /\ SubmittedWasPrepared'
  BY DEF NumbersInHand, SerialsComplete, SubmittedWasPrepared, Registered, register
<1>5. IssuedWasApproved'
  <2>1. \A i \in DOMAIN issues' : i \in DOMAIN issues \/ i = Len(issues) + 1
    BY <1>2 DEF TypeOK
  <2> QED
    BY <1>2, <2>1 DEF IssuedWasApproved, require_quotation_approval, TypeOK
<1>6. OrderedWasSent'
  BY <1>2 DEF OrderedWasSent, register
<1>7. ExpiryRecordedOnce'
  BY <1>2 DEF ExpiryRecordedOnce, Issued, Expired, expiry
<1> QED
  BY <1>3, <1>4, <1>5, <1>6, <1>7

LEMMA OrderKeeps ==
    ASSUME QuotationsInvariant, NEW n \in DOMAIN revisions, NEW at \in 0 .. now,
           create_po(n, at)
    PROVE  QuotationsInvariant'
<1>1. [revision |-> n, at |-> at] \in Issue
  BY DEF QuotationsInvariant, TypeOK, Issue, Times
<1> USE DEF QuotationsInvariant, create_po
<1>2. /\ orders' \in Seq(Issue) /\ Len(orders') = Len(orders) + 1
      /\ \A o \in DOMAIN orders : orders'[o] = orders[o]
      /\ orders'[Len(orders) + 1] = [revision |-> n, at |-> at]
      /\ \A o \in DOMAIN orders' : o \in DOMAIN orders \/ o = Len(orders) + 1
  BY <1>1 DEF TypeOK
<1>3. TypeOK'
  BY <1>2 DEF TypeOK, draft, expiry, identity, register
<1>4. NumbersInHand' /\ SerialsComplete' /\ SubmittedWasPrepared' /\ IssuedWasApproved'
  BY DEF NumbersInHand, SerialsComplete, SubmittedWasPrepared, IssuedWasApproved, Registered,
     register
<1>5. OrderedWasSent'
  <2>1. PICK i \in DOMAIN issues : issues[i].revision = n /\ issues[i].at <= at
    OBVIOUS
  <2>2. /\ approvals[n] = "APPROVED" /\ revisions[n].created <= issues[i].at
        /\ n \in DOMAIN approvals
    BY <2>1 DEF IssuedWasApproved, TypeOK
  <2>3. n \in versions
    BY <2>2 DEF SubmittedWasPrepared
  <2> QED
    BY <1>2, <2>1, <2>2, <2>3 DEF OrderedWasSent, register
<1>6. ExpiryRecordedOnce'
  BY DEF ExpiryRecordedOnce, Issued, Expired, expiry
<1> QED
  BY <1>3, <1>4, <1>5, <1>6

\* A transaction of the command records an expiry only where none is recorded.
LEMMA ExpireKeeps ==
    ASSUME QuotationsInvariant, NEW c \in Commands, NEW n \in due[c], expire_revision(c, n)
    PROVE  QuotationsInvariant'
<1> USE DEF QuotationsInvariant, expire_revision
<1>1. /\ expiries' \in Seq(Nat) /\ Len(expiries') = Len(expiries)
      /\ n \in DOMAIN expiries
      /\ \A k \in DOMAIN expiries :
             expiries'[k] = IF k = n /\ n \in ToExpire THEN expiries[k] + 1 ELSE expiries[k]
  BY DEF TypeOK, ToExpire
<1>2. TypeOK'
  BY <1>1 DEF TypeOK, draft, quotes, identity, register
<1>3. NumbersInHand' /\ SerialsComplete' /\ SubmittedWasPrepared'
  BY DEF NumbersInHand, SerialsComplete, SubmittedWasPrepared, Registered, register, quotes
<1>4. IssuedWasApproved' /\ OrderedWasSent'
  BY DEF IssuedWasApproved, OrderedWasSent, register, quotes
<1>5. ExpiryRecordedOnce'
  <2>1. n \in ToExpire => expiries[n] = 0 /\ Issued(n) /\ Expired(n, now)
    BY DEF ToExpire
  <2>2. DOMAIN revisions' = DOMAIN expiries /\ DOMAIN revisions = DOMAIN expiries
    BY DEF TypeOK, quotes
  <2>3. \A k \in DOMAIN expiries : Issued(k)' = Issued(k) /\ Expired(k, now)' = Expired(k, now)
    BY DEF Issued, Expired, quotes
  <2>4. \A k \in DOMAIN expiries :
            expiries'[k] <= 1 /\ (expiries'[k] = 1 => Issued(k) /\ Expired(k, now))
    BY <1>1, <2>1, <2>2 DEF ExpiryRecordedOnce
  <2> QED
    BY <2>2, <2>3, <2>4 DEF ExpiryRecordedOnce
<1> QED
  BY <1>2, <1>3, <1>4, <1>5

-----------------------------------------------------------------------------
(* Numbers                                                                 *)

OthersKept == UNCHANGED <<now, draft, quotes, expiry, identity>>

\* Who takes a number finds no other in hand, and the sequence row as it is.
LEMMA AllocateKeeps ==
    ASSUME QuotationsInvariant, OthersKept, NEW document \in Documents,
           NEW n \in {0} \cup DOMAIN revisions, ~Registered(document),
           allocate_number(document, n)
    PROVE  QuotationsInvariant'
<1> USE DEF QuotationsInvariant, OthersKept, quotes
<1> USE DEF allocate_number
<1>1. [document |-> document, serial |-> last_serial + 1, revision |-> n] \in Numbering
  BY DEF TypeOK, Numbering
<1>2. TypeOK'
  BY <1>1 DEF TypeOK, draft, expiry, identity
<1>3. NumbersInHand'
  BY DEF NumbersInHand, Registered
<1>4. SerialsComplete' /\ SubmittedWasPrepared' /\ IssuedWasApproved'
  BY DEF SerialsComplete, SubmittedWasPrepared, IssuedWasApproved
<1>5. OrderedWasSent'
  BY DEF OrderedWasSent
<1>6. ExpiryRecordedOnce'
  BY DEF ExpiryRecordedOnce, Issued, Expired, expiry
<1> QED
  BY <1>2, <1>3, <1>4, <1>5, <1>6

LEMMA PrepareKeeps ==
    ASSUME QuotationsInvariant, NEW n \in DOMAIN revisions, prepare(n)
    PROVE  QuotationsInvariant'
<1> USE DEF prepare
<1>1. CASE Registered(revisions[n].quotation)
  <2> USE DEF QuotationsInvariant, quotes
  <2>1. TypeOK'
    BY <1>1 DEF TypeOK, draft, expiry, identity
  <2>2. NumbersInHand' /\ SerialsComplete'
    BY <1>1 DEF NumbersInHand, SerialsComplete, Registered
  <2>3. SubmittedWasPrepared' /\ IssuedWasApproved' /\ OrderedWasSent'
    BY <1>1 DEF SubmittedWasPrepared, IssuedWasApproved, OrderedWasSent
  <2>4. ExpiryRecordedOnce'
    BY DEF ExpiryRecordedOnce, Issued, Expired, expiry
  <2> QED
    BY <2>1, <2>2, <2>3, <2>4
<1>2. CASE ~Registered(revisions[n].quotation)
  <2>1. revisions[n].quotation \in Documents
    BY RowsAreTyped DEF QuotationsInvariant
  <2> QED
    BY <1>2, <2>1, AllocateKeeps DEF OthersKept
<1> QED
  BY <1>1, <1>2

LEMMA RegisterKeeps ==
    ASSUME QuotationsInvariant, NEW f \in Financials, register_financial(f)
    PROVE  QuotationsInvariant'
<1>1. f \in Documents /\ 0 \in {0} \cup DOMAIN revisions
  BY DEF Documents
<1> QED
  BY <1>1, AllocateKeeps DEF register_financial, OthersKept

\* The number that is committed is the next, for a document that had none.
LEMMA CommitKeeps ==
    ASSUME QuotationsInvariant, NEW r \in numbering, commit(r)
    PROVE  QuotationsInvariant'
<1> USE DEF QuotationsInvariant, commit, quotes
<1>1. /\ numbering' = {} /\ r \in Numbering
      /\ r.serial = last_serial + 1 /\ ~Registered(r.document)
      /\ r.revision \in {0} \cup DOMAIN revisions
  BY DEF NumbersInHand, TypeOK
<1>2. r.document \in Documents /\ r.serial \in Nat \ {0}
  BY <1>1 DEF Numbering
<1>3. [document |-> r.document, serial |-> r.serial] \in Register
  BY <1>2 DEF Register
<1>4. versions \subseteq versions' /\ versions' \subseteq DOMAIN revisions
  BY <1>1 DEF TypeOK
<1>5. TypeOK'
  BY <1>1, <1>2, <1>3, <1>4 DEF TypeOK, draft, expiry, identity
<1>6. NumbersInHand'
  BY <1>1 DEF NumbersInHand
<1>7. SerialsComplete'
  <2> DEFINE new == [document |-> r.document, serial |-> r.serial]
  <2>1. last_serial \in Nat /\ last_serial' = last_serial + 1
    BY <1>1 DEF TypeOK
  <2>2. registers' = registers \cup {new}
    OBVIOUS
  <2>3. \A k \in registers : k.serial \in 1 .. last_serial
    BY DEF SerialsComplete
  <2>4. \A k \in registers : k.serial # new.serial /\ k.document # new.document
    BY <1>1, <2>1, <2>3 DEF Registered
  <2>5. new.serial = last_serial + 1
    BY <1>1
  <2> HIDE DEF new
  <2>6. \A s : (\E k \in registers' : k.serial = s)
               <=> (\E k \in registers : k.serial = s) \/ s = last_serial + 1
    BY <2>2, <2>5
  <2>7. \A s : s \in 1 .. last_serial + 1 <=> s \in 1 .. last_serial \/ s = last_serial + 1
    BY <2>1
  <2>8. {k.serial : k \in registers'} = 1 .. last_serial'
    BY <2>1, <2>6, <2>7 DEF SerialsComplete
  <2>9. \A r1, r2 \in registers' :
            r1.serial = r2.serial \/ r1.document = r2.document => r1 = r2
    BY <2>2, <2>4 DEF SerialsComplete
  <2> QED
    BY <2>8, <2>9 DEF SerialsComplete
<1>8. SubmittedWasPrepared' /\ IssuedWasApproved' /\ OrderedWasSent'
  BY <1>4 DEF SubmittedWasPrepared, IssuedWasApproved, OrderedWasSent
<1>9. ExpiryRecordedOnce'
  BY DEF ExpiryRecordedOnce, Issued, Expired, expiry
<1> QED
  BY <1>5, <1>6, <1>7, <1>8, <1>9

LEMMA RollbackKeeps ==
    ASSUME QuotationsInvariant, NEW r \in numbering, rollback(r)
    PROVE  QuotationsInvariant'
<1> USE DEF QuotationsInvariant, rollback, quotes
<1>1. TypeOK'
  BY DEF TypeOK, draft, expiry, identity
<1>2. NumbersInHand' /\ SerialsComplete'
  BY DEF NumbersInHand, SerialsComplete, Registered
<1>3. SubmittedWasPrepared' /\ IssuedWasApproved' /\ OrderedWasSent'
  BY DEF SubmittedWasPrepared, IssuedWasApproved, OrderedWasSent
<1>4. ExpiryRecordedOnce'
  BY DEF ExpiryRecordedOnce, Issued, Expired, expiry
<1> QED
  BY <1>1, <1>2, <1>3, <1>4

-----------------------------------------------------------------------------
\* The inductive invariant holds throughout: every step of the procurement and
\* ledger services on quotations keeps it.
THEOREM QuotationsInvariance == Spec => []QuotationsInvariant
<1>1. QuotationsInvariant /\ [Next]_vars => QuotationsInvariant'
  <2> SUFFICES ASSUME QuotationsInvariant, [Next]_vars PROVE QuotationsInvariant'
    OBVIOUS
  <2>1. CASE Tick
    BY <2>1, TickKeeps
  <2>2. CASE \E c \in Clerks : load(c) \/ edit_request(c) \/ submit_request(c)
    BY <2>2, DraftKeeps
  <2>3. CASE \E q \in 1 .. MaxQuotations, expires \in 1 .. Never, document \in BOOLEAN :
                 create_quote(q, expires, document)
    BY <2>3, CreateKeeps
  <2>4. CASE \E n \in DOMAIN revisions :
                 request_approval(n) \/ \E approved \in BOOLEAN : decide_quotation(n, approved)
    BY <2>4, ApprovalKeeps
  <2>5. CASE \E n \in DOMAIN revisions : prepare(n)
    BY <2>5, PrepareKeeps
  <2>6. CASE \E n \in DOMAIN revisions : \E at \in 0 .. now : issue_quote(n, at)
    BY <2>6, IssueKeeps
  <2>7. CASE \E n \in DOMAIN revisions : \E at \in 0 .. now : create_po(n, at)
    BY <2>7, OrderKeeps
  <2>8. CASE \E c \in Commands : scan(c) \/ crash(c)
    BY <2>8, CommandKeeps
  <2>9. CASE \E c \in Commands : \E n \in due[c] : expire_revision(c, n)
    BY <2>9, ExpireKeeps
  <2>10. CASE \E p \in Parties, code \in Codes : check_code(p, code) \/ set_client_code(p, code)
    BY <2>10, CodesKeep
  <2>11. CASE \E f \in Financials : register_financial(f)
    BY <2>11, RegisterKeeps
  <2>12. CASE \E r \in numbering : commit(r) \/ rollback(r)
    BY <2>12, CommitKeeps, RollbackKeeps
  <2>13. CASE UNCHANGED vars
    <3>1. TypeOK' /\ now' >= now
      BY <2>13 DEF vars, draft, quotes, expiry, identity, register, QuotationsInvariant,
         TypeOK, Times
    <3> QED
      BY <2>13, <3>1, KeptQuotes DEF vars, QuotesKept, expiry
  <2> QED
    BY <2>1, <2>2, <2>3, <2>4, <2>5, <2>6, <2>7, <2>8, <2>9, <2>10, <2>11, <2>12, <2>13
       DEF Next
<1> QED
  BY <1>1, QuotationsStart, PTL DEF Spec

\* The serials of the year are 1 .. last_serial and no document has two, however
\* quotations and financial documents contend for the sequence and roll back.
THEOREM SerialsAreComplete == Spec => []SerialsComplete
  BY QuotationsInvariance, PTL DEF QuotationsInvariant

\* What a client ordered had been approved, numbered and sent before the order
\* was received, and had not expired: create_po asks issue_quote, which asks the ledger.
THEOREM OrdersWereSent == Spec => []OrderedWasSent
  BY QuotationsInvariance, PTL DEF QuotationsInvariant

\* Overlapping and dying runs of the expiry command record an expiry once, of a
\* revision that was sent and has expired.
THEOREM ExpiriesAreRecordedOnce == Spec => []ExpiryRecordedOnce
  BY QuotationsInvariance, PTL DEF QuotationsInvariant

=============================================================================
