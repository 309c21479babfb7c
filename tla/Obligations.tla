------------------------------ MODULE Obligations ------------------------------
(***************************************************************************)
(* What the company owes and has advanced: supplier bills and expenses,    *)
(* staff advances, tax to remit, and the payments, refunds, returns and    *)
(* clearances against them (ledger/services/records.py,                    *)
(* business_posting.py, reversals.py and tax.py).                          *)
(*                                                                         *)
(* Posting and reversing hold the book of the currency from their checks   *)
(* to COMMIT, so each is one step; a draft checks its target without it,   *)
(* long before it is posted.  The approval of a draft is in RecordApproval *)
(* and the money of clients in Settlement.                                 *)
(***************************************************************************)
EXTENDS Integers, FiniteSets, Functions

CONSTANTS
    Records,  \* FinancialRecord rows of one currency
    KindOf,   \* BILL, EXPENSE, ADVANCE or REMITTANCE; PAYMENT, REFUND, RETURN or CLEARANCE
    AmountOf, \* in minor units
    TargetOf, \* the record a payment, refund, return or clearance is for
    CostOf,   \* the procurement cost a bill, expense or clearance names
    Plans,    \* the sets of records a behaviour may use
    MaxTax,   \* bound on the tax collected from clients
    NoCost

Obligation == {"BILL", "EXPENSE", "ADVANCE", "REMITTANCE"}
Against == {"PAYMENT", "REFUND", "RETURN", "CLEARANCE"}

ASSUME ObligationsAssumption ==
    /\ IsFiniteSet(Records) /\ Plans \subseteq SUBSET Records
    /\ KindOf \in [Records -> Obligation \cup Against]
    /\ AmountOf \in [Records -> Nat \ {0}]
    /\ \A r \in Records : KindOf[r] \in Against =>
           /\ TargetOf[r] \in Records
           /\ KindOf[TargetOf[r]] \in (CASE KindOf[r] = "PAYMENT" -> Obligation
                                         [] KindOf[r] = "REFUND" -> {"BILL"}
                                         [] OTHER -> {"ADVANCE"})
    /\ MaxTax \in Nat

VARIABLES
    record,     \* status of each record
    book,       \* balances of the control accounts
    collected,  \* tax collected from clients and not released (tax.collections)
    planned     \* the records of this behaviour

obligationVars == <<record, book, collected, planned>>

Accounts == {"PAYABLE", "ADVANCE", "TAX"}
Posted(r) == record[r] = "POSTED"
OfKind(k) == {r \in planned : KindOf[r] = k}

Balances == [Accounts -> Int]

ObligationsTypeOK ==
    /\ record \in [Records -> {"NONE", "APPROVED", "POSTED", "REVERSED"}]
    /\ book \in Balances
    /\ collected \in 0 .. MaxTax
    /\ planned \subseteq Records

\* The posted records of kind k for target t, and the sum of their amounts.
PostedFor(k, t) == {r \in OfKind(k) : Posted(r) /\ TargetOf[r] = t}
total(k, t) == SumFunctionOnSet(AmountOf, PostedFor(k, t))

spent(t) == total("PAYMENT", t)
refunded(t) == total("REFUND", t)

advance_outstanding(t) == spent(t) - total("CLEARANCE", t) - total("RETURN", t)

remitted == SumFunctionOnSet([t \in planned |-> spent(t)], OfKind("REMITTANCE"))
remittable == collected - remitted

-----------------------------------------------------------------------------

\* What posting r adds to the control accounts: a payment pays off what was owed
\* or makes the advance, a refund is owed again.
Effect(r) ==
    LET kind == IF KindOf[r] = "PAYMENT" THEN KindOf[TargetOf[r]] ELSE KindOf[r]
        pays == KindOf[r] = "PAYMENT"
    IN  [x \in Accounts |->
            CASE x = "PAYABLE" /\ kind \in {"BILL", "EXPENSE"} ->
                     IF pays THEN -AmountOf[r] ELSE AmountOf[r]
              [] x = "PAYABLE" /\ kind = "REFUND" -> AmountOf[r]
              [] x = "ADVANCE" /\ kind = "ADVANCE" /\ pays -> AmountOf[r]
              [] x = "ADVANCE" /\ kind \in {"RETURN", "CLEARANCE"} -> -AmountOf[r]
              [] x = "TAX" /\ kind = "REMITTANCE" /\ pays -> -AmountOf[r]
              [] OTHER -> 0]

journal(r, sign) == book' = [x \in Accounts |-> book[x] + sign * Effect(r)[x]]

\* A draft, taken as approved: its target must be posted now.
create(r) ==
    /\ r \in planned /\ record[r] = "NONE"
    /\ KindOf[r] \in Against => Posted(TargetOf[r])
    /\ record' = [record EXCEPT ![r] = "APPROVED"]
    /\ UNCHANGED <<book, collected, planned>>

\* No other posted record has the procurement cost.
CostUnused(r) ==
    \A s \in Records \ {r} : Posted(s) => CostOf[r] = NoCost \/ CostOf[s] # CostOf[r]

PaymentAllowed(r) ==
    LET t == TargetOf[r] IN
    /\ Posted(t)
    /\ AmountOf[r] <= AmountOf[t] - spent(t)
    /\ KindOf[t] = "REMITTANCE" => AmountOf[r] <= remittable

PostingAllowed(r) ==
    CASE KindOf[r] \in {"BILL", "EXPENSE"} -> CostUnused(r)
      [] KindOf[r] = "CLEARANCE" ->
             CostUnused(r) /\ AmountOf[r] <= advance_outstanding(TargetOf[r])
      [] KindOf[r] = "RETURN" -> AmountOf[r] <= advance_outstanding(TargetOf[r])
      [] KindOf[r] = "REFUND" -> AmountOf[r] <= spent(TargetOf[r]) - refunded(TargetOf[r])
      [] KindOf[r] = "PAYMENT" -> PaymentAllowed(r)
      [] OTHER -> TRUE

post(r) ==
    /\ record[r] = "APPROVED"
    /\ PostingAllowed(r)
    /\ record' = [record EXCEPT ![r] = "POSTED"]
    /\ journal(r, 1)
    /\ UNCHANGED <<collected, planned>>

\* A mutation of ReversalAllowed: only what depends on an obligation is looked for.
ObligationFree(r) ==
    KindOf[r] \in {"BILL", "EXPENSE"} =>
        \A s \in OfKind("PAYMENT") \cup OfKind("REFUND") : Posted(s) => TargetOf[s] # r

\* Advances and remittances are authorizations and are not reversed.
ReversalAllowed(r) ==
    LET Dependent(kinds, t) ==
            {s \in planned : KindOf[s] \in kinds /\ Posted(s) /\ TargetOf[s] = t}
    IN  /\ KindOf[r] \notin {"ADVANCE", "REMITTANCE"}
        /\ KindOf[r] \in {"BILL", "EXPENSE"} => Dependent({"PAYMENT", "REFUND"}, r) = {}
        /\ KindOf[r] = "PAYMENT" /\ KindOf[TargetOf[r]] = "ADVANCE" =>
               Dependent({"RETURN", "CLEARANCE"}, TargetOf[r]) = {}
        /\ KindOf[r] = "PAYMENT" /\ KindOf[TargetOf[r]] = "BILL" =>
               Dependent({"REFUND"}, TargetOf[r]) = {}

reverse_record(r) ==
    /\ Posted(r)
    /\ ReversalAllowed(r)
    /\ record' = [record EXCEPT ![r] = "REVERSED"]
    /\ journal(r, -1)
    /\ UNCHANGED <<collected, planned>>

\* Allocations of receipts collect tax, and releasing them takes it back,
\* remitted or not.
collect ==
    /\ \E n \in 0..MaxTax : n # collected /\ collected' = n
    /\ UNCHANGED <<record, book, planned>>

-----------------------------------------------------------------------------

ObligationsInit ==
    /\ planned \in Plans
    /\ record = [r \in Records |-> "NONE"]
    /\ book = [x \in Accounts |-> 0]
    /\ collected = 0

ObligationsNext ==
    \/ \E r \in Records : create(r) \/ post(r) \/ reverse_record(r)
    \/ collect

ObligationsSpec == ObligationsInit /\ [][ObligationsNext]_obligationVars

-----------------------------------------------------------------------------
(* Properties.                                                             *)

\* What is still owed of a bill or an expense.
Owed(t) == IF Posted(t) THEN AmountOf[t] - spent(t) + refunded(t) ELSE 0

\* The control accounts agree with the documents behind them: what is booked as
\* payable is what posted bills and expenses still owe and suppliers refunded,
\* what is booked as advanced is what the custodians have not accounted for, and
\* no single bill, expense, advance or remittance is paid, refunded or accounted
\* for beyond its amount, in whatever order its records are posted and reversed.
AccountedFor ==
    /\ book["PAYABLE"] = SumFunctionOnSet([t \in planned |-> Owed(t)],
                                          OfKind("BILL") \cup OfKind("EXPENSE"))
    /\ book["ADVANCE"] = SumFunctionOnSet([t \in planned |-> advance_outstanding(t)],
                                          OfKind("ADVANCE"))
    /\ book["TAX"] = -remitted
    /\ \A t \in planned : KindOf[t] \in Obligation =>
           /\ 0 <= refunded(t) /\ refunded(t) <= spent(t)
           /\ spent(t) <= (IF Posted(t) THEN AmountOf[t] ELSE 0)
    /\ \A t \in OfKind("ADVANCE") : advance_outstanding(t) \in 0..AmountOf[t]

\* Why: what has been drafted belongs to the records of the behaviour, and so
\* does what it is for.
DraftsBelong ==
    \A r \in Records : record[r] # "NONE" =>
        /\ r \in planned
        /\ KindOf[r] \in Against => TargetOf[r] \in planned

ObligationsInvariant == ObligationsTypeOK /\ DraftsBelong /\ AccountedFor

=============================================================================
