----------------------------- MODULE MCSettlement -----------------------------
(***************************************************************************)
(* Small ledgers for Settlement: one invoice of net 2 and tax 1, another   *)
(* without tax, and records of the size that overlaps with them.           *)
(***************************************************************************)
EXTENDS Settlement

CONSTANTS i1, i2, r1, r2, w1, c1, p1

Item(net, tax, policy) == [net |-> net, tax |-> tax, quantity |-> 1, policy |-> policy]

\* What each record says in the runs that do not look at the split of tax.
MCContent ==
    [r \in FinancialRecords |->
        CASE r = i1 -> [lines |-> <<Item(2, 1, "CLIENT_REMITTANCE")>>]
          [] r = i2 -> [lines |-> <<Item(2, 0, "CLIENT_REMITTANCE")>>]
          [] r \in {r1, r2} -> [amount |-> 2]
          [] r = w1 -> [invoice |-> i1, line |-> 1, amount |-> 1, treatment |-> "VAT", base |-> 0]
          [] r = c1 -> [invoice |-> i1, rows |->
                            <<[line |-> 1, quantity |-> 1, net |-> 2, tax |-> 1]>>]
          [] r = p1 -> [amount |-> 1]]

\* An invoice of two lines, its taxes 1 and 2, paid by a receipt of the whole.
TwoLines ==
    [r \in FinancialRecords |->
        IF r = i1 THEN [lines |-> <<Item(1, 1, "CLIENT_REMITTANCE"),
                                    Item(1, 2, "CLIENT_REMITTANCE")>>]
        ELSE [amount |-> 5]]
=============================================================================
