------------------------------ MODULE LedgerProofs ------------------------------
(***************************************************************************)
(* Proofs about four components of the ledger that share no state.         *)
(*                                                                         *)
(* Obligations: for any number of bills, expenses, advances, remittances   *)
(* and records against them, the control accounts agree with the documents *)
(* and no obligation is paid, refunded or accounted for beyond its amount. *)
(*                                                                         *)
(* Deductions: for any number of authorizations, deductions, days and      *)
(* requests, a posted deduction is covered by the authorization it names   *)
(* and by no other.                                                        *)
(*                                                                         *)
(* Operations: for any number of keys, requests, pages and clients, a      *)
(* service runs once for a key and every answer is its result, and a       *)
(* document that can be reused has all its files.                          *)
(*                                                                         *)
(* Settlement: for any number of invoices, receipts, withholdings, credit  *)
(* notes and refunds with any contents, any dates and any bound on the     *)
(* events, the allocations and refunds never use the same money twice, a   *)
(* reversed source settles nothing, the balance of the client is what the  *)
(* invoices are due less what the sources hold, and what is dated in       *)
(* closed periods stays as it is.  SettlementInvariant is inductive; its   *)
(* parts are stated once more as functions of the sequence of allocations  *)
(* (ActiveIn, CapacityIn, AppliedIn, ...), so that the facts about         *)
(* appending an application or its releases are proved for any sequence    *)
(* and used for each operation.                                            *)
(***************************************************************************)
EXTENDS Obligations, Deductions, Operations, Settlement, Sums, TLAPS

-----------------------------------------------------------------------------
(* Obligations.                                                            *)

\* What the constants of Obligations are.
LEMMA ObligationsConstants ==
    /\ IsFiniteSet(Records) /\ KindOf \in [Records -> Obligation \cup Against]
    /\ Plans \subseteq SUBSET Records
    /\ AmountOf \in [Records -> Nat \ {0}] /\ MaxTax \in Nat
    /\ \A r \in Records : KindOf[r] \in Against => TargetOf[r] \in Records
    /\ \A r \in Records : KindOf[r] = "PAYMENT" => KindOf[TargetOf[r]] \in Obligation
    /\ \A r \in Records : KindOf[r] = "REFUND" => KindOf[TargetOf[r]] = "BILL"
    /\ \A r \in Records : KindOf[r] \in {"RETURN", "CLEARANCE"} => KindOf[TargetOf[r]] = "ADVANCE"
<1>1. ASSUME NEW r \in Records, KindOf[r] = "PAYMENT" PROVE KindOf[TargetOf[r]] \in Obligation
  BY <1>1, ObligationsAssumption DEF ObligationsAssumption, Against
<1>2. ASSUME NEW r \in Records, KindOf[r] = "REFUND" PROVE KindOf[TargetOf[r]] = "BILL"
  BY <1>2, ObligationsAssumption DEF ObligationsAssumption, Against
<1>3. ASSUME NEW r \in Records, KindOf[r] \in {"RETURN", "CLEARANCE"}
      PROVE  KindOf[TargetOf[r]] = "ADVANCE"
  BY <1>3, ObligationsAssumption DEF ObligationsAssumption, Against
<1> QED
  BY <1>1, <1>2, <1>3, ObligationsAssumption DEF ObligationsAssumption

\* The posted records of a kind are known and their amounts are positive.
LEMMA PostedNat ==
    ASSUME ObligationsTypeOK, NEW k, NEW t
    PROVE  /\ PostedFor(k, t) \in SUBSET Records /\ IsFiniteSet(PostedFor(k, t))
           /\ \A r \in PostedFor(k, t) : AmountOf[r] \in Nat \ {0}
           /\ total(k, t) \in Nat
<1>1. PostedFor(k, t) \in SUBSET Records
  BY DEF PostedFor, OfKind, ObligationsTypeOK
<1>2. IsFiniteSet(PostedFor(k, t)) /\ \A r \in PostedFor(k, t) : AmountOf[r] \in Nat \ {0}
  BY <1>1, ObligationsConstants, FS_Subset
<1> QED
  BY <1>1, <1>2, SumNat DEF total

\* A total of no records is zero.
LEMMA TotalOfNone ==
    ASSUME NEW k, NEW t, PostedFor(k, t) = {}
    PROVE  total(k, t) = 0
BY SumOfNone DEF total

\* A posted record is part of what is posted for its target.
LEMMA PartOfTotal ==
    ASSUME ObligationsTypeOK, NEW r \in planned, Posted(r)
    PROVE  AmountOf[r] \in Nat \ {0} /\ AmountOf[r] <= total(KindOf[r], TargetOf[r])
<1> DEFINE S == PostedFor(KindOf[r], TargetOf[r])
<1>0. r \in S
  BY DEF PostedFor, OfKind
<1>1. IsFiniteSet(S) /\ r \in S /\ \A s \in S : AmountOf[s] \in Nat \ {0}
  BY <1>0, PostedNat
<1>2. IsFiniteSet(S \ {r}) /\ \A s \in S \ {r} : AmountOf[s] \in Nat
  BY <1>1, FS_Subset
<1> HIDE DEF S
<1>3. SumFunctionOnSet(AmountOf, S \ {r}) \in Nat
  BY <1>2, SumNat
<1>4. SumFunctionOnSet(AmountOf, S) = AmountOf[r] + SumFunctionOnSet(AmountOf, S \ {r})
  BY <1>1, SumRemove
<1>5. AmountOf[r] <= SumFunctionOnSet(AmountOf, S)
  BY <1>1, <1>3, <1>4
<1> QED
  BY <1>1, <1>5 DEF S, total

\* What a record that is posted adds to the total of kind k for t, and one that
\* is reversed takes away.
Part(r, k, t) == IF KindOf[r] = k /\ TargetOf[r] = t THEN AmountOf[r] ELSE 0

LEMMA TotalPosted ==
    ASSUME ObligationsTypeOK, NEW r \in planned, ~Posted(r), planned' = planned,
           record' = [record EXCEPT ![r] = "POSTED"], NEW k, NEW t
    PROVE  total(k, t)' = total(k, t) + Part(r, k, t)
<1>1. r \in Records
  BY DEF ObligationsTypeOK
<1>2. \A s \in Records : Posted(s)' <=> Posted(s) \/ s = r
  BY DEF Posted, ObligationsTypeOK
<1>3. CASE KindOf[r] = k /\ TargetOf[r] = t
  <2> DEFINE S == PostedFor(k, t)
  <2>1. PostedFor(k, t)' = S \cup {r} /\ r \notin S
    BY <1>1, <1>2, <1>3 DEF PostedFor, OfKind, ObligationsTypeOK
  <2>2. IsFiniteSet(S) /\ (\A s \in S : AmountOf[s] \in Int) /\ AmountOf[r] \in Int
    BY <1>1, PostedNat, ObligationsConstants
  <2> HIDE DEF S
  <2>3. SumFunctionOnSet(AmountOf, S \cup {r}) = AmountOf[r] + SumFunctionOnSet(AmountOf, S)
    BY <2>1, <2>2, SumAdd
  <2>4. SumFunctionOnSet(AmountOf, S) \in Int
    BY <2>2, SumInt
  <2>5. total(k, t)' = AmountOf[r] + SumFunctionOnSet(AmountOf, S)
    BY <2>1, <2>3 DEF total
  <2>6. total(k, t) = SumFunctionOnSet(AmountOf, S)
    BY DEF total, S
  <2> QED
    BY <1>3, <2>2, <2>4, <2>5, <2>6 DEF Part
<1>4. CASE ~(KindOf[r] = k /\ TargetOf[r] = t)
  <2>1. PostedFor(k, t)' = PostedFor(k, t)
    BY <1>1, <1>2, <1>4 DEF PostedFor, OfKind, ObligationsTypeOK
  <2>2. total(k, t)' = total(k, t) /\ total(k, t) \in Nat
    BY <2>1, PostedNat DEF total
  <2> QED
    BY <1>4, <2>2 DEF Part
<1> QED
  BY <1>3, <1>4

\* The converse of TotalPosted.
LEMMA TotalReversed ==
    ASSUME ObligationsTypeOK, NEW r \in planned, Posted(r), planned' = planned,
           record' = [record EXCEPT ![r] = "REVERSED"], NEW k, NEW t
    PROVE  total(k, t)' = total(k, t) - Part(r, k, t)
<1>1. r \in Records
  BY DEF ObligationsTypeOK
<1>2. \A s \in Records : Posted(s)' <=> Posted(s) /\ s # r
  BY DEF Posted, ObligationsTypeOK
<1>3. CASE KindOf[r] = k /\ TargetOf[r] = t
  <2> DEFINE S == PostedFor(k, t)
  <2>1. PostedFor(k, t)' = S \ {r} /\ r \in S
    BY <1>1, <1>2, <1>3 DEF PostedFor, OfKind, ObligationsTypeOK
  <2>2. IsFiniteSet(S) /\ (\A s \in S : AmountOf[s] \in Int) /\ AmountOf[r] \in Int
        /\ IsFiniteSet(S \ {r})
    BY <1>1, PostedNat, ObligationsConstants, FS_Subset
  <2> HIDE DEF S
  <2>3. SumFunctionOnSet(AmountOf, S) = AmountOf[r] + SumFunctionOnSet(AmountOf, S \ {r})
    BY <2>1, <2>2, SumRemove
  <2>4. SumFunctionOnSet(AmountOf, S \ {r}) \in Int
    BY <2>2, SumInt
  <2>5. total(k, t)' = SumFunctionOnSet(AmountOf, S \ {r})
    BY <2>1 DEF total
  <2>6. total(k, t) = SumFunctionOnSet(AmountOf, S)
    BY DEF total, S
  <2> QED
    BY <1>3, <2>2, <2>3, <2>4, <2>5, <2>6 DEF Part
<1>4. CASE ~(KindOf[r] = k /\ TargetOf[r] = t)
  <2>1. PostedFor(k, t)' = PostedFor(k, t)
    BY <1>1, <1>2, <1>4 DEF PostedFor, OfKind, ObligationsTypeOK
  <2>2. total(k, t)' = total(k, t) /\ total(k, t) \in Nat
    BY <2>1, PostedNat DEF total
  <2> QED
    BY <1>4, <2>2 DEF Part
<1> QED
  BY <1>3, <1>4

\* A sum moves with the one of its values that changes.
LEMMA SumMoves ==
    ASSUME NEW f, NEW g, NEW S, IsFiniteSet(S), NEW y, NEW d \in Int,
           \A x \in S : f[x] \in Int /\ g[x] = f[x] + (IF x = y THEN d ELSE 0),
           y \notin S => d = 0
    PROVE  SumFunctionOnSet(g, S) = SumFunctionOnSet(f, S) + d
<1>0. SumFunctionOnSet(f, S) \in Int
  BY SumInt
<1>1. CASE y \in S
  <2>1. g[y] - f[y] = d /\ \A x \in S : g[x] \in Int
    BY <1>1
  <2>2. \A x \in S \ {y} : g[x] = f[x]
    OBVIOUS
  <2>3. SumFunctionOnSet(g, S) = SumFunctionOnSet(f, S) + (g[y] - f[y])
    BY <1>1, <2>1, <2>2, SumChange
  <2> QED
    BY <2>1, <2>3
<1>2. CASE y \notin S
  <2>1. \A x \in S : g[x] = f[x]
    BY <1>2
  <2> QED
    BY <1>0, <1>2, <2>1, SumSame
<1> QED
  BY <1>1, <1>2

\* The obligations behind each account.
Bills == OfKind("BILL") \cup OfKind("EXPENSE")
Advances == OfKind("ADVANCE")
Taxes == OfKind("REMITTANCE")

\* The bounds of one obligation.
Bounded(t) ==
    /\ 0 <= refunded(t) /\ refunded(t) <= spent(t)
    /\ spent(t) <= (IF Posted(t) THEN AmountOf[t] ELSE 0)
    /\ KindOf[t] = "ADVANCE" => advance_outstanding(t) \in 0 .. AmountOf[t]

\* The figures of an obligation are whole numbers.
LEMMA Figures ==
    ASSUME ObligationsTypeOK, NEW t \in Records
    PROVE  /\ spent(t) \in Nat /\ refunded(t) \in Nat /\ advance_outstanding(t) \in Int
           /\ Owed(t) \in Int /\ AmountOf[t] \in Nat \ {0}
           /\ total("RETURN", t) \in Nat /\ total("CLEARANCE", t) \in Nat
<1>1. /\ total("PAYMENT", t) \in Nat /\ total("REFUND", t) \in Nat
      /\ total("CLEARANCE", t) \in Nat /\ total("RETURN", t) \in Nat
  BY PostedNat
<1>2. AmountOf[t] \in Nat \ {0}
  BY ObligationsConstants
<1> QED
  BY <1>1, <1>2 DEF spent, refunded, advance_outstanding, Owed

\* The accounts follow a step that changes the figures of one obligation, y.
LEMMA BookFollows ==
    ASSUME ObligationsTypeOK, AccountedFor, planned' = planned,
           NEW y, NEW owes \in Int, NEW holds \in Int, NEW remits \in Int,
           book'["PAYABLE"] = book["PAYABLE"] + owes, y \notin Bills => owes = 0,
           book'["ADVANCE"] = book["ADVANCE"] + holds, y \notin Advances => holds = 0,
           book'["TAX"] = book["TAX"] - remits, y \notin Taxes => remits = 0,
           \A t \in Bills : Owed(t)' = Owed(t) + (IF t = y THEN owes ELSE 0),
           \A t \in Advances : advance_outstanding(t)'
                                  = advance_outstanding(t) + (IF t = y THEN holds ELSE 0),
           \A t \in Taxes : spent(t)' = spent(t) + (IF t = y THEN remits ELSE 0),
           \A t \in planned : KindOf[t] \in Obligation => Bounded(t)'
    PROVE  AccountedFor'
<1>1. /\ Bills \in SUBSET planned /\ Advances \in SUBSET planned /\ Taxes \in SUBSET planned
      /\ Bills' = Bills /\ Advances' = Advances /\ Taxes' = Taxes
      /\ IsFiniteSet(Bills) /\ IsFiniteSet(Advances) /\ IsFiniteSet(Taxes)
      /\ \A t \in planned : Owed(t) \in Int /\ advance_outstanding(t) \in Int /\ spent(t) \in Int
  <2>1. /\ Bills \in SUBSET planned /\ Advances \in SUBSET planned /\ Taxes \in SUBSET planned
        /\ Bills' = Bills /\ Advances' = Advances /\ Taxes' = Taxes
    BY DEF Bills, Advances, Taxes, OfKind
  <2>2. planned \subseteq Records /\ IsFiniteSet(planned)
    BY ObligationsConstants, FS_Subset DEF ObligationsTypeOK
  <2>3. IsFiniteSet(Bills) /\ IsFiniteSet(Advances) /\ IsFiniteSet(Taxes)
    BY <2>1, <2>2, FS_Subset
  <2> QED
    BY <2>1, <2>2, <2>3, Figures
<1>2. SumFunctionOnSet([t \in planned |-> Owed(t)'], Bills)
         = SumFunctionOnSet([t \in planned |-> Owed(t)], Bills) + owes
  <2> DEFINE f == [t \in planned |-> Owed(t)]
             g == [t \in planned |-> Owed(t)']
  <2>1. \A t \in Bills : f[t] \in Int /\ g[t] = f[t] + (IF t = y THEN owes ELSE 0)
    BY <1>1
  <2> HIDE DEF f, g
  <2>2. IsFiniteSet(Bills) /\ owes \in Int /\ (y \notin Bills => owes = 0)
    BY <1>1
  <2>3. SumFunctionOnSet(g, Bills) = SumFunctionOnSet(f, Bills) + owes
    BY <2>1, <2>2, SumMoves, SMTT(60)
  <2> QED
    BY <2>3 DEF f, g
<1>3. SumFunctionOnSet([t \in planned |-> advance_outstanding(t)'], Advances)
         = SumFunctionOnSet([t \in planned |-> advance_outstanding(t)], Advances) + holds
  <2> DEFINE f == [t \in planned |-> advance_outstanding(t)]
             g == [t \in planned |-> advance_outstanding(t)']
  <2>1. \A t \in Advances : f[t] \in Int /\ g[t] = f[t] + (IF t = y THEN holds ELSE 0)
    BY <1>1
  <2> HIDE DEF f, g
  <2>2. IsFiniteSet(Advances) /\ holds \in Int /\ (y \notin Advances => holds = 0)
    BY <1>1
  <2>3. SumFunctionOnSet(g, Advances) = SumFunctionOnSet(f, Advances) + holds
    BY <2>1, <2>2, SumMoves, SMTT(60)
  <2> QED
    BY <2>3 DEF f, g
<1>4. SumFunctionOnSet([t \in planned |-> spent(t)'], Taxes)
         = SumFunctionOnSet([t \in planned |-> spent(t)], Taxes) + remits
  <2> DEFINE f == [t \in planned |-> spent(t)]
             g == [t \in planned |-> spent(t)']
  <2>1. \A t \in Taxes : f[t] \in Int /\ g[t] = f[t] + (IF t = y THEN remits ELSE 0)
    BY <1>1
  <2> HIDE DEF f, g
  <2>2. IsFiniteSet(Taxes) /\ remits \in Int /\ (y \notin Taxes => remits = 0)
    BY <1>1
  <2>3. SumFunctionOnSet(g, Taxes) = SumFunctionOnSet(f, Taxes) + remits
    BY <2>1, <2>2, SumMoves, SMTT(60)
  <2> QED
    BY <2>3 DEF f, g
<1>5. /\ book["PAYABLE"] = SumFunctionOnSet([t \in planned |-> Owed(t)], Bills)
      /\ book["ADVANCE"] = SumFunctionOnSet([t \in planned |-> advance_outstanding(t)], Advances)
      /\ book["TAX"] = -SumFunctionOnSet([t \in planned |-> spent(t)], Taxes)
  BY DEF AccountedFor, Bills, Advances, Taxes, remitted
<1>6. SumFunctionOnSet([t \in planned |-> spent(t)], Taxes) \in Int
  <2> DEFINE f == [t \in planned |-> spent(t)]
  <2>1. \A t \in Taxes : f[t] \in Int
    BY <1>1
  <2> HIDE DEF f
  <2>2. SumFunctionOnSet(f, Taxes) \in Int
    BY <1>1, <2>1, SumInt
  <2> QED
    BY <2>2 DEF f
<1>7. /\ book'["PAYABLE"] = SumFunctionOnSet([t \in planned |-> Owed(t)'], Bills)
      /\ book'["ADVANCE"] = SumFunctionOnSet([t \in planned |-> advance_outstanding(t)'], Advances)
      /\ book'["TAX"] = -SumFunctionOnSet([t \in planned |-> spent(t)'], Taxes)
  BY <1>2, <1>3, <1>4, <1>5, <1>6
<1>8. /\ book["PAYABLE"]' = SumFunctionOnSet([t \in planned |-> Owed(t)], Bills)'
      /\ book["ADVANCE"]' = SumFunctionOnSet([t \in planned |-> advance_outstanding(t)], Advances)'
      /\ book["TAX"]' = -SumFunctionOnSet([t \in planned |-> spent(t)], Taxes)'
  BY <1>1, <1>7
<1>9. \A t \in planned : KindOf[t] \in Obligation => Bounded(t)'
  OBVIOUS
<1>10. \A t \in planned' : KindOf[t] \in Obligation =>
           /\ 0 <= refunded(t)' /\ refunded(t)' <= spent(t)'
           /\ spent(t)' <= (IF Posted(t)' THEN AmountOf[t] ELSE 0)
  BY <1>9 DEF Bounded
<1>11. \A t \in Advances : advance_outstanding(t)' \in 0 .. AmountOf[t]
  BY <1>9 DEF Bounded, Advances, OfKind, Obligation
<1> QED
  BY <1>1, <1>8, <1>10, <1>11 DEF AccountedFor, Bills, Advances, Taxes, remitted


\* What d more of record r does to the three accounts.
ToPayable(r, d) ==
    CASE KindOf[r] = "PAYMENT" /\ KindOf[TargetOf[r]] \in {"BILL", "EXPENSE"} -> -d
      [] KindOf[r] = "REFUND" -> d
      [] OTHER -> 0
ToAdvance(r, d) ==
    CASE KindOf[r] = "PAYMENT" /\ KindOf[TargetOf[r]] = "ADVANCE" -> d
      [] KindOf[r] \in {"RETURN", "CLEARANCE"} -> -d
      [] OTHER -> 0
ToTax(r, d) ==
    IF KindOf[r] = "PAYMENT" /\ KindOf[TargetOf[r]] = "REMITTANCE" THEN d ELSE 0

\* A payment, refund, return or clearance moves the figures of its target only.
LEMMA AgainstMoves ==
    ASSUME ObligationsTypeOK, AccountedFor, planned' = planned,
           NEW r \in planned, KindOf[r] \in Against, TargetOf[r] \in planned,
           NEW d \in Int,
           \A k, t : total(k, t)' = total(k, t)
                        + (IF KindOf[r] = k /\ TargetOf[r] = t THEN d ELSE 0),
           \A t \in planned : KindOf[t] \in Obligation => (Posted(t)' <=> Posted(t)),
           book'["PAYABLE"] = book["PAYABLE"] + ToPayable(r, d),
           book'["ADVANCE"] = book["ADVANCE"] + ToAdvance(r, d),
           book'["TAX"] = book["TAX"] - ToTax(r, d),
           Posted(TargetOf[r]), Bounded(TargetOf[r])'
    PROVE  AccountedFor'
<1> DEFINE y == TargetOf[r]
<1>0. planned \subseteq Records /\ r \in Records
  BY DEF ObligationsTypeOK
<1>1. /\ KindOf[r] \in {"PAYMENT", "REFUND", "RETURN", "CLEARANCE"}
      /\ KindOf[y] \in Obligation
      /\ KindOf[r] = "REFUND" => KindOf[y] = "BILL"
      /\ KindOf[r] \in {"RETURN", "CLEARANCE"} => KindOf[y] = "ADVANCE"
  BY <1>0, ObligationsConstants DEF Against, Obligation
<1>2. ASSUME NEW t \in planned
      PROVE  /\ total("PAYMENT", t) \in Nat /\ total("REFUND", t) \in Nat
             /\ total("CLEARANCE", t) \in Nat /\ total("RETURN", t) \in Nat
             /\ AmountOf[t] \in Int
  BY <1>0, PostedNat, ObligationsConstants
<1>3. ASSUME NEW t \in planned, t # y
      PROVE  /\ spent(t)' = spent(t) /\ refunded(t)' = refunded(t)
             /\ advance_outstanding(t)' = advance_outstanding(t)
  <2>1. \A k \in Against : total(k, t)' = total(k, t) + 0
    BY <1>3
  <2>2. \A k \in Against : total(k, t)' = total(k, t)
    BY <2>1, <1>2 DEF Against
  <2> QED
    BY <2>2 DEF Against, spent, refunded, advance_outstanding
<1>4. ASSUME NEW t \in planned, t # y, KindOf[t] \in Obligation
      PROVE  Owed(t)' = Owed(t) /\ Bounded(t)'
  <2>1. /\ spent(t)' = spent(t) /\ refunded(t)' = refunded(t) /\ (Posted(t)' <=> Posted(t))
        /\ advance_outstanding(t)' = advance_outstanding(t)
    BY <1>3, <1>4
  <2>2. Bounded(t)
    BY <1>4 DEF AccountedFor, Bounded, OfKind
  <2>3. Owed(t)' = Owed(t)
    BY <2>1 DEF Owed
  <2> QED
    BY <2>1, <2>2, <2>3 DEF Bounded
<1>5. /\ total("PAYMENT", y)' = total("PAYMENT", y) + (IF KindOf[r] = "PAYMENT" THEN d ELSE 0)
      /\ total("REFUND", y)' = total("REFUND", y) + (IF KindOf[r] = "REFUND" THEN d ELSE 0)
      /\ total("RETURN", y)' = total("RETURN", y) + (IF KindOf[r] = "RETURN" THEN d ELSE 0)
      /\ total("CLEARANCE", y)' = total("CLEARANCE", y) + (IF KindOf[r] = "CLEARANCE" THEN d ELSE 0)
  OBVIOUS
<1>6. KindOf[y] \in {"BILL", "EXPENSE"} => Owed(y)' = Owed(y) + ToPayable(r, d)
  <2> SUFFICES ASSUME KindOf[y] \in {"BILL", "EXPENSE"} PROVE Owed(y)' = Owed(y) + ToPayable(r, d)
    OBVIOUS
  <2>1. /\ Owed(y) = AmountOf[y] - total("PAYMENT", y) + total("REFUND", y)
        /\ Owed(y)' = AmountOf[y] - total("PAYMENT", y)' + total("REFUND", y)'
    BY <1>1 DEF Owed, spent, refunded
  <2>2. CASE KindOf[r] = "PAYMENT"
    <3>1. ToPayable(r, d) = -d
      BY <2>2 DEF ToPayable
    <3> QED
      BY <1>2, <1>5, <2>1, <2>2, <3>1
  <2>3. CASE KindOf[r] = "REFUND"
    <3>1. ToPayable(r, d) = d
      BY <2>3 DEF ToPayable
    <3> QED
      BY <1>2, <1>5, <2>1, <2>3, <3>1
  <2> QED
    BY <1>1, <2>2, <2>3
<1>7. KindOf[y] = "ADVANCE"
         => advance_outstanding(y)' = advance_outstanding(y) + ToAdvance(r, d)
  <2> SUFFICES ASSUME KindOf[y] = "ADVANCE"
               PROVE  advance_outstanding(y)' = advance_outstanding(y) + ToAdvance(r, d)
    OBVIOUS
  <2>1. /\ advance_outstanding(y) = total("PAYMENT", y) - total("CLEARANCE", y) - total("RETURN", y)
        /\ advance_outstanding(y)'
              = total("PAYMENT", y)' - total("CLEARANCE", y)' - total("RETURN", y)'
    BY DEF advance_outstanding, spent
  <2>2. CASE KindOf[r] = "PAYMENT"
    <3>1. ToAdvance(r, d) = d
      BY <2>2 DEF ToAdvance
    <3> QED
      BY <1>2, <1>5, <2>1, <2>2, <3>1
  <2>3. CASE KindOf[r] \in {"RETURN", "CLEARANCE"}
    <3>1. ToAdvance(r, d) = -d
      BY <2>3 DEF ToAdvance
    <3> QED
      BY <1>2, <1>5, <2>1, <2>3, <3>1
  <2> QED
    BY <1>1, <2>2, <2>3
<1>8. KindOf[y] = "REMITTANCE" => spent(y)' = spent(y) + ToTax(r, d)
  BY <1>1, <1>2, <1>5 DEF ToTax, spent
<1>9. /\ ToPayable(r, d) \in Int /\ ToAdvance(r, d) \in Int /\ ToTax(r, d) \in Int
      /\ KindOf[y] \notin {"BILL", "EXPENSE"} => ToPayable(r, d) = 0
      /\ KindOf[y] # "ADVANCE" => ToAdvance(r, d) = 0
      /\ KindOf[y] # "REMITTANCE" => ToTax(r, d) = 0
  <2>1. KindOf[r] = "PAYMENT" \/ KindOf[r] = "REFUND" \/ KindOf[r] \in {"RETURN", "CLEARANCE"}
    BY <1>1
  <2>2. CASE KindOf[r] = "PAYMENT"
    BY <2>2 DEF ToPayable, ToAdvance, ToTax
  <2>3. CASE KindOf[r] = "REFUND"
    BY <1>1, <2>3 DEF ToPayable, ToAdvance, ToTax
  <2>4. CASE KindOf[r] \in {"RETURN", "CLEARANCE"}
    BY <1>1, <2>4 DEF ToPayable, ToAdvance, ToTax
  <2> QED
    BY <2>1, <2>2, <2>3, <2>4
<1>10. /\ y \notin Bills => ToPayable(r, d) = 0
       /\ y \notin Advances => ToAdvance(r, d) = 0
       /\ y \notin Taxes => ToTax(r, d) = 0
  BY <1>9 DEF Bills, Advances, Taxes, OfKind
<1>11. \A t \in planned : KindOf[t] \in Obligation => Bounded(t)'
  BY <1>4
<1>12. \A t \in Bills : Owed(t)' = Owed(t) + (IF t = y THEN ToPayable(r, d) ELSE 0)
  <2> TAKE t \in Bills
  <2>1. /\ t \in planned /\ KindOf[t] \in {"BILL", "EXPENSE"} /\ KindOf[t] \in Obligation
        /\ Owed(t) \in Int
    BY <1>0, Figures DEF Bills, OfKind, Obligation
  <2> QED
    BY <1>4, <1>6, <2>1
<1>13. \A t \in Advances : advance_outstanding(t)'
                              = advance_outstanding(t) + (IF t = y THEN ToAdvance(r,
                              d) ELSE 0)
  <2> TAKE t \in Advances
  <2>1. t \in planned /\ KindOf[t] = "ADVANCE" /\ advance_outstanding(t) \in Int
    BY <1>0, Figures DEF Advances, OfKind
  <2> QED
    BY <1>3, <1>7, <2>1
<1>14. \A t \in Taxes : spent(t)' = spent(t) + (IF t = y THEN ToTax(r, d) ELSE 0)
  <2> TAKE t \in Taxes
  <2>1. t \in planned /\ KindOf[t] = "REMITTANCE" /\ spent(t) \in Int
    BY <1>0, Figures DEF Taxes, OfKind
  <2> QED
    BY <1>3, <1>8, <2>1
<1>15. /\ ObligationsTypeOK /\ AccountedFor /\ planned' = planned
       /\ book'["PAYABLE"] = book["PAYABLE"] + ToPayable(r, d)
       /\ book'["ADVANCE"] = book["ADVANCE"] + ToAdvance(r, d)
       /\ book'["TAX"] = book["TAX"] - ToTax(r, d)
  OBVIOUS
<1> DEFINE
  owes == ToPayable(r, d)
  holds == ToAdvance(r, d)
  remits == ToTax(r, d)
<1>16. /\ owes \in Int /\ holds \in Int /\ remits \in Int
       /\ book'["PAYABLE"] = book["PAYABLE"] + owes
       /\ book'["ADVANCE"] = book["ADVANCE"] + holds
       /\ book'["TAX"] = book["TAX"] - remits
       /\ y \notin Bills => owes = 0
       /\ y \notin Advances => holds = 0
       /\ y \notin Taxes => remits = 0
       /\ \A t \in Bills : Owed(t)' = Owed(t) + (IF t = y THEN owes ELSE 0)
       /\ \A t \in Advances : advance_outstanding(t)'
                                 = advance_outstanding(t) + (IF t = y THEN holds ELSE 0)
       /\ \A t \in Taxes : spent(t)' = spent(t) + (IF t = y THEN remits ELSE 0)
  BY ONLY <1>9, <1>10, <1>12, <1>13, <1>14, <1>15
<1> HIDE DEF y, owes, holds, remits
<1> QED
  BY ONLY <1>11, <1>15, <1>16, BookFollows

\* Posting or reversing a bill or an expense that nothing was paid for, or posting
\* an advance or a remittance.
LEMMA ObligationMoves ==
    ASSUME ObligationsTypeOK, AccountedFor, planned' = planned,
           NEW r \in planned, KindOf[r] \in Obligation,
           \A k \in Against : \A t : total(k, t)' = total(k, t),
           \A t \in planned \ {r} : Posted(t)' <=> Posted(t),
           Posted(r)' <=> ~Posted(r),
           ~Posted(r)' => spent(r) = 0,
           KindOf[r] \in {"ADVANCE", "REMITTANCE"} => Posted(r)',
           book'["PAYABLE"] = book["PAYABLE"]
               + (IF KindOf[r] \in {"BILL", "EXPENSE"}
                  THEN IF Posted(r)' THEN AmountOf[r] ELSE -AmountOf[r] ELSE 0),
           book'["ADVANCE"] = book["ADVANCE"], book'["TAX"] = book["TAX"]
    PROVE  AccountedFor'
<1> DEFINE owes == IF KindOf[r] \in {"BILL", "EXPENSE"}
                   THEN IF Posted(r)' THEN AmountOf[r] ELSE -AmountOf[r] ELSE 0
<1>0. planned \subseteq Records /\ r \in Records /\ AmountOf[r] \in Nat \ {0}
  BY ObligationsConstants DEF ObligationsTypeOK
<1>1. \A t : /\ spent(t)' = spent(t) /\ refunded(t)' = refunded(t)
             /\ advance_outstanding(t)' = advance_outstanding(t)
  BY DEF spent, refunded, advance_outstanding, Against
<1>2. \A t \in planned : KindOf[t] \in Obligation => Bounded(t)
  BY DEF AccountedFor, Bounded, OfKind
<1>3. /\ spent(r) = 0 /\ refunded(r) = 0
  BY <1>0, <1>2, Figures DEF Bounded
<1>4. \A t \in planned : KindOf[t] \in Obligation => Bounded(t)'
  <2> SUFFICES ASSUME NEW t \in planned, KindOf[t] \in Obligation PROVE Bounded(t)'
    OBVIOUS
  <2>1. CASE t # r
    BY <1>1, <1>2, <2>1 DEF Bounded
  <2>2. CASE t = r
    BY <1>0, <1>1, <1>2, <1>3, <2>2 DEF Bounded
  <2> QED
    BY <2>1, <2>2
<1>5. \A t \in Bills : Owed(t)' = Owed(t) + (IF t = r THEN owes ELSE 0)
  <2> TAKE t \in Bills
  <2>1. t \in planned /\ t \in Records /\ KindOf[t] \in {"BILL", "EXPENSE"}
    BY <1>0 DEF Bills, OfKind
  <2>2. CASE t # r
    <3>1. Owed(t)' = Owed(t) /\ Owed(t) \in Int
      BY <1>1, <2>1, <2>2, Figures DEF Owed
    <3> QED
      BY <2>2, <3>1
  <2>3. CASE t = r
    <3>1. CASE Posted(r)'
      BY <1>0, <1>1, <1>3, <2>1, <2>3, <3>1 DEF Owed
    <3>2. CASE ~Posted(r)'
      BY <1>0, <1>1, <1>3, <2>1, <2>3, <3>2 DEF Owed
    <3> QED
      BY <3>1, <3>2
  <2> QED
    BY <2>2, <2>3
<1>6. /\ \A t \in Advances : advance_outstanding(t)'
                                = advance_outstanding(t) + (IF t = r THEN 0 ELSE 0)
      /\ \A t \in Taxes : spent(t)' = spent(t) + (IF t = r THEN 0 ELSE 0)
  <2>1. /\ \A t \in Advances : advance_outstanding(t) \in Int
        /\ \A t \in Taxes : spent(t) \in Int
    BY <1>0, Figures DEF Advances, Taxes, OfKind
  <2> QED
    BY <1>1, <2>1
<1>7. owes \in Int /\ (r \notin Bills => owes = 0)
  BY <1>0 DEF Bills, OfKind
<1>8. /\ book'["PAYABLE"] = book["PAYABLE"] + owes
      /\ book'["ADVANCE"] = book["ADVANCE"] + 0 /\ book'["TAX"] = book["TAX"] - 0
  <2>1. book["ADVANCE"] \in Int /\ book["TAX"] \in Int
    BY DEF ObligationsTypeOK, Balances, Accounts
  <2> QED
    BY <2>1
<1> HIDE DEF owes
<1> QED
  BY <1>4, <1>5, <1>6, <1>7, <1>8, BookFollows


\* Where nothing is posted or reversed and the accounts are left alone, the
\* figures stand.
LEMMA NothingMoves ==
    ASSUME ObligationsTypeOK, AccountedFor, planned' = planned, book' = book,
           \A r \in Records : Posted(r)' <=> Posted(r)
    PROVE  AccountedFor'
<1>0. planned \subseteq Records
  BY DEF ObligationsTypeOK
<1>1. \A k, t : PostedFor(k, t)' = PostedFor(k, t)
  BY <1>0 DEF PostedFor, OfKind
<1>2. \A k, t : total(k, t)' = total(k, t)
  BY <1>1 DEF total
<1>3. \A t : /\ spent(t)' = spent(t) /\ refunded(t)' = refunded(t)
             /\ advance_outstanding(t)' = advance_outstanding(t)
  BY <1>2 DEF spent, refunded, advance_outstanding
<1>4. \A t \in planned : Owed(t)' = Owed(t)
  BY <1>0, <1>3 DEF Owed
<1>5. \A t \in planned : KindOf[t] \in Obligation => Bounded(t)'
  <2>1. \A t \in planned : KindOf[t] \in Obligation => Bounded(t)
    BY DEF AccountedFor, Bounded, OfKind
  <2> QED
    BY <1>0, <1>3, <2>1 DEF Bounded
<1>6. \A t \in planned : Owed(t) \in Int /\ advance_outstanding(t) \in Int /\ spent(t) \in Int
  BY <1>0, Figures
<1>7. /\ \A t \in Bills : Owed(t)' = Owed(t) + (IF t = {} THEN 0 ELSE 0)
      /\ \A t \in Advances : advance_outstanding(t)'
                                = advance_outstanding(t) + (IF t = {} THEN 0 ELSE 0)
      /\ \A t \in Taxes : spent(t)' = spent(t) + (IF t = {} THEN 0 ELSE 0)
  BY <1>3, <1>4, <1>6 DEF Bills, Advances, Taxes, OfKind
<1>8. /\ book'["PAYABLE"] = book["PAYABLE"] + 0 /\ book'["ADVANCE"] = book["ADVANCE"] + 0
      /\ book'["TAX"] = book["TAX"] - 0
  BY DEF ObligationsTypeOK, Balances, Accounts
<1> QED
  BY <1>5, <1>7, <1>8, BookFollows

\* The entry of each kind of record.
LEMMA EffectOf ==
    ASSUME NEW r \in Records
    PROVE  /\ Effect(r) \in Balances
           /\ KindOf[r] \in Against =>
                  /\ Effect(r)["PAYABLE"] = ToPayable(r, AmountOf[r])
                  /\ Effect(r)["ADVANCE"] = ToAdvance(r, AmountOf[r])
                  /\ Effect(r)["TAX"] = -ToTax(r, AmountOf[r])
           /\ KindOf[r] \in Obligation =>
                  /\ Effect(r)["PAYABLE"]
                        = (IF KindOf[r] \in {"BILL", "EXPENSE"} THEN AmountOf[r] ELSE 0)
                  /\ Effect(r)["ADVANCE"] = 0 /\ Effect(r)["TAX"] = 0
<1>1. AmountOf[r] \in Nat \ {0} /\ KindOf[r] \in Obligation \cup Against
  BY ObligationsConstants
<1>2. KindOf[r] = "PAYMENT" => KindOf[TargetOf[r]] \in Obligation
  BY ObligationsConstants
<1>3. Effect(r) \in Balances
  BY <1>1 DEF Effect, Balances, Accounts
<1>4. ASSUME KindOf[r] = "PAYMENT"
      PROVE  /\ Effect(r)["PAYABLE"] = ToPayable(r, AmountOf[r])
             /\ Effect(r)["ADVANCE"] = ToAdvance(r, AmountOf[r])
             /\ Effect(r)["TAX"] = -ToTax(r, AmountOf[r])
  BY <1>1, <1>2, <1>4 DEF Effect, Accounts, Obligation, ToPayable, ToAdvance, ToTax
<1>5. ASSUME KindOf[r] \in {"REFUND", "RETURN", "CLEARANCE"}
      PROVE  /\ Effect(r)["PAYABLE"] = ToPayable(r, AmountOf[r])
             /\ Effect(r)["ADVANCE"] = ToAdvance(r, AmountOf[r])
             /\ Effect(r)["TAX"] = -ToTax(r, AmountOf[r])
  BY <1>1, <1>5 DEF Effect, Accounts, ToPayable, ToAdvance, ToTax
<1>6. ASSUME KindOf[r] \in Obligation
      PROVE  /\ Effect(r)["PAYABLE"]
                   = (IF KindOf[r] \in {"BILL", "EXPENSE"} THEN AmountOf[r] ELSE 0)
             /\ Effect(r)["ADVANCE"] = 0 /\ Effect(r)["TAX"] = 0
  BY <1>1, <1>6 DEF Effect, Accounts, Obligation
<1> QED
  BY <1>3, <1>4, <1>5, <1>6 DEF Against

\* A journal entry, account by account.
LEMMA JournalMoves ==
    ASSUME ObligationsTypeOK, NEW r \in Records, NEW s \in {1, -1}, journal(r, s)
    PROVE  /\ book' \in Balances
           /\ KindOf[r] \in Against =>
                  /\ book'["PAYABLE"] = book["PAYABLE"] + ToPayable(r, s * AmountOf[r])
                  /\ book'["ADVANCE"] = book["ADVANCE"] + ToAdvance(r, s * AmountOf[r])
                  /\ book'["TAX"] = book["TAX"] - ToTax(r, s * AmountOf[r])
           /\ KindOf[r] \in Obligation =>
                  /\ book'["PAYABLE"] = book["PAYABLE"]
                        + (IF KindOf[r] \in {"BILL",
                        "EXPENSE"} THEN s * AmountOf[r] ELSE 0)
                  /\ book'["ADVANCE"] = book["ADVANCE"] /\ book'["TAX"] = book["TAX"]
<1> DEFINE e == Effect(r)
<1>1. e \in [Accounts -> Int] /\ book \in [Accounts -> Int] /\ AmountOf[r] \in Nat
  BY EffectOf, ObligationsConstants DEF Balances, ObligationsTypeOK
<1>2. book' = [x \in Accounts |-> book[x] + s * e[x]]
  BY DEF journal
<1> HIDE DEF e
<1>3. \A x \in Accounts : book'[x] \in Int /\ book'[x] = book[x] + s * e[x]
  BY <1>1, <1>2
<1>4. book' \in Balances
  BY <1>2, <1>3 DEF Balances
<1>5. /\ book'["PAYABLE"] = book["PAYABLE"] + s * e["PAYABLE"]
      /\ book'["ADVANCE"] = book["ADVANCE"] + s * e["ADVANCE"]
      /\ book'["TAX"] = book["TAX"] + s * e["TAX"]
      /\ book["PAYABLE"] \in Int /\ book["ADVANCE"] \in Int /\ book["TAX"] \in Int
  BY <1>1, <1>3 DEF Accounts
<1>6. ASSUME KindOf[r] \in Against
      PROVE  /\ book'["PAYABLE"] = book["PAYABLE"] + ToPayable(r, s * AmountOf[r])
             /\ book'["ADVANCE"] = book["ADVANCE"] + ToAdvance(r, s * AmountOf[r])
             /\ book'["TAX"] = book["TAX"] - ToTax(r, s * AmountOf[r])
  <2>1. /\ e["PAYABLE"] = ToPayable(r, AmountOf[r]) /\ e["ADVANCE"] = ToAdvance(r, AmountOf[r])
        /\ e["TAX"] = -ToTax(r, AmountOf[r])
    BY <1>6, EffectOf DEF e
  <2>2. /\ s * ToPayable(r, AmountOf[r]) = ToPayable(r, s * AmountOf[r])
        /\ s * ToAdvance(r, AmountOf[r]) = ToAdvance(r, s * AmountOf[r])
        /\ s * (-ToTax(r, AmountOf[r])) = -ToTax(r, s * AmountOf[r])
    <3>1. CASE s = 1
      BY <1>1, <3>1 DEF ToPayable, ToAdvance, ToTax
    <3>2. CASE s = -1
      BY <1>1, <3>2 DEF ToPayable, ToAdvance, ToTax
    <3> QED
      BY <3>1, <3>2
  <2>3. ToTax(r, s * AmountOf[r]) \in Int
    BY <1>1 DEF ToTax
  <2> QED
    BY <1>5, <2>1, <2>2, <2>3
<1>7. ASSUME KindOf[r] \in Obligation
      PROVE  /\ book'["PAYABLE"] = book["PAYABLE"]
                   + (IF KindOf[r] \in {"BILL", "EXPENSE"} THEN s * AmountOf[r] ELSE 0)
             /\ book'["ADVANCE"] = book["ADVANCE"] /\ book'["TAX"] = book["TAX"]
  <2>1. /\ e["PAYABLE"] = (IF KindOf[r] \in {"BILL", "EXPENSE"} THEN AmountOf[r] ELSE 0)
        /\ e["ADVANCE"] = 0 /\ e["TAX"] = 0
    BY <1>7, EffectOf DEF e
  <2>2. s * 0 = 0
    OBVIOUS
  <2> QED
    BY <1>1, <1>5, <2>1, <2>2
<1> QED
  BY <1>4, <1>6, <1>7

\* What a drafted record is, and what it is for.
LEMMA Drafted ==
    ASSUME ObligationsTypeOK, DraftsBelong, NEW r \in Records, record[r] # "NONE"
    PROVE  /\ r \in planned /\ AmountOf[r] \in Nat \ {0}
           /\ KindOf[r] \in Obligation \/ KindOf[r] \in Against
           /\ KindOf[r] \in Against => TargetOf[r] \in planned /\ TargetOf[r] \in Records
                                       /\ KindOf[TargetOf[r]] \in Obligation
                                       /\ TargetOf[r] # r /\ KindOf[r] \notin Obligation
<1>1. r \in planned /\ (KindOf[r] \in Against => TargetOf[r] \in planned)
  BY DEF DraftsBelong
<1>2. /\ AmountOf[r] \in Nat \ {0} /\ KindOf[r] \in Obligation \cup Against
      /\ KindOf[r] \in Against => TargetOf[r] \in Records
      /\ KindOf[r] = "PAYMENT" => KindOf[TargetOf[r]] \in Obligation
      /\ KindOf[r] = "REFUND" => KindOf[TargetOf[r]] = "BILL"
      /\ KindOf[r] \in {"RETURN", "CLEARANCE"} => KindOf[TargetOf[r]] = "ADVANCE"
  BY ObligationsConstants
<1>3. KindOf[r] \in Against => KindOf[r] \notin Obligation /\ KindOf[TargetOf[r]] \in Obligation
  BY <1>2 DEF Against, Obligation
<1> QED
  BY <1>1, <1>2, <1>3

\* The totals of one obligation stay within its amount when d is added to one of
\* them, if the checks of the code have been made.
LEMMA StaysBounded ==
    ASSUME NEW y, NEW k \in Against, NEW d \in Int,
           ObligationsTypeOK, y \in Records, Bounded(y), Posted(y), Posted(y)',
           \A j \in Against : total(j, y)' = total(j, y) + (IF j = k THEN d ELSE 0),
           k = "PAYMENT" =>
               /\ spent(y) + d <= AmountOf[y] /\ refunded(y) <= spent(y) + d
               /\ KindOf[y] = "ADVANCE" =>
                      total("CLEARANCE", y) + total("RETURN", y) <= spent(y) + d,
           k = "REFUND" => 0 <= refunded(y) + d /\ refunded(y) + d <= spent(y),
           k = "RETURN" => 0 <= total("RETURN", y) + d /\ d <= advance_outstanding(y),
           k = "CLEARANCE" => 0 <= total("CLEARANCE",
           y) + d /\ d <= advance_outstanding(y)
    PROVE  Bounded(y)'
<1> DEFINE p == total("PAYMENT", y)
           f == total("REFUND", y)
           c == total("CLEARANCE", y)
           n == total("RETURN", y)
           a == AmountOf[y]
<1>1. p \in Nat /\ f \in Nat /\ c \in Nat /\ n \in Nat /\ a \in Nat
  BY PostedNat, ObligationsConstants
<1>2. /\ f <= p /\ p <= a /\ (KindOf[y] = "ADVANCE" => p - c - n \in 0 .. a)
  BY DEF Bounded, spent, refunded, advance_outstanding
<1>3. /\ total("PAYMENT", y)' = p + (IF k = "PAYMENT" THEN d ELSE 0)
      /\ total("REFUND", y)' = f + (IF k = "REFUND" THEN d ELSE 0)
      /\ total("CLEARANCE", y)' = c + (IF k = "CLEARANCE" THEN d ELSE 0)
      /\ total("RETURN", y)' = n + (IF k = "RETURN" THEN d ELSE 0)
  BY DEF Against
<1>4. /\ k = "PAYMENT" => p + d <= a /\ f <= p + d
                          /\ (KindOf[y] = "ADVANCE" => c + n <= p + d)
      /\ k = "REFUND" => 0 <= f + d /\ f + d <= p
      /\ k = "RETURN" => 0 <= n + d /\ d <= p - c - n
      /\ k = "CLEARANCE" => 0 <= c + d /\ d <= p - c - n
  BY DEF spent, refunded, advance_outstanding
<1>5. Bounded(y)' <=>
        /\ 0 <= total("REFUND", y)' /\ total("REFUND", y)' <= total("PAYMENT", y)'
        /\ total("PAYMENT", y)' <= a
        /\ KindOf[y] = "ADVANCE" =>
              total("PAYMENT", y)' - total("CLEARANCE", y)' - total("RETURN",
              y)' \in 0 .. a
  BY DEF Bounded, spent, refunded, advance_outstanding
<1>6. k \in {"PAYMENT", "REFUND", "RETURN", "CLEARANCE"}
  BY DEF Against
<1> HIDE DEF p, f, c, n, a
<1>7. CASE k = "PAYMENT"
  BY ONLY <1>1, <1>2, <1>3, <1>4, <1>5, <1>7, d \in Int
<1>8. CASE k = "REFUND"
  BY ONLY <1>1, <1>2, <1>3, <1>4, <1>5, <1>8, d \in Int
<1>9. CASE k = "RETURN"
  BY ONLY <1>1, <1>2, <1>3, <1>4, <1>5, <1>9, d \in Int
<1>10. CASE k = "CLEARANCE"
  BY ONLY <1>1, <1>2, <1>3, <1>4, <1>5, <1>10, d \in Int
<1> QED
  BY <1>6, <1>7, <1>8, <1>9, <1>10


\* Something is posted for a target whose totals are bounded only while the
\* target is posted.
LEMMA TargetPosted ==
    ASSUME ObligationsTypeOK, NEW y \in Records, Bounded(y),
           \/ 0 < spent(y)
           \/ 0 < refunded(y)
           \/ KindOf[y] = "ADVANCE" /\ 0 < total("RETURN", y)
           \/ KindOf[y] = "ADVANCE" /\ 0 < total("CLEARANCE", y)
    PROVE  Posted(y)
<1>1. /\ spent(y) \in Nat /\ refunded(y) \in Nat /\ AmountOf[y] \in Nat
      /\ total("RETURN", y) \in Nat /\ total("CLEARANCE", y) \in Nat
  BY Figures
<1>2. 0 < spent(y)
  BY <1>1 DEF Bounded, advance_outstanding
<1> QED
  BY <1>1, <1>2 DEF Bounded

\* Posting keeps the accounts: what it is for is posted, by the check of a payment
\* or because something has been spent on it.
LEMMA PostKeepsBook ==
    ASSUME ObligationsInvariant, NEW r \in Records, post(r)
    PROVE  AccountedFor'
<1> DEFINE y == TargetOf[r]
<1>0. ObligationsTypeOK /\ AccountedFor /\ planned' = planned /\ DraftsBelong
  BY DEF ObligationsInvariant, post
<1>1. /\ record[r] = "APPROVED" /\ record' = [record EXCEPT ![r] = "POSTED"]
      /\ PostingAllowed(r) /\ journal(r, 1)
  BY DEF post
<1>2. /\ r \in planned /\ AmountOf[r] \in Nat \ {0}
      /\ KindOf[r] \in Obligation \/ KindOf[r] \in Against
      /\ KindOf[r] \in Against => /\ y \in planned /\ y \in Records /\ KindOf[y] \in Obligation
                                  /\ y # r /\ KindOf[r] \notin Obligation
  BY <1>0, <1>1, Drafted
<1>3. ~Posted(r) /\ Posted(r)' /\ \A s \in Records \ {r} : Posted(s)' <=> Posted(s)
  BY <1>0, <1>1 DEF Posted, ObligationsTypeOK
<1>4. \A k, t : total(k, t)' = total(k, t) + Part(r, k, t)
  BY <1>0, <1>1, <1>2, <1>3, TotalPosted
<1>5. 1 * AmountOf[r] = AmountOf[r]
  BY <1>2
<1>6. CASE KindOf[r] \in Obligation
  <2>1. KindOf[r] \notin Against
    BY <1>6 DEF Obligation, Against
  <2>2. \A k \in Against : \A t : total(k, t)' = total(k, t)
    <3> TAKE k \in Against
    <3> TAKE t
    <3>1. Part(r, k, t) = 0
      BY <2>1 DEF Part
    <3>2. total(k, t) \in Nat
      BY <1>0, PostedNat
    <3> QED
      BY <1>4, <3>1, <3>2
  <2>3. /\ book'["PAYABLE"] = book["PAYABLE"]
               + (IF KindOf[r] \in {"BILL", "EXPENSE"} THEN AmountOf[r] ELSE 0)
        /\ book'["ADVANCE"] = book["ADVANCE"] /\ book'["TAX"] = book["TAX"]
    BY <1>0, <1>1, <1>5, <1>6, JournalMoves
  <2>4. \A t \in planned \ {r} : Posted(t)' <=> Posted(t)
    BY <1>0, <1>3 DEF ObligationsTypeOK
  <2> QED
    BY <1>0, <1>2, <1>3, <1>6, <2>2, <2>3, <2>4, ObligationMoves
<1>7. CASE KindOf[r] \in Against
  <2>0. y \in planned /\ y \in Records /\ KindOf[y] \in Obligation /\ y # r
        /\ KindOf[r] \notin Obligation
    BY <1>2, <1>7
  <2>1. \A k, t : total(k, t)' = total(k, t)
                     + (IF KindOf[r] = k /\ TargetOf[r] = t THEN AmountOf[r] ELSE 0)
    BY <1>4 DEF Part
  <2>2. \A t \in planned : KindOf[t] \in Obligation => (Posted(t)' <=> Posted(t))
    BY <1>0, <1>3, <2>0 DEF ObligationsTypeOK
  <2>3. /\ book'["PAYABLE"] = book["PAYABLE"] + ToPayable(r, AmountOf[r])
        /\ book'["ADVANCE"] = book["ADVANCE"] + ToAdvance(r, AmountOf[r])
        /\ book'["TAX"] = book["TAX"] - ToTax(r, AmountOf[r])
    BY <1>0, <1>1, <1>5, <1>7, JournalMoves
  <2>4. Bounded(y)
    BY <1>0, <2>0 DEF AccountedFor, Bounded, OfKind
  <2>5. /\ spent(y) \in Nat /\ refunded(y) \in Nat /\ AmountOf[y] \in Nat
        /\ total("RETURN", y) \in Nat /\ total("CLEARANCE", y) \in Nat
    BY <1>0, <2>0, Figures
  <2>6. KindOf[r] = "PAYMENT" => Posted(y) /\ AmountOf[r] <= AmountOf[y] - spent(y)
    BY <1>1 DEF PostingAllowed, PaymentAllowed
  <2>7. KindOf[r] = "REFUND" => AmountOf[r] <= spent(y) - refunded(y)
    BY <1>1 DEF PostingAllowed
  <2>8. KindOf[r] \in {"RETURN", "CLEARANCE"} => AmountOf[r] <= advance_outstanding(y)
    BY <1>1 DEF PostingAllowed
  <2>9. /\ KindOf[r] = "REFUND" => 0 < spent(y)
        /\ KindOf[r] \in {"RETURN", "CLEARANCE"} => 0 < spent(y)
    BY <1>2, <2>5, <2>7, <2>8 DEF advance_outstanding
  <2>10. Posted(y)
    BY <1>0, <1>7, <2>0, <2>4, <2>6, <2>9, TargetPosted DEF Against
  <2>11. Posted(y)'
    BY <2>0, <2>2, <2>10
  <2>12. /\ KindOf[r] = "PAYMENT" =>
                /\ spent(y) + AmountOf[r] <= AmountOf[y] /\ refunded(y) <= spent(y) + AmountOf[r]
                /\ KindOf[y] = "ADVANCE" =>
                      total("CLEARANCE", y) + total("RETURN", y) <= spent(y) + AmountOf[r]
         /\ KindOf[r] = "REFUND" =>
                0 <= refunded(y) + AmountOf[r] /\ refunded(y) + AmountOf[r] <= spent(y)
         /\ KindOf[r] = "RETURN" =>
                0 <= total("RETURN",
                y) + AmountOf[r] /\ AmountOf[r] <= advance_outstanding(y)
         /\ KindOf[r] = "CLEARANCE" =>
                0 <= total("CLEARANCE",
                y) + AmountOf[r] /\ AmountOf[r] <= advance_outstanding(y)
    <3>1. /\ refunded(y) <= spent(y)
          /\ KindOf[y] = "ADVANCE" => total("CLEARANCE", y) + total("RETURN", y) <= spent(y)
      BY <2>4, <2>5 DEF Bounded, advance_outstanding
    <3> QED
      BY <1>2, <2>5, <2>6, <2>7, <2>8, <3>1
  <2>13. Bounded(y)'
    <3>1. \A j \in Against : total(j, y)' = total(j, y) + (IF j = KindOf[r] THEN AmountOf[r] ELSE 0)
      BY <2>1
    <3>2. AmountOf[r] \in Int
      BY <1>2
    <3> HIDE DEF y
    <3> QED
      BY <1>0, <1>7, <2>0, <2>4, <2>10, <2>11, <2>12, <3>1, <3>2, StaysBounded
  <2>14. AmountOf[r] \in Int
    BY <1>2
  <2> QED
    BY <1>0, <1>2, <1>7, <2>0, <2>1, <2>2, <2>3, <2>10, <2>13, <2>14, AgainstMoves
<1> QED
  BY <1>2, <1>6, <1>7

\* A reversal keeps the accounts: what it takes back nothing posted depends on.
LEMMA ReverseKeepsBook ==
    ASSUME ObligationsInvariant, NEW r \in Records, reverse_record(r)
    PROVE  AccountedFor'
<1> DEFINE y == TargetOf[r]
<1>0. ObligationsTypeOK /\ AccountedFor /\ planned' = planned /\ DraftsBelong
  BY DEF ObligationsInvariant, reverse_record
<1>1. /\ Posted(r) /\ record' = [record EXCEPT ![r] = "REVERSED"]
      /\ ReversalAllowed(r) /\ journal(r, -1)
  BY DEF reverse_record
<1>2. /\ r \in planned /\ AmountOf[r] \in Nat \ {0}
      /\ KindOf[r] \in Obligation \/ KindOf[r] \in Against
      /\ KindOf[r] \in Against => /\ y \in planned /\ y \in Records /\ KindOf[y] \in Obligation
                                  /\ y # r /\ KindOf[r] \notin Obligation
  <2>1. record[r] # "NONE"
    BY <1>1 DEF Posted
  <2> QED
    BY <1>0, <2>1, Drafted
<1>3. ~Posted(r)' /\ \A s \in Records \ {r} : Posted(s)' <=> Posted(s)
  BY <1>0, <1>1 DEF Posted, ObligationsTypeOK
<1>4. \A k, t : total(k, t)' = total(k, t) - Part(r, k, t)
  BY <1>0, <1>1, <1>2, TotalReversed
<1>5. (-1) * AmountOf[r] = -AmountOf[r]
  BY <1>2
<1>6. CASE KindOf[r] \in Obligation
  <2>0. KindOf[r] \in {"BILL", "EXPENSE"}
    BY <1>1, <1>6 DEF ReversalAllowed, Obligation
  <2>1. KindOf[r] \notin Against
    BY <1>6 DEF Obligation, Against
  <2>2. \A k \in Against : \A t : total(k, t)' = total(k, t)
    <3> TAKE k \in Against
    <3> TAKE t
    <3>1. Part(r, k, t) = 0
      BY <2>1 DEF Part
    <3>2. total(k, t) \in Nat
      BY <1>0, PostedNat
    <3> QED
      BY <1>4, <3>1, <3>2
  <2>3. /\ book'["PAYABLE"] = book["PAYABLE"]
               + (IF KindOf[r] \in {"BILL", "EXPENSE"} THEN -AmountOf[r] ELSE 0)
        /\ book'["ADVANCE"] = book["ADVANCE"] /\ book'["TAX"] = book["TAX"]
    BY <1>0, <1>1, <1>5, <1>6, JournalMoves
  <2>4. \A t \in planned \ {r} : Posted(t)' <=> Posted(t)
    BY <1>0, <1>3 DEF ObligationsTypeOK
  <2>5. PostedFor("PAYMENT", r) = {}
    BY <1>1, <2>0 DEF ReversalAllowed, PostedFor, OfKind
  <2>6. spent(r) = 0
    BY <2>5, TotalOfNone DEF spent
  <2> QED
    BY <1>0, <1>1, <1>2, <1>3, <1>6, <2>0, <2>2, <2>3, <2>4, <2>6, ObligationMoves
<1>7. CASE KindOf[r] \in Against
  <2> DEFINE d == -AmountOf[r]
  <2>0. y \in planned /\ y \in Records /\ KindOf[y] \in Obligation /\ y # r
        /\ KindOf[r] \notin Obligation
    BY <1>2, <1>7
  <2>1. \A k, t : total(k, t)' = total(k, t)
                     + (IF KindOf[r] = k /\ TargetOf[r] = t THEN d ELSE 0)
    <3> TAKE k, t
    <3>1. total(k, t)' = total(k, t) - Part(r, k, t) /\ total(k, t) \in Nat
      BY <1>0, <1>4, PostedNat
    <3> QED
      BY <1>2, <3>1 DEF Part
  <2>2. \A t \in planned : KindOf[t] \in Obligation => (Posted(t)' <=> Posted(t))
    BY <1>0, <1>3, <2>0 DEF ObligationsTypeOK
  <2>3. /\ book'["PAYABLE"] = book["PAYABLE"] + ToPayable(r, d)
        /\ book'["ADVANCE"] = book["ADVANCE"] + ToAdvance(r, d)
        /\ book'["TAX"] = book["TAX"] - ToTax(r, d)
    BY <1>0, <1>1, <1>5, <1>7, JournalMoves
  <2>4. Bounded(y)
    BY <1>0, <2>0 DEF AccountedFor, Bounded, OfKind
  <2>5. /\ spent(y) \in Nat /\ refunded(y) \in Nat /\ AmountOf[y] \in Nat
        /\ total("RETURN", y) \in Nat /\ total("CLEARANCE", y) \in Nat
    BY <1>0, <2>0, Figures
  <2>6. AmountOf[r] <= total(KindOf[r], y)
    BY <1>0, <1>1, <1>2, PartOfTotal
  <2>7. KindOf[r] \in {"RETURN", "CLEARANCE"} => KindOf[y] = "ADVANCE"
    BY ObligationsConstants
  <2>8. Posted(y)
    <3>1. KindOf[r] \in {"PAYMENT", "REFUND", "RETURN", "CLEARANCE"}
      BY <1>7 DEF Against
    <3>2. \/ 0 < spent(y)
          \/ 0 < refunded(y)
          \/ KindOf[y] = "ADVANCE" /\ 0 < total("RETURN", y)
          \/ KindOf[y] = "ADVANCE" /\ 0 < total("CLEARANCE", y)
      BY <1>2, <2>5, <2>6, <2>7, <3>1 DEF spent, refunded
    <3> HIDE DEF y
    <3> QED
      BY <1>0, <2>0, <2>4, <3>2, TargetPosted
  <2>9. Posted(y)'
    BY <2>0, <2>2, <2>8
  <2>10. KindOf[r] = "PAYMENT" =>
            /\ refunded(y) = 0
            /\ KindOf[y] = "ADVANCE" => total("RETURN", y) = 0 /\ total("CLEARANCE", y) = 0
    <3> SUFFICES ASSUME KindOf[r] = "PAYMENT"
                 PROVE  /\ refunded(y) = 0
                        /\ KindOf[y] = "ADVANCE" =>
                              total("RETURN", y) = 0 /\ total("CLEARANCE", y) = 0
      OBVIOUS
    <3>1. PostedFor("REFUND", y) = {}
      <4>1. CASE KindOf[y] = "BILL"
        BY <1>1, <4>1 DEF ReversalAllowed, PostedFor, OfKind
      <4>2. CASE KindOf[y] # "BILL"
        <5>1. planned \subseteq Records
          BY <1>0 DEF ObligationsTypeOK
        <5>2. \A s \in Records : KindOf[s] = "REFUND" => KindOf[TargetOf[s]] = "BILL"
          BY ObligationsConstants
        <5> QED
          BY <4>2, <5>1, <5>2 DEF PostedFor, OfKind
      <4> QED
        BY <4>1, <4>2
    <3>2. ASSUME KindOf[y] = "ADVANCE"
          PROVE  PostedFor("RETURN", y) = {} /\ PostedFor("CLEARANCE", y) = {}
      BY <1>1, <3>2 DEF ReversalAllowed, PostedFor, OfKind
    <3> QED
      BY <3>1, <3>2, TotalOfNone DEF refunded
  <2>11. /\ KindOf[r] = "PAYMENT" =>
                /\ spent(y) + d <= AmountOf[y] /\ refunded(y) <= spent(y) + d
                /\ KindOf[y] = "ADVANCE" =>
                      total("CLEARANCE", y) + total("RETURN", y) <= spent(y) + d
         /\ KindOf[r] = "REFUND" => 0 <= refunded(y) + d /\ refunded(y) + d <= spent(y)
         /\ KindOf[r] = "RETURN" => 0 <= total("RETURN", y) + d /\ d <= advance_outstanding(y)
         /\ KindOf[r] = "CLEARANCE" =>
                0 <= total("CLEARANCE", y) + d /\ d <= advance_outstanding(y)
    <3>1. /\ refunded(y) <= spent(y) /\ spent(y) <= AmountOf[y]
          /\ KindOf[y] = "ADVANCE" => advance_outstanding(y) \in Int /\ 0 <= advance_outstanding(y)
      BY <2>4, <2>5, <2>8 DEF Bounded
    <3>2. /\ KindOf[r] = "PAYMENT" => AmountOf[r] <= spent(y)
          /\ KindOf[r] = "REFUND" => AmountOf[r] <= refunded(y)
      BY <2>6 DEF spent, refunded
    <3> QED
      BY <1>2, <2>5, <2>6, <2>7, <2>10, <3>1, <3>2
  <2>12. d \in Int
    BY <1>2
  <2>13. Bounded(y)'
    <3>1. \A j \in Against : total(j, y)' = total(j, y) + (IF j = KindOf[r] THEN d ELSE 0)
      BY <2>1
    <3> HIDE DEF y, d
    <3> QED
      BY <1>0, <1>7, <2>0, <2>4, <2>8, <2>9, <2>11, <2>12, <3>1, StaysBounded
  <2> HIDE DEF d
  <2> QED
    BY <1>0, <1>2, <1>7, <2>0, <2>1, <2>2, <2>3, <2>8, <2>12, <2>13, AgainstMoves
<1> QED
  BY <1>2, <1>6, <1>7

\* What is drafted, posted or reversed belongs to the records of the behaviour:
\* a draft names a target that is posted.
LEMMA RecordsKept ==
    ASSUME ObligationsInvariant, ObligationsNext
    PROVE  ObligationsTypeOK' /\ DraftsBelong' /\ planned' = planned
<1> USE DEF ObligationsInvariant
<1>1. ASSUME NEW r \in Records, create(r)
      PROVE  ObligationsTypeOK' /\ DraftsBelong' /\ planned' = planned
  <2>1. /\ r \in planned /\ record' = [record EXCEPT ![r] = "APPROVED"]
        /\ KindOf[r] \in Against => Posted(TargetOf[r])
        /\ book' = book /\ collected' = collected /\ planned' = planned
    BY <1>1 DEF create
  <2>2. ObligationsTypeOK'
    BY <2>1 DEF ObligationsTypeOK
  <2>3. KindOf[r] \in Against => TargetOf[r] \in planned
    BY <2>1, ObligationsConstants DEF DraftsBelong, Posted
  <2> QED
    BY <2>1, <2>2, <2>3 DEF DraftsBelong, ObligationsTypeOK
<1>2. ASSUME NEW r \in Records, post(r)
      PROVE  ObligationsTypeOK' /\ DraftsBelong' /\ planned' = planned
  <2>1. /\ record[r] = "APPROVED" /\ record' = [record EXCEPT ![r] = "POSTED"]
        /\ collected' = collected /\ planned' = planned
    BY <1>2 DEF post
  <2>2. book' \in Balances
    BY <1>2, JournalMoves DEF post
  <2>3. ObligationsTypeOK'
    BY <2>1, <2>2 DEF ObligationsTypeOK
  <2> QED
    BY <2>1, <2>3 DEF DraftsBelong, ObligationsTypeOK
<1>3. ASSUME NEW r \in Records, reverse_record(r)
      PROVE  ObligationsTypeOK' /\ DraftsBelong' /\ planned' = planned
  <2>1. /\ record[r] = "POSTED" /\ record' = [record EXCEPT ![r] = "REVERSED"]
        /\ collected' = collected /\ planned' = planned
    BY <1>3 DEF reverse_record, Posted
  <2>2. book' \in Balances
    BY <1>3, JournalMoves DEF reverse_record
  <2>3. ObligationsTypeOK'
    BY <2>1, <2>2 DEF ObligationsTypeOK
  <2> QED
    BY <2>1, <2>3 DEF DraftsBelong, ObligationsTypeOK
<1>4. ASSUME collect PROVE ObligationsTypeOK' /\ DraftsBelong' /\ planned' = planned
  BY <1>4, ObligationsConstants DEF collect, DraftsBelong, ObligationsTypeOK
<1> QED
  BY <1>1, <1>2, <1>3, <1>4 DEF ObligationsNext

\* Nothing is posted at the start.
LEMMA ObligationsStart == ObligationsInit => ObligationsInvariant
<1> SUFFICES ASSUME ObligationsInit PROVE ObligationsInvariant
  OBVIOUS
<1>1. ObligationsTypeOK /\ DraftsBelong
  BY ObligationsConstants
     DEF ObligationsInit, ObligationsTypeOK, DraftsBelong, Balances, Accounts
<1>2. \A k, t : PostedFor(k, t) = {}
  BY <1>1 DEF PostedFor, OfKind, Posted, ObligationsInit, ObligationsTypeOK
<1>3. \A k, t : total(k, t) = 0
  BY <1>2, TotalOfNone
<1>4. planned \subseteq Records /\ IsFiniteSet(planned) /\ \A t \in planned : ~Posted(t)
  BY <1>1, ObligationsConstants, FS_Subset DEF ObligationsTypeOK, ObligationsInit, Posted
<1>5. \A t : spent(t) = 0 /\ refunded(t) = 0 /\ advance_outstanding(t) = 0
  BY <1>3 DEF spent, refunded, advance_outstanding
<1>6. \A t \in planned : Owed(t) = 0
  BY <1>4 DEF Owed
<1>7. \A S \in SUBSET planned :
         /\ SumFunctionOnSet([t \in planned |-> Owed(t)], S) = 0
         /\ SumFunctionOnSet([t \in planned |-> advance_outstanding(t)], S) = 0
         /\ SumFunctionOnSet([t \in planned |-> spent(t)], S) = 0
  <2> TAKE S \in SUBSET planned
  <2> DEFINE f == [t \in planned |-> Owed(t)]
             g == [t \in planned |-> advance_outstanding(t)]
             h == [t \in planned |-> spent(t)]
  <2>1. IsFiniteSet(S)
    BY <1>4, FS_Subset
  <2>2. \A t \in S : f[t] = 0 /\ g[t] = 0 /\ h[t] = 0
    BY <1>5, <1>6
  <2> HIDE DEF f, g, h
  <2>3. SumFunctionOnSet(f, S) = 0 /\ SumFunctionOnSet(g, S) = 0 /\ SumFunctionOnSet(h, S) = 0
    BY <2>1, <2>2, SumZero
  <2> QED
    BY <2>3 DEF f, g, h
<1>8. /\ OfKind("BILL") \cup OfKind("EXPENSE") \in SUBSET planned
      /\ OfKind("ADVANCE") \in SUBSET planned /\ OfKind("REMITTANCE") \in SUBSET planned
  BY DEF OfKind
<1>9. remitted = 0
  BY <1>7, <1>8 DEF remitted
<1>10. book["PAYABLE"] = 0 /\ book["ADVANCE"] = 0 /\ book["TAX"] = 0
  BY DEF ObligationsInit, Accounts
<1>11. \A t \in planned : AmountOf[t] \in Nat
  BY <1>4, ObligationsConstants
<1>12. AccountedFor
  <2>1. book["PAYABLE"] = SumFunctionOnSet([t \in planned |-> Owed(t)],
                                           OfKind("BILL") \cup OfKind("EXPENSE"))
    BY <1>7, <1>8, <1>10
  <2>2. book["ADVANCE"] = SumFunctionOnSet([t \in planned |-> advance_outstanding(t)],
                                           OfKind("ADVANCE"))
    BY <1>7, <1>8, <1>10
  <2>3. book["TAX"] = -remitted
    <3>1. remitted \in Int /\ 0 - remitted = 0
      BY <1>9
    <3>2. \A n \in Int : -n = 0 - n
      OBVIOUS
    <3>3. -remitted = 0 - remitted
      BY ONLY <3>1, <3>2, Zenon
    <3> QED
      BY ONLY <1>10, <3>1, <3>3, Zenon
  <2>4. \A t \in planned : /\ 0 <= refunded(t) /\ refunded(t) <= spent(t)
                           /\ spent(t) <= (IF Posted(t) THEN AmountOf[t] ELSE 0)
                           /\ advance_outstanding(t) \in 0 .. AmountOf[t]
    BY <1>4, <1>5, <1>11
  <2>5. OfKind("ADVANCE") \subseteq planned
    BY <1>8
  <2> QED
    BY <2>1, <2>2, <2>3, <2>4, <2>5 DEF AccountedFor
<1> QED
  BY <1>1, <1>12 DEF ObligationsInvariant

\* For any records, amounts and targets the control accounts agree with what the
\* posted documents still owe, have advanced and have remitted, and no obligation
\* is paid, refunded or accounted for beyond its amount (business_posting.py and
\* reversals.py).
THEOREM ObligationsInvariance ==
    ObligationsSpec => []ObligationsInvariant /\ []AccountedFor
<1>1. ObligationsInvariant /\ [ObligationsNext]_obligationVars => ObligationsInvariant'
  <2> SUFFICES ASSUME ObligationsInvariant, [ObligationsNext]_obligationVars
               PROVE  ObligationsInvariant'
    OBVIOUS
  <2>0. ObligationsTypeOK /\ AccountedFor /\ DraftsBelong
    BY DEF ObligationsInvariant
  <2>1. CASE ObligationsNext
    <3>1. ObligationsTypeOK' /\ DraftsBelong' /\ planned' = planned
      BY <2>1, RecordsKept
    <3>2. ASSUME NEW r \in Records, create(r) PROVE AccountedFor'
      <4>1. book' = book /\ \A s \in Records : Posted(s)' <=> Posted(s)
        BY <2>0, <3>2 DEF create, Posted, ObligationsTypeOK
      <4> QED
        BY <2>0, <3>1, <4>1, NothingMoves
    <3>3. ASSUME NEW r \in Records, post(r) PROVE AccountedFor'
      BY <3>3, PostKeepsBook
    <3>4. ASSUME NEW r \in Records, reverse_record(r) PROVE AccountedFor'
      BY <3>4, ReverseKeepsBook
    <3>5. ASSUME collect PROVE AccountedFor'
      <4>1. book' = book /\ \A s \in Records : Posted(s)' <=> Posted(s)
        BY <3>5 DEF collect, Posted
      <4> QED
        BY <2>0, <3>1, <4>1, NothingMoves
    <3> QED
      BY <2>1, <3>1, <3>2, <3>3, <3>4, <3>5 DEF ObligationsNext, ObligationsInvariant
  <2>2. CASE UNCHANGED obligationVars
    <3>1. planned' = planned /\ book' = book /\ record' = record /\ collected' = collected
      BY <2>2 DEF obligationVars
    <3>2. ObligationsTypeOK' /\ DraftsBelong' /\ \A s \in Records : Posted(s)' <=> Posted(s)
      BY <2>0, <3>1 DEF ObligationsTypeOK, DraftsBelong, Posted
    <3> QED
      BY <2>0, <3>1, <3>2, NothingMoves DEF ObligationsInvariant
  <2> QED
    BY <2>1, <2>2
<1>2. ObligationsInvariant => AccountedFor
  BY DEF ObligationsInvariant
<1> QED
  BY <1>1, <1>2, ObligationsStart, PTL DEF ObligationsSpec

-----------------------------------------------------------------------------
(* Deductions.                                                             *)

USE DeductionsAssumption DEF Days, NoDay

\* The rows and the transactions of a typed state, one by one.
LEMMA DeductionRows ==
    ASSUME DeductionsTypeOK
    PROVE  /\ \A a \in Authorizations : authorization[a] # NoEntry =>
                 authorization[a] \in AuthorizationRow
           /\ \A w \in Deducted : deduction[w] # NoEntry => deduction[w] \in DeductionRow
           /\ \A c \in Accountants :
                 /\ session[c] # NoSession => Busy(c)
                 /\ session[c].op = "POST" => session[c] \in Posting
                 /\ session[c].op = "REVOKE" => session[c] \in Revoking
  BY DEF DeductionsTypeOK, NoSession, Posting, Revoking, Busy

LEMMA DeductionsStart == DeductionsInit => DeductionsInvariant
  BY DEF DeductionsInit, DeductionsInvariant, DeductionsTypeOK, LocksHeldOnce,
     PostingStands, RevocationStands, Disjoint, DraftsAreAuthorized, PostedIsCovered,
     Busy, NoSession

\* A new authorization covers no day of another.
LEMMA AuthorizeKeeps ==
    ASSUME DeductionsInvariant,
           NEW a \in Authorizations, NEW day \in Days, NEW to \in Days \cup {NoDay},
           authorize(a, day, to)
    PROVE  DeductionsInvariant'
<1> USE DEF DeductionsInvariant, authorize, Overlaps, PartyUnlocked
<1>1. DeductionsTypeOK'
  BY DeductionRows DEF DeductionsTypeOK, AuthorizationRow
<1>2. LocksHeldOnce'
  BY DeductionRows DEF LocksHeldOnce, Busy, AuthorizationRow, DeductionsTypeOK
<1>3. PostingStands'
  BY DeductionRows DEF PostingStands, LocksHeldOnce, Busy, DraftsAreAuthorized, Covers,
     AuthorizationRow, DeductionRow, NoSession, Posting, Revoking, DeductionsTypeOK
<1>4. RevocationStands'
  BY DeductionRows DEF RevocationStands, LocksHeldOnce, Busy, DraftsAreAuthorized,
     PostingStands,
     AuthorizationRow, DeductionsTypeOK
<1>5. Disjoint'
  BY DeductionRows DEF Disjoint, Covers, RevocationStands, AuthorizationRow,
     DeductionsTypeOK
<1>6. DraftsAreAuthorized'
  BY DeductionRows DEF DraftsAreAuthorized, RevocationStands, PostingStands,
     AuthorizationRow,
     DeductionsTypeOK
<1>7. PostedIsCovered'
  BY DeductionRows DEF PostedIsCovered, DraftsAreAuthorized, Covers, RevocationStands,
     PostingStands, AuthorizationRow, DeductionsTypeOK
<1> QED
  BY <1>1, <1>2, <1>3, <1>4, <1>5, <1>6, <1>7

\* The revocation has checked the deductions, and holds their authorization.
LEMMA RevokeKeeps ==
    ASSUME DeductionsInvariant,
           NEW c \in Accountants, NEW a \in Authorizations, NEW day \in Days,
           revoke(c, a, day)
    PROVE  DeductionsInvariant'
<1> USE DEF DeductionsInvariant, revoke, PartyUnlocked, AuthorizationUnlocked, Free
<1>1. DeductionsTypeOK'
  BY DeductionRows DEF DeductionsTypeOK, NoSession, Revoking
<1>2. LocksHeldOnce'
  BY DeductionRows DEF LocksHeldOnce, Busy, NoSession, Revoking, DeductionsTypeOK
<1>3. PostingStands'
  BY DeductionRows DEF PostingStands, LocksHeldOnce, Busy, DraftsAreAuthorized, Covers,
     NoSession, Revoking, DeductionsTypeOK
<1>4. RevocationStands'
  BY DeductionRows DEF RevocationStands, LocksHeldOnce, Busy, DraftsAreAuthorized,
     PostingStands,
     AuthorizationRow, DeductionRow, NoSession, Posting, Revoking, DeductionsTypeOK
<1>5. Disjoint'
  BY DeductionRows DEF Disjoint, Covers, RevocationStands, NoSession, Revoking,
     DeductionsTypeOK
<1>6. DraftsAreAuthorized'
  BY DeductionRows DEF DraftsAreAuthorized, RevocationStands, PostingStands, NoSession,
     Revoking,
     DeductionsTypeOK
<1>7. PostedIsCovered'
  BY DeductionRows DEF PostedIsCovered, DraftsAreAuthorized, Covers, RevocationStands,
     PostingStands, NoSession, Revoking, DeductionsTypeOK
<1> QED
  BY <1>1, <1>2, <1>3, <1>4, <1>5, <1>6, <1>7

\* Nothing was posted under the authorization since the check.
LEMMA CommitRevocationKeeps ==
    ASSUME DeductionsInvariant, NEW c \in Accountants, commit_revocation(c)
    PROVE  DeductionsInvariant'
<1> USE DEF DeductionsInvariant, commit_revocation
<1>1. DeductionsTypeOK'
  BY DeductionRows DEF DeductionsTypeOK, RevocationStands, AuthorizationRow, NoSession,
     Revoking
<1>2. LocksHeldOnce'
  BY DeductionRows DEF LocksHeldOnce, Busy, AuthorizationRow, NoSession, Revoking,
     DeductionsTypeOK
<1>3. PostingStands'
  BY DeductionRows DEF PostingStands, LocksHeldOnce, Busy, DraftsAreAuthorized, Covers,
     AuthorizationRow, NoSession, Revoking, DeductionsTypeOK
<1>4. RevocationStands'
  BY DeductionRows DEF RevocationStands, LocksHeldOnce, Busy, DraftsAreAuthorized,
     PostingStands,
     AuthorizationRow, NoSession, Revoking, DeductionsTypeOK
<1>5. Disjoint'
  BY DeductionRows DEF Disjoint, Covers, RevocationStands, AuthorizationRow, NoSession,
     Revoking,
     DeductionsTypeOK
<1>6. DraftsAreAuthorized'
  BY DeductionRows DEF DraftsAreAuthorized, RevocationStands, PostingStands,
     AuthorizationRow,
     NoSession, Revoking, DeductionsTypeOK
<1>7. PostedIsCovered'
  BY DeductionRows DEF PostedIsCovered, DraftsAreAuthorized, Covers, RevocationStands,
     PostingStands, AuthorizationRow, NoSession, Revoking, DeductionsTypeOK
<1> QED
  BY <1>1, <1>2, <1>3, <1>4, <1>5, <1>6, <1>7

\* A draft is not posted.
LEMMA CreateKeeps ==
    ASSUME DeductionsInvariant,
           NEW w \in Deducted, NEW a \in Authorizations, NEW day \in Days,
           create_deduction(w, a, day)
    PROVE  DeductionsInvariant'
<1> USE DEF DeductionsInvariant, create_deduction
<1>1. DeductionsTypeOK'
  BY DeductionRows DEF DeductionsTypeOK, DeductionRow
<1>2. LocksHeldOnce'
  BY DeductionRows DEF LocksHeldOnce, Busy, DeductionRow, DeductionsTypeOK
<1>3. PostingStands'
  BY DeductionRows DEF PostingStands, LocksHeldOnce, Busy, DraftsAreAuthorized, Covers,
     DeductionRow, DeductionsTypeOK
<1>4. RevocationStands'
  BY DeductionRows DEF RevocationStands, LocksHeldOnce, Busy, DraftsAreAuthorized,
     PostingStands,
     DeductionRow, DeductionsTypeOK
<1>5. Disjoint'
  BY DeductionRows DEF Disjoint, Covers, RevocationStands, DeductionRow, DeductionsTypeOK
<1>6. DraftsAreAuthorized'
  BY DeductionRows DEF DraftsAreAuthorized, RevocationStands, PostingStands, DeductionRow,
     DeductionsTypeOK
<1>7. PostedIsCovered'
  BY DeductionRows DEF PostedIsCovered, DraftsAreAuthorized, Covers, RevocationStands,
     PostingStands, DeductionRow, DeductionsTypeOK
<1> QED
  BY <1>1, <1>2, <1>3, <1>4, <1>5, <1>6, <1>7

\* The posting has checked the authorization, and holds it.
LEMMA PostKeeps ==
    ASSUME DeductionsInvariant,
           NEW c \in Accountants, NEW w \in Deducted, post_deduction(c, w)
    PROVE  DeductionsInvariant'
<1> USE DEF DeductionsInvariant, post_deduction, BookUnlocked, AuthorizationUnlocked, Free
<1>1. DeductionsTypeOK'
  BY DeductionRows DEF DeductionsTypeOK, DeductionRow, NoSession, Posting
<1>2. LocksHeldOnce'
  BY DeductionRows DEF LocksHeldOnce, Busy, DeductionRow, NoSession, Posting,
     DeductionsTypeOK
<1>3. PostingStands'
  BY DeductionRows DEF PostingStands, LocksHeldOnce, Busy, DraftsAreAuthorized, Covers,
     DeductionRow, NoSession, Posting, DeductionsTypeOK
<1>4. RevocationStands'
  BY DeductionRows DEF RevocationStands, LocksHeldOnce, Busy, DraftsAreAuthorized,
     PostingStands,
     DeductionRow, NoSession, Posting, DeductionsTypeOK
<1>5. Disjoint'
  BY SMTT(30), DeductionRows
     DEF Disjoint, Covers, RevocationStands, DeductionRow, NoSession, Posting,
         DeductionsTypeOK
<1>6. DraftsAreAuthorized'
  BY DeductionRows DEF DraftsAreAuthorized, RevocationStands, PostingStands, DeductionRow,
     NoSession, Posting, DeductionsTypeOK
<1>7. PostedIsCovered'
  BY DeductionRows DEF PostedIsCovered, DraftsAreAuthorized, Covers, RevocationStands,
     PostingStands, DeductionRow, NoSession, Posting, DeductionsTypeOK
<1> QED
  BY <1>1, <1>2, <1>3, <1>4, <1>5, <1>6, <1>7

\* The authorization still covers the day.
LEMMA CommitPostingKeeps ==
    ASSUME DeductionsInvariant, NEW c \in Accountants, commit_posting(c)
    PROVE  DeductionsInvariant'
<1> USE DEF DeductionsInvariant, commit_posting, SetStatus
<1>1. DeductionsTypeOK'
  BY DeductionRows DEF DeductionsTypeOK, PostingStands, DeductionRow, NoSession, Posting
<1>2. LocksHeldOnce'
  BY DeductionRows DEF LocksHeldOnce, Busy, DeductionRow, NoSession, Posting,
     DeductionsTypeOK
<1>3. PostingStands'
  BY DeductionRows DEF PostingStands, LocksHeldOnce, Busy, DraftsAreAuthorized, Covers,
     DeductionRow, NoSession, Posting, DeductionsTypeOK
<1>4. RevocationStands'
  BY DeductionRows DEF RevocationStands, LocksHeldOnce, Busy, DraftsAreAuthorized,
     PostingStands,
     DeductionRow, NoSession, Posting, DeductionsTypeOK
<1>5. Disjoint'
  BY SMTT(30), DeductionRows
     DEF Disjoint, Covers, RevocationStands, DeductionRow, NoSession, Posting,
         DeductionsTypeOK
<1>6. DraftsAreAuthorized'
  BY DeductionRows DEF DraftsAreAuthorized, RevocationStands, PostingStands, DeductionRow,
     NoSession, Posting, DeductionsTypeOK
<1>7. PostedIsCovered'
  BY DeductionRows DEF PostedIsCovered, DraftsAreAuthorized, Covers, RevocationStands,
     PostingStands, DeductionRow, NoSession, Posting, DeductionsTypeOK
<1> QED
  BY <1>1, <1>2, <1>3, <1>4, <1>5, <1>6, <1>7

\* A reversed deduction asks for nothing.
LEMMA ReverseKeeps ==
    ASSUME DeductionsInvariant, NEW w \in Deducted, reverse_deduction(w)
    PROVE  DeductionsInvariant'
<1> USE DEF DeductionsInvariant, reverse_deduction, BookUnlocked, SetStatus
<1>1. DeductionsTypeOK'
  BY DeductionRows DEF DeductionsTypeOK, DeductionRow
<1>2. LocksHeldOnce'
  BY DeductionRows DEF LocksHeldOnce, Busy, DeductionRow, DeductionsTypeOK
<1>3. PostingStands'
  BY DeductionRows DEF PostingStands, LocksHeldOnce, Busy, DraftsAreAuthorized, Covers,
     DeductionRow, DeductionsTypeOK
<1>4. RevocationStands'
  BY DeductionRows DEF RevocationStands, LocksHeldOnce, Busy, DraftsAreAuthorized,
     PostingStands,
     DeductionRow, DeductionsTypeOK
<1>5. Disjoint'
  BY DeductionRows DEF Disjoint, Covers, RevocationStands, DeductionRow, DeductionsTypeOK
<1>6. DraftsAreAuthorized'
  BY DeductionRows DEF DraftsAreAuthorized, RevocationStands, PostingStands, DeductionRow,
     DeductionsTypeOK
<1>7. PostedIsCovered'
  BY DeductionRows DEF PostedIsCovered, DraftsAreAuthorized, Covers, RevocationStands,
     PostingStands, DeductionRow, DeductionsTypeOK
<1> QED
  BY <1>1, <1>2, <1>3, <1>4, <1>5, <1>6, <1>7

\* What was locked is free again.
LEMMA RollbackSessionKeeps ==
    ASSUME DeductionsInvariant, NEW c \in Accountants, rollback_session(c)
    PROVE  DeductionsInvariant'
<1> USE DEF DeductionsInvariant, rollback_session
<1>1. DeductionsTypeOK'
  BY DeductionRows DEF DeductionsTypeOK, NoSession
<1>2. LocksHeldOnce'
  BY DeductionRows DEF LocksHeldOnce, Busy, NoSession, DeductionsTypeOK
<1>3. PostingStands'
  BY DeductionRows DEF PostingStands, LocksHeldOnce, Busy, DraftsAreAuthorized, Covers,
     NoSession, DeductionsTypeOK
<1>4. RevocationStands'
  BY DeductionRows DEF RevocationStands, LocksHeldOnce, Busy, DraftsAreAuthorized,
     PostingStands,
     NoSession, DeductionsTypeOK
<1>5. Disjoint'
  BY DeductionRows DEF Disjoint, Covers, RevocationStands, NoSession, DeductionsTypeOK
<1>6. DraftsAreAuthorized'
  BY DeductionRows DEF DraftsAreAuthorized, RevocationStands, PostingStands, NoSession,
     DeductionsTypeOK
<1>7. PostedIsCovered'
  BY DeductionRows DEF PostedIsCovered, DraftsAreAuthorized, Covers, RevocationStands,
     PostingStands, NoSession, DeductionsTypeOK
<1> QED
  BY <1>1, <1>2, <1>3, <1>4, <1>5, <1>6, <1>7

LEMMA DeductionsStep ==
    DeductionsInvariant /\ [DeductionsNext]_deductionVars => DeductionsInvariant'
<1> SUFFICES ASSUME DeductionsInvariant, [DeductionsNext]_deductionVars
             PROVE  DeductionsInvariant'
  OBVIOUS
<1>1. CASE DeductionsNext
  BY <1>1, AuthorizeKeeps, RevokeKeeps, CommitRevocationKeeps, CreateKeeps, PostKeeps,
     CommitPostingKeeps, ReverseKeeps, RollbackSessionKeeps DEF DeductionsNext
<1>2. CASE UNCHANGED deductionVars
  BY <1>2 DEF deductionVars, DeductionsInvariant, DeductionsTypeOK, LocksHeldOnce,
     PostingStands, RevocationStands, Disjoint, DraftsAreAuthorized, PostedIsCovered, Busy
<1> QED
  BY <1>1, <1>2

\* What a transaction has checked stays true until it commits.
THEOREM DeductionsInvariance == DeductionsSpec => []DeductionsInvariant
  BY DeductionsStart, DeductionsStep, PTL DEF DeductionsSpec

\* The day of a posted deduction is covered by its authorization and by no other.
THEOREM DeductionsAuthorized == DeductionsSpec => []AuthorizedOnce
<1>1. DeductionsInvariant => AuthorizedOnce
  BY DeductionRows DEF DeductionsInvariant, AuthorizedOnce, Disjoint, DraftsAreAuthorized,
     PostedIsCovered, DeductionRow
<1> QED
  BY <1>1, DeductionsInvariance, PTL

-----------------------------------------------------------------------------
(* Operations.                                                             *)

USE OperationsAssumption DEF Runs

\* What a request in progress is, and what the rows are.
LEMMA OperationRequests ==
    ASSUME OperationsTypeOK
    PROVE  /\ \A c \in Clients : serving[c] # Resting => serving[c] \in Request
           /\ \A c \in Clients :
                  serving[c].at \in {"BEGIN", "CALLBACK", "SAVE"} => serving[c] # Resting
           /\ \A k \in Keys : operations[k] # NoResult => operations[k] \in OperationRow
  BY DEF OperationsTypeOK, Resting

LEMMA OperationsStart == OperationsInit => OperationsInvariant
  BY DEF OperationsInit, OperationsInvariant, OperationsTypeOK, RunsAreFresh,
     KeysAreHeld, ExecutedIsStored, AnswersAreStored, ExportsAreOld, ExportsComplete,
     Inserted, Resting

\* A request begins with a run of its own.
LEMMA MutateKeeps ==
    ASSUME OperationsInvariant, NEW c \in Clients, NEW key \in Keys, NEW print \in Fingerprints,
           mutate(c, key, print)
    PROVE  OperationsInvariant'
<1> USE DEF OperationsInvariant, mutate
<1>1. OperationsTypeOK'
  BY DEF OperationsTypeOK, Request
<1>2. RunsAreFresh'
  BY DEF RunsAreFresh, ExportsAreOld, OperationsTypeOK, Request
<1>3. KeysAreHeld'
  BY DEF KeysAreHeld, Inserted
<1>4. ExecutedIsStored'
  BY DEF ExecutedIsStored
<1>5. AnswersAreStored'
  BY DEF AnswersAreStored
<1>6. ExportsAreOld'
  BY DEF ExportsAreOld, OperationsTypeOK, LedgerDocument
<1>7. ExportsComplete'
  BY DEF ExportsComplete
<1> QED
  BY <1>1, <1>2, <1>3, <1>4, <1>5, <1>6, <1>7

\* The key is free, and nobody else can insert it until the commit.
LEMMA InsertKeeps ==
    ASSUME OperationsInvariant, NEW c \in Clients, get_or_create(c)
    PROVE  OperationsInvariant'
<1> USE DEF OperationsInvariant, get_or_create, KeyFree, At
<1>1. OperationsTypeOK'
  BY OperationRequests DEF OperationsTypeOK, Request
<1>2. RunsAreFresh'
  BY OperationRequests DEF RunsAreFresh
<1>3. KeysAreHeld'
  BY DEF KeysAreHeld, Inserted
<1>4. ExecutedIsStored'
  BY DEF ExecutedIsStored
<1>5. AnswersAreStored'
  BY DEF AnswersAreStored
<1>6. ExportsAreOld'
  BY DEF ExportsAreOld
<1>7. ExportsComplete'
  BY DEF ExportsComplete
<1> QED
  BY <1>1, <1>2, <1>3, <1>4, <1>5, <1>6, <1>7

\* The answer is the stored result.
LEMMA ReplayKeeps ==
    ASSUME OperationsInvariant, NEW c \in Clients, replay(c)
    PROVE  OperationsInvariant'
<1> USE DEF OperationsInvariant, replay, Leave
<1>1. OperationsTypeOK'
  BY OperationRequests DEF OperationsTypeOK, OperationRow, Request
<1>2. RunsAreFresh'
  BY DEF RunsAreFresh
<1>3. KeysAreHeld'
  BY DEF KeysAreHeld, Inserted, Resting
<1>4. ExecutedIsStored'
  BY DEF ExecutedIsStored
<1>5. AnswersAreStored'
  BY DEF AnswersAreStored
<1>6. ExportsAreOld'
  BY DEF ExportsAreOld
<1>7. ExportsComplete'
  BY DEF ExportsComplete
<1> QED
  BY <1>1, <1>2, <1>3, <1>4, <1>5, <1>6, <1>7

\* The service works, and stores nothing that others read.
LEMMA WorkKeeps ==
    ASSUME OperationsInvariant, NEW c \in Clients, callback(c) \/ begin_export(c)
    PROVE  OperationsInvariant'
<1> USE DEF OperationsInvariant, callback, begin_export, At
<1>1. OperationsTypeOK'
  BY OperationRequests DEF OperationsTypeOK, Request
<1>2. RunsAreFresh'
  BY OperationRequests DEF RunsAreFresh, OperationsTypeOK
<1>3. KeysAreHeld'
  BY DEF KeysAreHeld, Inserted, OperationsTypeOK
<1>4. ExecutedIsStored'
  BY DEF ExecutedIsStored
<1>5. AnswersAreStored'
  BY DEF AnswersAreStored
<1>6. ExportsAreOld'
  BY DEF ExportsAreOld
<1>7. ExportsComplete'
  BY DEF ExportsComplete
<1> QED
  BY <1>1, <1>2, <1>3, <1>4, <1>5, <1>6, <1>7

\* The key is free again.
LEMMA RollbackKeeps ==
    ASSUME OperationsInvariant, NEW c \in Clients, rollback(c)
    PROVE  OperationsInvariant'
<1> USE DEF OperationsInvariant, rollback, Leave
<1>1. OperationsTypeOK'
  BY DEF OperationsTypeOK
<1>2. RunsAreFresh'
  BY DEF RunsAreFresh
<1>3. KeysAreHeld'
  BY DEF KeysAreHeld, Inserted, Resting
<1>4. ExecutedIsStored'
  BY DEF ExecutedIsStored
<1>5. AnswersAreStored'
  BY DEF AnswersAreStored
<1>6. ExportsAreOld'
  BY DEF ExportsAreOld
<1>7. ExportsComplete'
  BY DEF ExportsComplete
<1> QED
  BY <1>1, <1>2, <1>3, <1>4, <1>5, <1>6, <1>7

\* A commit stores the run of a key that has none, and complete documents.
LEMMA CommitKeeps ==
    ASSUME OperationsInvariant, NEW c \in Clients, NEW rows \in SUBSET LedgerDocument,
           Inserted(c), commit(c, rows),
           \A row \in rows : /\ row.file \in stored /\ row.file[1] = serving[c].run
                            /\ \A page \in Pages :
                                  [export |-> row.export, file |-> <<row.file[1],
                                  page>>] \in rows
    PROVE  OperationsInvariant'
<1> USE DEF OperationsInvariant, commit, Leave
<1>1. OperationsTypeOK'
  BY OperationRequests DEF OperationsTypeOK, Request, OperationRow, Inserted
<1>2. RunsAreFresh'
  BY OperationRequests DEF RunsAreFresh, OperationsTypeOK, Inserted
<1>3. KeysAreHeld'
  BY DEF KeysAreHeld, Inserted, OperationsTypeOK, Resting
<1>4. ExecutedIsStored'
  BY OperationRequests DEF ExecutedIsStored, KeysAreHeld, Inserted, OperationsTypeOK,
     Request,
     OperationRow
<1>5. AnswersAreStored'
  BY OperationRequests DEF AnswersAreStored, KeysAreHeld, Inserted, OperationsTypeOK,
     Request,
     OperationRow
<1>6. ExportsAreOld'
  BY OperationRequests DEF ExportsAreOld, RunsAreFresh, Inserted
<1>7. ExportsComplete'
  BY DEF ExportsComplete
<1> QED
  BY <1>1, <1>2, <1>3, <1>4, <1>5, <1>6, <1>7

\* A result is saved, or a document used again: no new document.
LEMMA SaveResultKeeps ==
    ASSUME OperationsInvariant, NEW c \in Clients, save_result(c) \/ reuse_export(c)
    PROVE  OperationsInvariant'
<1>1. Inserted(c) /\ commit(c, {})
  BY DEF save_result, reuse_export, Inserted
<1> QED
  BY <1>1, CommitKeeps

\* All pages have been stored under the run of the request.
LEMMA SaveExportKeeps ==
    ASSUME OperationsInvariant, NEW c \in Clients, save_export(c)
    PROVE  OperationsInvariant'
<1> DEFINE Row(page) == [export |-> ExportOf[serving[c].print], file |-> FileOf(c, page)]
           rows == {Row(page) : page \in Pages}
<1>1. Inserted(c) /\ commit(c, rows)
  BY DEF save_export, Inserted
<1>2. serving[c] \in Request
  BY OperationRequests DEF OperationsInvariant, save_export
<1>3. \A page \in Pages : Row(page) \in LedgerDocument
  BY <1>2 DEF save_export, Request, LedgerDocument, ExportIds, FileOf
<1>4. \A page \in Pages : /\ Row(page).file \in stored
                          /\ Row(page).file[1] = serving[c].run
                          /\ Row(page).export = ExportOf[serving[c].print]
  BY DEF save_export, Uploaded, FileOf
<1>5. rows \in SUBSET LedgerDocument
  BY <1>3
<1>6. ASSUME NEW row \in rows
      PROVE  /\ row.file \in stored /\ row.file[1] = serving[c].run
             /\ \A page \in Pages :
                   [export |-> row.export, file |-> <<row.file[1], page>>] \in rows
  BY <1>4 DEF FileOf
<1> HIDE DEF rows
<1> QED
  BY <1>1, <1>5, <1>6, CommitKeeps

\* A file more.
LEMMA StoreKeeps ==
    ASSUME OperationsInvariant, NEW c \in Clients, NEW page \in Pages, store(c, page)
    PROVE  OperationsInvariant'
<1> USE DEF OperationsInvariant, store, FileOf
<1>1. OperationsTypeOK'
  BY OperationRequests DEF OperationsTypeOK, Request
<1>2. RunsAreFresh'
  BY DEF RunsAreFresh
<1>3. KeysAreHeld'
  BY DEF KeysAreHeld, Inserted
<1>4. ExecutedIsStored'
  BY DEF ExecutedIsStored
<1>5. AnswersAreStored'
  BY DEF AnswersAreStored
<1>6. ExportsAreOld'
  BY DEF ExportsAreOld
<1>7. ExportsComplete'
  BY DEF ExportsComplete
<1> QED
  BY <1>1, <1>2, <1>3, <1>4, <1>5, <1>6, <1>7

\* Only files of this run are deleted, and no document has any of them.
LEMMA DiscardKeeps ==
    ASSUME OperationsInvariant, NEW c \in Clients, discard_export(c)
    PROVE  OperationsInvariant'
<1> USE DEF OperationsInvariant, discard_export, FileOf, Leave
<1>1. OperationsTypeOK'
  BY DEF OperationsTypeOK
<1>2. RunsAreFresh'
  BY DEF RunsAreFresh
<1>3. KeysAreHeld'
  BY DEF KeysAreHeld, Inserted, Resting
<1>4. ExecutedIsStored'
  BY DEF ExecutedIsStored
<1>5. AnswersAreStored'
  BY DEF AnswersAreStored
<1>6. ExportsAreOld'
  BY DEF ExportsAreOld
<1>7. ExportsComplete'
  BY OperationRequests DEF ExportsComplete, RunsAreFresh
<1> QED
  BY <1>1, <1>2, <1>3, <1>4, <1>5, <1>6, <1>7

LEMMA OperationsStep ==
    OperationsInvariant /\ [OperationsNext]_operationVars => OperationsInvariant'
<1> SUFFICES ASSUME OperationsInvariant, [OperationsNext]_operationVars
             PROVE  OperationsInvariant'
  OBVIOUS
<1>1. CASE OperationsNext
  BY <1>1, MutateKeeps, InsertKeeps, ReplayKeeps, WorkKeeps, RollbackKeeps,
     SaveResultKeeps,
     SaveExportKeeps, StoreKeeps, DiscardKeeps DEF OperationsNext
<1>2. CASE UNCHANGED operationVars
  BY <1>2 DEF operationVars, OperationsInvariant, OperationsTypeOK, RunsAreFresh,
     KeysAreHeld, ExecutedIsStored, AnswersAreStored, ExportsAreOld, ExportsComplete,
     Inserted
<1> QED
  BY <1>1, <1>2

\* A key is held by one transaction or has been committed, and a run has one request.
THEOREM OperationsInvariance == OperationsSpec => []OperationsInvariant
  BY OperationsStart, OperationsStep, PTL DEF OperationsSpec

\* A service runs once for a key, and all answers are those of that run.
THEOREM OperationsOnce == OperationsSpec => []OncePerKey
<1>1. OperationsInvariant => OncePerKey
  <2> SUFFICES ASSUME OperationsInvariant PROVE OncePerKey
    OBVIOUS
  <2> USE DEF OperationsInvariant
  <2>1. \A x, y \in executed : x[1] = y[1] => x[2] = y[2]
    BY DEF ExecutedIsStored
  <2>2. \A x, y \in answers : x[1] = y[1] => x = y
    BY DEF AnswersAreStored, OperationsTypeOK
  <2>3. \A x \in answers : <<x[1], x[3]>> \in executed
    BY DEF AnswersAreStored, ExecutedIsStored, OperationsTypeOK
  <2> QED
    BY <2>1, <2>2, <2>3 DEF OncePerKey
<1> QED
  BY <1>1, OperationsInvariance, PTL

\* Whatever is deleted after a failure, the files of a document stay.
THEOREM OperationsExport == OperationsSpec => []ExportsComplete
<1>1. OperationsInvariant => ExportsComplete
  BY DEF OperationsInvariant
<1> QED
  BY <1>1, OperationsInvariance, PTL

-----------------------------------------------------------------------------
(* Settlement.                                                             *)

\* What the constants of Settlement are.
LEMMA SettlementConstants ==
    /\ Today \in Nat \ {0} /\ Closable \subseteq AccountingDates /\ MaxEvents \in Nat
    /\ IsFiniteSet(FinancialRecords) /\ IsFiniteSet(Invoices) /\ IsFiniteSet(Sources)
    /\ IsFiniteSet(Receipts) /\ IsFiniteSet(Withholdings) /\ IsFiniteSet(Credits)
    /\ IsFiniteSet(Refunds)
    /\ Receipts \cap Withholdings = {} /\ Credits \cap (Receipts \cup Withholdings) = {}
    /\ Invoices \cap Sources = {} /\ Refunds \cap (Invoices \cup Sources) = {}
    /\ \A i \in Invoices : Content[i].lines \in Seq(LineRows)
    /\ \A r \in Receipts \cup Refunds : Content[r].amount \in Nat \ {0}
    /\ \A w \in Withholdings :
           /\ Content[w].amount \in Nat \ {0}
           /\ Content[w].treatment \in {"VAT", "INCOME_WHT"}
           /\ Content[w].invoice \in Invoices
           /\ Content[w].line \in DOMAIN Content[Content[w].invoice].lines
    /\ \A c \in Credits :
           /\ Content[c].invoice \in Invoices /\ Content[c].rows \in Seq(CreditRows)
           /\ \A m, n \in DOMAIN Content[c].rows :
                  /\ Content[c].rows[n].line \in DOMAIN Content[Content[c].invoice].lines
                  /\ m # n => Content[c].rows[m].line # Content[c].rows[n].line
<1>1. /\ Invoices \subseteq FinancialRecords /\ Sources \subseteq FinancialRecords
      /\ Receipts \subseteq FinancialRecords /\ Withholdings \subseteq FinancialRecords
      /\ Credits \subseteq FinancialRecords /\ Refunds \subseteq FinancialRecords
  BY DEF FinancialRecords, Sources
<1>2. IsFiniteSet(FinancialRecords)
  BY SettlementAssumption DEF SettlementAssumption
<1>3. /\ IsFiniteSet(Invoices) /\ IsFiniteSet(Sources)
      /\ IsFiniteSet(Receipts) /\ IsFiniteSet(Withholdings) /\ IsFiniteSet(Credits)
      /\ IsFiniteSet(Refunds)
  BY <1>1, <1>2, FS_Subset
<1>4. \A w \in Withholdings :
           /\ Content[w].amount \in Nat \ {0}
           /\ Content[w].treatment \in {"VAT", "INCOME_WHT"}
           /\ Content[w].invoice \in Invoices
           /\ Content[w].line \in DOMAIN Content[Content[w].invoice].lines
  BY SettlementAssumption DEF SettlementAssumption
<1>5. \A c \in Credits :
           /\ Content[c].invoice \in Invoices /\ Content[c].rows \in Seq(CreditRows)
           /\ \A m, n \in DOMAIN Content[c].rows :
                  /\ Content[c].rows[n].line \in DOMAIN Content[Content[c].invoice].lines
                  /\ m # n => Content[c].rows[m].line # Content[c].rows[n].line
  BY SettlementAssumption DEF SettlementAssumption
<1>6. /\ \A i \in Invoices : Content[i].lines \in Seq(LineRows)
      /\ \A r \in Receipts \cup Refunds : Content[r].amount \in Nat \ {0}
  BY SettlementAssumption DEF SettlementAssumption
<1>7. /\ Today \in Nat \ {0} /\ Closable \subseteq AccountingDates /\ MaxEvents \in Nat
      /\ Receipts \cap Withholdings = {} /\ Credits \cap (Receipts \cup Withholdings) = {}
      /\ Invoices \cap Sources = {} /\ Refunds \cap (Invoices \cup Sources) = {}
  BY SettlementAssumption DEF SettlementAssumption
<1> QED
  BY <1>2, <1>3, <1>4, <1>5, <1>6, <1>7

\* A sequence has finitely many positions.
LEMMA SettlementRows ==
    ASSUME NEW R, NEW t \in Seq(R)
    PROVE  /\ Len(t) \in Nat /\ DOMAIN t = 1..Len(t) /\ IsFiniteSet(DOMAIN t)
           /\ \A i \in DOMAIN t : t[i] \in R
<1>1. Len(t) \in Nat /\ DOMAIN t = 1..Len(t) /\ \A i \in DOMAIN t : t[i] \in R
  OBVIOUS
<1>2. IsFiniteSet(1..Len(t))
  BY <1>1, FS_Interval
<1> QED
  BY <1>1, <1>2

\* The amount of a record.
LEMMA Values ==
    /\ \A r \in FinancialRecords : Value(r) \in Nat
    /\ \A r \in FinancialRecords \ (Invoices \cup Credits) : Value(r) > 0
<1> USE SettlementConstants
<1>1. ASSUME NEW r \in Invoices PROVE Value(r) \in Nat
  <2> DEFINE f == [k \in LinesOf(r) |-> Line(r, k).net + Line(r, k).tax]
  <2>1. IsFiniteSet(LinesOf(r)) /\ \A k \in LinesOf(r) : Line(r, k) \in LineRows
    BY SettlementRows DEF LinesOf, Line
  <2>2. \A k \in LinesOf(r) : Line(r, k).net \in Nat /\ Line(r, k).tax \in Nat
    BY <2>1 DEF LineRows
  <2>4. \A k \in LinesOf(r) : f[k] \in Nat
    BY <2>2
  <2>3. Value(r) = SumFunctionOnSet(f, LinesOf(r))
    BY DEF Value, Sources
  <2> HIDE DEF f
  <2> QED
    BY <2>1, <2>4, <2>3, SumNat
<1>2. ASSUME NEW r \in Credits PROVE Value(r) \in Nat
  <2> DEFINE rows == Content[r].rows
             f == [k \in DOMAIN rows |-> rows[k].net + rows[k].tax]
  <2>1. IsFiniteSet(DOMAIN rows) /\ \A k \in DOMAIN rows : rows[k] \in CreditRows
    BY SettlementRows
  <2>4. \A k \in DOMAIN rows : rows[k].net \in Nat /\ rows[k].tax \in Nat
    BY <2>1 DEF CreditRows
  <2>2. \A k \in DOMAIN rows : f[k] \in Nat
    BY ONLY <2>4
  <2>3. Value(r) = SumFunctionOnSet(f, DOMAIN rows)
    BY DEF Value, Sources
  <2> HIDE DEF f
  <2> QED
    BY <2>1, <2>2, <2>3, SumNat
<1>3. ASSUME NEW r \in Receipts \cup Withholdings \cup Refunds
      PROVE  Value(r) \in Nat /\ Value(r) > 0
  <2>1. r \notin Invoices /\ r \notin Credits
    BY DEF Sources
  <2>2. Value(r) = Content[r].amount
    BY <2>1 DEF Value
  <2> QED
    BY <2>2
<1> QED
  BY <1>1, <1>2, <1>3 DEF FinancialRecords, Sources

-----------------------------------------------------------------------------
(* Sums over allocations, as functions of their sequence a and of what a   *)
(* row counts for.                                                         *)

Counted(V) == \A row \in AllocationRows : V[row] \in Int
Each(a, V) == [n \in DOMAIN a |-> V[a[n]]]
Total(a, V, events) == SumFunctionOnSet(Each(a, V), events)

ByInvoice(a, i) == {n \in DOMAIN a : a[n].invoice = i}
BySource(a, s) == {n \in DOMAIN a : a[n].source = s}
UpTo(a, events, day) == {n \in events : a[n].date <= day}
ReleasesIn(a, n) == {m \in DOMAIN a : a[m].release_of = n}

\* What a row applies, and the tax on a line that it collects.
Amounts == [row \in AllocationRows |-> IF row.release_of = 0 THEN row.amount ELSE -row.amount]
LineTax(row, k) ==
    LET rows == {j \in DOMAIN row.taxes : row.taxes[j].line = k}
    IN IF rows = {} THEN 0 ELSE row.taxes[CHOOSE j \in rows : TRUE].amount
Collects(k) ==
    [row \in AllocationRows |-> IF row.release_of = 0 THEN LineTax(row, k) ELSE -LineTax(row, k)]

\* The fields of an allocation.
LEMMA AllocationFields ==
    ASSUME NEW row \in AllocationRows
    PROVE  /\ row.source \in Sources /\ row.invoice \in Invoices
           /\ row.date \in AccountingDates /\ row.date \in Nat /\ row.date <= Today
           /\ row.amount \in Nat /\ row.amount > 0
           /\ row.release_of \in Nat
           /\ row.taxes \in Seq([line : Nat, amount : Nat])
           /\ \A k \in DOMAIN row.taxes :
                  /\ row.taxes[k].amount \in Nat /\ row.taxes[k].line \in Nat
                  /\ k \in Nat
<1>1. /\ row.source \in Sources /\ row.invoice \in Invoices
      /\ row.date \in AccountingDates
      /\ row.amount \in Nat /\ row.amount > 0
      /\ row.release_of \in Nat
      /\ row.taxes \in Seq([line : Nat, amount : Nat])
  BY DEF AllocationRows, TaxRows
<1>2. row.date \in Nat /\ row.date <= Today
  BY <1>1, SettlementConstants DEF AccountingDates
<1> DEFINE t == row.taxes
           R == [line : Nat, amount : Nat]
<1>3. t \in Seq(R)
  BY <1>1
<1> HIDE DEF t, R
<1>4. \A k \in DOMAIN t : t[k] \in R /\ k \in Nat
  BY <1>3, SettlementRows
<1>5. \A k \in DOMAIN t : t[k].amount \in Nat /\ t[k].line \in Nat /\ k \in Nat
  BY <1>4 DEF R
<1> QED
  BY <1>1, <1>2, <1>5 DEF t

\* What the rows count for is an integer, and a release counts for nothing positive.
LEMMA CountedRows ==
    /\ Counted(Amounts)
    /\ \A row \in AllocationRows :
           Amounts[row] = IF row.release_of = 0 THEN row.amount ELSE -row.amount
    /\ \A k : \A row \in AllocationRows :
           /\ LineTax(row, k) \in Nat
           /\ Collects(k)[row] = IF row.release_of = 0 THEN LineTax(row, k) ELSE -LineTax(row, k)
    /\ \A k : Counted(Collects(k))
<1>1. \A row \in AllocationRows :
          Amounts[row] = IF row.release_of = 0 THEN row.amount ELSE -row.amount
  BY DEF Amounts
<1>2. Counted(Amounts)
  BY <1>1, AllocationFields DEF Counted
<1>3. ASSUME NEW k, NEW row \in AllocationRows PROVE LineTax(row, k) \in Nat
  <2> DEFINE rows == {j \in DOMAIN row.taxes : row.taxes[j].line = k}
  <2>1. rows # {} => (CHOOSE j \in rows : TRUE) \in DOMAIN row.taxes
    OBVIOUS
  <2> QED
    BY <2>1, AllocationFields DEF LineTax
<1>4. ASSUME NEW k, NEW row \in AllocationRows
      PROVE  Collects(k)[row] = IF row.release_of = 0 THEN LineTax(row, k) ELSE -LineTax(row, k)
  BY DEF Collects
<1>5. \A k : Counted(Collects(k))
  BY <1>3, <1>4 DEF Counted
<1> QED
  BY <1>1, <1>2, <1>3, <1>4, <1>5

\* What each allocation counts for.
LEMMA EachRow ==
    ASSUME NEW a \in Seq(AllocationRows), NEW V, Counted(V)
    PROVE  /\ IsFiniteSet(DOMAIN a)
           /\ \A n \in DOMAIN a :
                  a[n] \in AllocationRows /\ Each(a, V)[n] = V[a[n]] /\ Each(a, V)[n] \in Int
<1>1. IsFiniteSet(DOMAIN a) /\ \A n \in DOMAIN a : a[n] \in AllocationRows
  BY SettlementRows
<1> QED
  BY <1>1 DEF Each, Counted

\* A sum over allocations is an integer.
LEMMA TotalInt ==
    ASSUME NEW a \in Seq(AllocationRows), NEW V, Counted(V), NEW events \in SUBSET DOMAIN a
    PROVE  Total(a, V, events) \in Int /\ IsFiniteSet(events)
<1>1. IsFiniteSet(DOMAIN a) /\ \A n \in DOMAIN a : Each(a, V)[n] \in Int
  BY EachRow
<1>2. IsFiniteSet(events) /\ \A n \in events : Each(a, V)[n] \in Int
  BY <1>1, FS_Subset
<1>3. SumFunctionOnSet(Each(a, V), events) \in Int
  BY <1>2, SumInt
<1> QED
  BY <1>2, <1>3 DEF Total

\* Rows appended to a sequence.
LEMMA Appended ==
    ASSUME NEW R, NEW a \in Seq(R), NEW rows \in Seq(R), NEW b, b = a \o rows
    PROVE  /\ b \in Seq(R) /\ Len(b) = Len(a) + Len(rows)
           /\ Len(a) \in Nat /\ Len(rows) \in Nat
           /\ DOMAIN a \subseteq DOMAIN b
           /\ \A n \in DOMAIN a : b[n] = a[n] /\ n \in Nat /\ n > 0
           /\ \A k \in DOMAIN rows : Len(a) + k \in DOMAIN b \ DOMAIN a /\ b[Len(a) + k] = rows[k]
           /\ \A n \in DOMAIN b \ DOMAIN a :
                  n - Len(a) \in DOMAIN rows /\ b[n] = rows[n - Len(a)] /\ n \in Nat
OBVIOUS

\* One row appended.
LEMMA AppendedOne ==
    ASSUME NEW R, NEW a \in Seq(R), NEW row \in R, NEW b, b = Append(a, row)
    PROVE  /\ b \in Seq(R) /\ Len(b) = Len(a) + 1 /\ Len(a) \in Nat /\ Len(b) \in Nat
           /\ DOMAIN b = DOMAIN a \cup {Len(b)} /\ Len(b) \notin DOMAIN a
           /\ \A n \in DOMAIN a : b[n] = a[n] /\ n \in Nat /\ n > 0
           /\ b[Len(b)] = row /\ Len(b) # 0
OBVIOUS

\* A sum over allocations after one more.
OneMore(a, b, n) ==
    DOMAIN b = DOMAIN a \cup {n} /\ n \notin DOMAIN a /\ \A i \in DOMAIN a : b[i] = a[i]

LEMMA TotalAppended ==
    ASSUME NEW a \in Seq(AllocationRows), NEW b \in Seq(AllocationRows), NEW n, OneMore(a, b, n),
           NEW V, Counted(V), NEW old \in SUBSET DOMAIN a, NEW events \in SUBSET DOMAIN b,
           events \cap DOMAIN a = old
    PROVE  /\ n \in events => Total(b, V, events) = Total(a, V, old) + V[b[n]]
           /\ n \notin events => Total(b, V, events) = Total(a, V, old)
           /\ Total(a, V, old) \in Int
<1> DEFINE f == Each(a, V)
           g == Each(b, V)
           D == DOMAIN a
           row == b[n]
<1>0. Total(a, V, old) \in Int
  BY TotalInt
<1>1. DOMAIN b = D \cup {n} /\ n \notin D /\ \A i \in D : b[i] = a[i]
  BY DEF OneMore
<1>2. IsFiniteSet(D) /\ \A i \in D : f[i] = V[a[i]] /\ f[i] \in Int
  BY EachRow
<1>3. \A i \in DOMAIN b : g[i] = V[b[i]] /\ g[i] \in Int
  BY EachRow
<1>4. (\A i \in D : f[i] \in Int /\ g[i] = f[i]) /\ g[n] \in Int /\ g[n] = V[row]
  BY <1>1, <1>2, <1>3
<1>5. old \in SUBSET D /\ events \in SUBSET (D \cup {n}) /\ events \cap D = old
  BY <1>1
<1> HIDE DEF f, g, D, row
<1>6. SumFunctionOnSet(g, events)
         = SumFunctionOnSet(f, old) + (IF n \in events THEN g[n] ELSE 0)
  <2>1. IsFiniteSet(D) /\ n \notin D
    BY <1>1, <1>2
  <2> QED
    BY ONLY <2>1, <1>4, <1>5, SumExtended
<1> QED
  BY <1>0, <1>4, <1>6 DEF Total, f, g, row

\* A sum over allocations does not grow with rows that do not count for anything positive.
LEMMA TotalLower ==
    ASSUME NEW a \in Seq(AllocationRows), NEW rows \in Seq(AllocationRows),
           NEW b, b = a \o rows, NEW V, Counted(V),
           \A k \in DOMAIN rows : V[rows[k]] <= 0,
           NEW old \in SUBSET DOMAIN a, NEW events \in SUBSET DOMAIN b,
           events \cap DOMAIN a = old
    PROVE  Total(b, V, events) <= Total(a, V, old)
<1> DEFINE f == Each(a, V)
           g == Each(b, V)
<1>1. /\ b \in Seq(AllocationRows) /\ \A n \in DOMAIN a : b[n] = a[n]
      /\ \A n \in DOMAIN b \ DOMAIN a : n - Len(a) \in DOMAIN rows /\ b[n] = rows[n - Len(a)]
  BY Appended
<1>2. \A n \in DOMAIN a : f[n] = V[a[n]]
  BY EachRow
<1>3. \A n \in DOMAIN b : g[n] = V[b[n]] /\ g[n] \in Int
  <2>1. b \in Seq(AllocationRows) /\ Counted(V)
    BY <1>1
  <2> QED
    BY ONLY <2>1, EachRow
<1>4. IsFiniteSet(events)
  BY <1>1, TotalInt
<1>6. \A n \in events : g[n] \in Int
  BY <1>3
<1>7. \A n \in old : f[n] = g[n]
  BY <1>1, <1>2, <1>3
<1>8. \A n \in events \ old : g[n] <= 0
  <2> TAKE n \in events \ old
  <2>1. n \in DOMAIN b \ DOMAIN a
    OBVIOUS
  <2> QED
    BY <1>1, <1>3, <2>1
<1>9. old \in SUBSET events
  OBVIOUS
<1> HIDE DEF f, g
<1>5. SumFunctionOnSet(g, events) <= SumFunctionOnSet(f, old)
  BY <1>4, <1>6, <1>7, <1>8, <1>9, SumLower
<1> QED
  BY <1>5 DEF Total, f, g

-----------------------------------------------------------------------------
(* What is left of an application, as a function of the allocations.       *)

ActiveIn(a, n) ==
    a[n].amount - SumFunctionOnSet([m \in ReleasesIn(a, n) |-> a[m].amount], ReleasesIn(a, n))
CapacityIn(a, n, k) ==
    a[n].taxes[k].amount
        - SumFunctionOnSet([m \in ReleasesIn(a, n) |-> a[m].taxes[k].amount], ReleasesIn(a, n))

\* A release repeats its application, line by line, and a row names a line once.
Repeats(a, row) ==
    /\ row.release_of \in DOMAIN a /\ a[row.release_of].release_of = 0
    /\ a[row.release_of].source = row.source /\ a[row.release_of].invoice = row.invoice
    /\ DOMAIN a[row.release_of].taxes = DOMAIN row.taxes
    /\ \A k \in DOMAIN row.taxes : a[row.release_of].taxes[k].line = row.taxes[k].line
LinesOnce(row) ==
    \A j, k \in DOMAIN row.taxes : j # k => row.taxes[j].line # row.taxes[k].line
Structure(a) ==
    \A n \in DOMAIN a :
        LinesOnce(a[n]) /\ (a[n].release_of # 0 => Repeats(a, a[n]))
Remains(a) ==
    \A n \in DOMAIN a : a[n].release_of = 0 =>
        ActiveIn(a, n) >= 0 /\ \A k \in DOMAIN a[n].taxes : CapacityIn(a, n, k) >= 0

\* Rows that release applications of a, each at most once and none beyond what is left.
Releasing(a, rows) ==
    /\ \A k \in DOMAIN rows :
           /\ Repeats(a, rows[k])
           /\ rows[k].amount <= ActiveIn(a, rows[k].release_of)
           /\ \A j \in DOMAIN rows[k].taxes :
                  rows[k].taxes[j].amount <= CapacityIn(a, rows[k].release_of, j)
    /\ \A j, k \in DOMAIN rows : j # k => rows[j].release_of # rows[k].release_of

\* What is left is an integer.
LEMMA RemainsInt ==
    ASSUME NEW a \in Seq(AllocationRows), NEW n \in DOMAIN a
    PROVE  /\ ActiveIn(a, n) \in Int /\ IsFiniteSet(ReleasesIn(a, n))
           /\ ReleasesIn(a, n) \subseteq DOMAIN a
           /\ Structure(a) /\ a[n].release_of = 0 =>
                  \A k \in DOMAIN a[n].taxes : CapacityIn(a, n, k) \in Int
<1>1. /\ IsFiniteSet(ReleasesIn(a, n)) /\ ReleasesIn(a, n) \subseteq DOMAIN a
      /\ \A m \in ReleasesIn(a, n) : a[m].release_of = n
      /\ \A m \in DOMAIN a : a[m] \in AllocationRows /\ m \in Nat /\ m > 0
  <2>1. ReleasesIn(a, n) \subseteq DOMAIN a
    BY DEF ReleasesIn
  <2> QED
    BY <2>1, SettlementRows, FS_Subset DEF ReleasesIn
<1>2. ActiveIn(a, n) \in Int
  <2> DEFINE f == [m \in ReleasesIn(a, n) |-> a[m].amount]
  <2>1. \A m \in ReleasesIn(a, n) : f[m] \in Int
    BY <1>1, AllocationFields
  <2>2. ActiveIn(a, n) = a[n].amount - SumFunctionOnSet(f, ReleasesIn(a, n))
    BY DEF ActiveIn
  <2>3. a[n].amount \in Int
    BY <1>1, AllocationFields
  <2> HIDE DEF f
  <2>4. SumFunctionOnSet(f, ReleasesIn(a, n)) \in Int
    BY <1>1, <2>1, SumInt
  <2> QED
    BY <2>2, <2>3, <2>4
<1>3. ASSUME Structure(a), a[n].release_of = 0, NEW k \in DOMAIN a[n].taxes
      PROVE  CapacityIn(a, n, k) \in Int
  <2> DEFINE f == [m \in ReleasesIn(a, n) |-> a[m].taxes[k].amount]
  <2>1. ASSUME NEW m \in ReleasesIn(a, n) PROVE f[m] \in Int
    <3>1. Repeats(a, a[m]) /\ a[m].release_of = n
      BY <1>1, <1>3 DEF Structure
    <3>2. k \in DOMAIN a[m].taxes
      BY <1>3, <3>1 DEF Repeats
    <3> QED
      BY <1>1, <3>2, AllocationFields
  <2>2. CapacityIn(a, n, k) = a[n].taxes[k].amount - SumFunctionOnSet(f, ReleasesIn(a, n))
    BY DEF CapacityIn
  <2>3. a[n].taxes[k].amount \in Int
    BY <1>1, <1>3, AllocationFields
  <2> HIDE DEF f
  <2>4. SumFunctionOnSet(f, ReleasesIn(a, n)) \in Int
    BY <1>1, <2>1, SumInt
  <2> QED
    BY <2>2, <2>3, <2>4
<1> QED
  BY <1>1, <1>2, <1>3

\* One more application leaves the others what they have, and nothing of it is released.
LEMMA ApplicationAdded ==
    ASSUME NEW a \in Seq(AllocationRows), Structure(a), Remains(a),
           NEW row \in AllocationRows, row.release_of = 0, LinesOnce(row),
           NEW b, b = Append(a, row)
    PROVE  /\ b \in Seq(AllocationRows) /\ Structure(b) /\ Remains(b)
           /\ \A n \in DOMAIN a : a[n].release_of = 0 => ActiveIn(b, n) = ActiveIn(a, n)
<1>1. /\ b \in Seq(AllocationRows) /\ DOMAIN b = DOMAIN a \cup {Len(b)} /\ Len(b) \notin DOMAIN a
      /\ \A n \in DOMAIN a : b[n] = a[n] /\ n \in Nat /\ n > 0
      /\ b[Len(b)] = row /\ Len(b) # 0
  BY AppendedOne
<1>2. \A n \in DOMAIN a : ReleasesIn(b, n) = ReleasesIn(a, n)
  BY <1>1 DEF ReleasesIn
<1>3. ReleasesIn(b, Len(b)) = {}
  BY <1>1 DEF ReleasesIn, Structure, Repeats
<1>4. Structure(b)
  <2> SUFFICES ASSUME NEW n \in DOMAIN b
               PROVE  LinesOnce(b[n]) /\ (b[n].release_of # 0 => Repeats(b, b[n]))
    BY DEF Structure
  <2>1. CASE n \in DOMAIN a
    <3>1. LinesOnce(a[n]) /\ (a[n].release_of # 0 => Repeats(a, a[n])) /\ b[n] = a[n]
      BY <1>1, <2>1 DEF Structure
    <3> QED
      BY <1>1, <3>1 DEF Repeats
  <2>2. CASE n = Len(b)
    BY <1>1, <2>2
  <2> QED
    BY <1>1, <2>1, <2>2
<1>5. ASSUME NEW n \in DOMAIN a, a[n].release_of = 0
      PROVE  /\ ActiveIn(b, n) = ActiveIn(a, n)
             /\ \A k \in DOMAIN a[n].taxes : CapacityIn(b, n, k) = CapacityIn(a, n, k)
  <2>1. ReleasesIn(b, n) = ReleasesIn(a, n) /\ b[n] = a[n]
    BY <1>1, <1>2, <1>5
  <2>2. IsFiniteSet(ReleasesIn(a, n)) /\ \A m \in ReleasesIn(a, n) : b[m] = a[m]
    BY <1>1, RemainsInt
  <2>3. ActiveIn(b, n) = ActiveIn(a, n)
    <3> DEFINE f == [m \in ReleasesIn(a, n) |-> a[m].amount]
               g == [m \in ReleasesIn(a, n) |-> b[m].amount]
    <3>1. \A m \in ReleasesIn(a, n) : f[m] = g[m]
      BY <2>2
    <3>2. /\ ActiveIn(a, n) = a[n].amount - SumFunctionOnSet(f, ReleasesIn(a, n))
          /\ ActiveIn(b, n) = b[n].amount - SumFunctionOnSet(g, ReleasesIn(a, n))
      BY <2>1 DEF ActiveIn
    <3> HIDE DEF f, g
    <3>3. SumFunctionOnSet(f, ReleasesIn(a, n)) = SumFunctionOnSet(g, ReleasesIn(a, n))
      BY <2>2, <3>1, SumSame
    <3> QED
      BY <2>1, <3>2, <3>3
  <2>4. ASSUME NEW k \in DOMAIN a[n].taxes PROVE CapacityIn(b, n, k) = CapacityIn(a, n, k)
    <3> DEFINE f == [m \in ReleasesIn(a, n) |-> a[m].taxes[k].amount]
               g == [m \in ReleasesIn(a, n) |-> b[m].taxes[k].amount]
    <3>1. \A m \in ReleasesIn(a, n) : f[m] = g[m]
      BY <2>2
    <3>2. /\ CapacityIn(a, n, k) = a[n].taxes[k].amount - SumFunctionOnSet(f, ReleasesIn(a, n))
          /\ CapacityIn(b, n, k) = b[n].taxes[k].amount - SumFunctionOnSet(g, ReleasesIn(a, n))
      BY <2>1 DEF CapacityIn
    <3> HIDE DEF f, g
    <3>3. SumFunctionOnSet(f, ReleasesIn(a, n)) = SumFunctionOnSet(g, ReleasesIn(a, n))
      BY <2>2, <3>1, SumSame
    <3> QED
      BY <2>1, <3>2, <3>3
  <2> QED
    BY <2>3, <2>4
<1>6. Remains(b)
  <2> SUFFICES ASSUME NEW n \in DOMAIN b, b[n].release_of = 0
               PROVE  ActiveIn(b, n) >= 0 /\ \A k \in DOMAIN b[n].taxes : CapacityIn(b, n, k) >= 0
    BY DEF Remains
  <2>1. CASE n \in DOMAIN a
    BY <1>1, <1>5, <2>1 DEF Remains
  <2>2. CASE n = Len(b)
    <3>1. ActiveIn(b, n) = row.amount
      <4> DEFINE f == [m \in ReleasesIn(b, n) |-> b[m].amount]
      <4>1. ActiveIn(b, n) = row.amount - SumFunctionOnSet(f, ReleasesIn(b, n))
        BY <1>1, <2>2 DEF ActiveIn
      <4> HIDE DEF f
      <4>2. SumFunctionOnSet(f, {}) = 0
        BY SumOfNone
      <4>3. SumFunctionOnSet(f, ReleasesIn(b, n)) = 0
        BY <1>3, <2>2, <4>2
      <4>4. row.amount \in Nat
        BY AllocationFields
      <4> QED
        BY <4>1, <4>3, <4>4
    <3>2. ASSUME NEW k \in DOMAIN row.taxes PROVE CapacityIn(b, n, k) = row.taxes[k].amount
      <4> DEFINE f == [m \in ReleasesIn(b, n) |-> b[m].taxes[k].amount]
      <4>1. CapacityIn(b, n, k) = row.taxes[k].amount - SumFunctionOnSet(f, ReleasesIn(b, n))
        BY <1>1, <2>2 DEF CapacityIn
      <4> HIDE DEF f
      <4>2. SumFunctionOnSet(f, {}) = 0
        BY SumOfNone
      <4>3. SumFunctionOnSet(f, ReleasesIn(b, n)) = 0
        BY <1>3, <2>2, <4>2
      <4>4. row.taxes[k].amount \in Nat
        BY AllocationFields
      <4> QED
        BY <4>1, <4>3, <4>4
    <3>3. row.amount \in Nat /\ \A k \in DOMAIN row.taxes : row.taxes[k].amount \in Nat
      BY AllocationFields
    <3> QED
      BY <1>1, <2>2, <3>1, <3>2, <3>3
  <2> QED
    BY <1>1, <2>1, <2>2
<1> QED
  BY <1>1, <1>4, <1>5, <1>6

\* An application of which nothing more, or what row says, has been released.
Untouched(a, b, n) ==
    /\ ActiveIn(b, n) = ActiveIn(a, n)
    /\ \A j \in DOMAIN a[n].taxes : CapacityIn(b, n, j) = CapacityIn(a, n, j)
Reduced(a, b, n, row) ==
    /\ ActiveIn(b, n) = ActiveIn(a, n) - row.amount
    /\ \A j \in DOMAIN a[n].taxes : CapacityIn(b, n, j) = CapacityIn(a, n, j) - row.taxes[j].amount

\* What is left of an application after rows were appended that release it at most once.
LEMMA ReleasedFrom ==
    ASSUME NEW a \in Seq(AllocationRows), Structure(a),
           NEW rows \in Seq(AllocationRows), Releasing(a, rows),
           NEW b, b = a \o rows, NEW n \in DOMAIN a, a[n].release_of = 0
    PROVE  /\ (\A k \in DOMAIN rows : rows[k].release_of # n) => Untouched(a, b, n)
           /\ \A k \in DOMAIN rows : rows[k].release_of = n => Reduced(a, b, n, rows[k])
<1>1. /\ b \in Seq(AllocationRows) /\ n \in DOMAIN b /\ b[n] = a[n]
      /\ \A m \in DOMAIN a : b[m] = a[m] /\ m \in DOMAIN b
      /\ \A k \in DOMAIN rows : Len(a) + k \in DOMAIN b \ DOMAIN a /\ b[Len(a) + k] = rows[k]
      /\ \A m \in DOMAIN b \ DOMAIN a :
             m - Len(a) \in DOMAIN rows /\ b[m] = rows[m - Len(a)] /\ m \in Nat
      /\ Len(a) \in Nat
  BY Appended
<1> DEFINE R == ReleasesIn(a, n)
           Q == ReleasesIn(b, n)
<1>2. /\ IsFiniteSet(R) /\ R \subseteq DOMAIN a /\ ActiveIn(a, n) \in Int
      /\ \A j \in DOMAIN a[n].taxes : CapacityIn(a, n, j) \in Int
      /\ \A m \in R : a[m].release_of = n /\ b[m] = a[m]
      /\ Q \cap DOMAIN a = R
  BY <1>1, RemainsInt DEF ReleasesIn
<1>3. ASSUME NEW m \in R
      PROVE  /\ a[m] \in AllocationRows /\ Repeats(a, a[m])
             /\ DOMAIN a[m].taxes = DOMAIN a[n].taxes
  BY SMTT(30), <1>2, EachRow, CountedRows DEF Structure, Repeats
<1>4. /\ a[n] \in AllocationRows /\ \A k \in DOMAIN rows : rows[k] \in AllocationRows
      /\ a[n].amount \in Int
  BY SettlementRows, AllocationFields
<1>5. ASSUME \A k \in DOMAIN rows : rows[k].release_of # n
      PROVE  Untouched(a, b, n)
  <2>1. Q = R
    BY <1>1, <1>2, <1>5 DEF ReleasesIn
  <2>2. ActiveIn(b, n) = ActiveIn(a, n)
    <3> DEFINE f == [m \in R |-> a[m].amount]
               g == [m \in R |-> b[m].amount]
    <3>1. \A m \in R : f[m] = g[m]
      BY <1>2
    <3>2. ActiveIn(b, n) = b[n].amount - SumFunctionOnSet(g, R)
      BY <2>1 DEF ActiveIn
    <3>3. ActiveIn(a, n) = a[n].amount - SumFunctionOnSet(f, R)
      BY DEF ActiveIn
    <3> HIDE DEF f, g, R
    <3>4. SumFunctionOnSet(f, R) = SumFunctionOnSet(g, R)
      BY <1>2, <3>1, SumSame
    <3> QED
      BY <1>1, <3>2, <3>3, <3>4
  <2>3. ASSUME NEW j \in DOMAIN a[n].taxes PROVE CapacityIn(b, n, j) = CapacityIn(a, n, j)
    <3> DEFINE f == [m \in R |-> a[m].taxes[j].amount]
               g == [m \in R |-> b[m].taxes[j].amount]
    <3>1. \A m \in R : f[m] = g[m]
      BY <1>2
    <3>2. CapacityIn(b, n, j) = b[n].taxes[j].amount - SumFunctionOnSet(g, R)
      BY <2>1 DEF CapacityIn
    <3>3. CapacityIn(a, n, j) = a[n].taxes[j].amount - SumFunctionOnSet(f, R)
      BY DEF CapacityIn
    <3> HIDE DEF f, g, R
    <3>4. SumFunctionOnSet(f, R) = SumFunctionOnSet(g, R)
      BY <1>2, <3>1, SumSame
    <3> QED
      BY <1>1, <3>2, <3>3, <3>4
  <2> QED
    BY <2>2, <2>3 DEF Untouched
<1>6. ASSUME NEW k \in DOMAIN rows, rows[k].release_of = n
      PROVE  Reduced(a, b, n, rows[k])
  <2> DEFINE x == Len(a) + k
  <2>1. x \notin DOMAIN a /\ x \in DOMAIN b /\ b[x] = rows[k]
    BY <1>1
  <2>2. Q = R \cup {x}
    <3>1. x \in Q
      BY <1>6, <2>1 DEF ReleasesIn
    <3>2. ASSUME NEW m \in Q, m \notin DOMAIN a PROVE m = x
      <4>1. /\ m - Len(a) \in DOMAIN rows /\ rows[m - Len(a)].release_of = n /\ m \in Nat
        BY <1>1, <3>2 DEF ReleasesIn
      <4>2. m - Len(a) = k
        BY <1>6, <4>1 DEF Releasing
      <4>3. k \in Nat
        BY SettlementRows
      <4> QED
        BY <1>1, <4>1, <4>2, <4>3
    <3> QED
      BY <1>2, <3>1, <3>2
  <2>3. Repeats(a, rows[k]) /\ DOMAIN rows[k].taxes = DOMAIN a[n].taxes
    BY <1>6 DEF Releasing, Repeats
  <2>4. rows[k].amount \in Int /\ \A j \in DOMAIN a[n].taxes : rows[k].taxes[j].amount \in Int
    <3>1. rows[k].amount \in Int /\ \A j \in DOMAIN rows[k].taxes : rows[k].taxes[j].amount \in Int
      BY <1>4, AllocationFields
    <3> QED
      BY <2>3, <3>1
  <2>5. x \notin R
    BY <1>2, <2>1
  <2> HIDE DEF x
  <2>6. ActiveIn(b, n) = ActiveIn(a, n) - rows[k].amount
    <3> DEFINE f == [m \in R |-> a[m].amount]
               g == [m \in Q |-> b[m].amount]
    <3>1. \A m \in R : f[m] \in Int /\ g[m] = f[m]
      BY <1>2, <1>3, <2>2, AllocationFields
    <3>2. g[x] = rows[k].amount
      BY <2>1, <2>2
    <3>3. ActiveIn(b, n) = b[n].amount - SumFunctionOnSet(g, Q)
      BY DEF ActiveIn
    <3>4. ActiveIn(a, n) = a[n].amount - SumFunctionOnSet(f, R)
      BY DEF ActiveIn
    <3> HIDE DEF f, g, R, Q
    <3>5. \A m \in R : g[m] \in Int
      BY <3>1
    <3>6. SumFunctionOnSet(g, R \cup {x}) = g[x] + SumFunctionOnSet(g, R)
      BY <1>2, <2>4, <2>5, <3>2, <3>5, SumAdd
    <3>7. SumFunctionOnSet(g, R) = SumFunctionOnSet(f, R) /\ SumFunctionOnSet(g, R) \in Int
      BY <1>2, <3>1, <3>5, SumSame, SumInt
    <3>8. SumFunctionOnSet(g, Q) = g[x] + SumFunctionOnSet(f, R)
      BY <2>2, <3>6, <3>7
    <3> QED
      BY <1>1, <1>4, <2>4, <3>2, <3>3, <3>4, <3>7, <3>8
  <2>7. ASSUME NEW j \in DOMAIN a[n].taxes
        PROVE  CapacityIn(b, n, j) = CapacityIn(a, n, j) - rows[k].taxes[j].amount
    <3> DEFINE f == [m \in R |-> a[m].taxes[j].amount]
               g == [m \in Q |-> b[m].taxes[j].amount]
    <3>1. ASSUME NEW m \in R PROVE f[m] \in Int /\ g[m] = f[m]
      <4>1. a[m] \in AllocationRows /\ j \in DOMAIN a[m].taxes
        BY <1>3
      <4>2. a[m].taxes[j].amount \in Int
        BY ONLY <4>1, AllocationFields
      <4> QED
        BY <1>2, <2>2, <4>2
    <3>2. g[x] = rows[k].taxes[j].amount
      BY <2>1, <2>2
    <3>3. CapacityIn(b, n, j) = b[n].taxes[j].amount - SumFunctionOnSet(g, Q)
      BY DEF CapacityIn
    <3>4. CapacityIn(a, n, j) = a[n].taxes[j].amount - SumFunctionOnSet(f, R)
      BY DEF CapacityIn
    <3>9. a[n].taxes[j].amount \in Int
      BY <1>4, AllocationFields
    <3> HIDE DEF f, g, R, Q
    <3>5. \A m \in R : g[m] \in Int
      BY <3>1
    <3>6. SumFunctionOnSet(g, R \cup {x}) = g[x] + SumFunctionOnSet(g, R)
      BY <1>2, <2>4, <2>5, <3>2, <3>5, SumAdd
    <3>7. SumFunctionOnSet(g, R) = SumFunctionOnSet(f, R) /\ SumFunctionOnSet(g, R) \in Int
      BY <1>2, <3>1, <3>5, SumSame, SumInt
    <3>8. SumFunctionOnSet(g, Q) = g[x] + SumFunctionOnSet(f, R)
      BY <2>2, <3>6, <3>7
    <3> QED
      BY <1>1, <2>4, <3>2, <3>3, <3>4, <3>7, <3>8, <3>9
  <2> QED
    BY <2>6, <2>7 DEF Reduced
<1> QED
  BY <1>5, <1>6

\* Releases keep the structure, and take no more than there is.
LEMMA ReleasesAdded ==
    ASSUME NEW a \in Seq(AllocationRows), Structure(a), Remains(a),
           NEW rows \in Seq(AllocationRows), Releasing(a, rows),
           NEW b, b = a \o rows
    PROVE  b \in Seq(AllocationRows) /\ Structure(b) /\ Remains(b)
<1>1. /\ b \in Seq(AllocationRows)
      /\ \A m \in DOMAIN a : b[m] = a[m] /\ m \in DOMAIN b /\ m > 0 /\ m \in Nat
      /\ \A m \in DOMAIN b \ DOMAIN a : m - Len(a) \in DOMAIN rows /\ b[m] = rows[m - Len(a)]
  BY Appended
<1>2. \A k \in DOMAIN rows : Repeats(a, rows[k])
  BY DEF Releasing
<1>3. \A row : Repeats(a, row) => Repeats(b, row) /\ row.release_of # 0
  BY <1>1 DEF Repeats
<1>4. Structure(b)
  <2> SUFFICES ASSUME NEW n \in DOMAIN b
               PROVE  LinesOnce(b[n]) /\ (b[n].release_of # 0 => Repeats(b, b[n]))
    BY DEF Structure
  <2>1. CASE n \in DOMAIN a
    BY <1>1, <1>3, <2>1 DEF Structure
  <2>2. CASE n \notin DOMAIN a
    <3>1. PICK k \in DOMAIN rows : b[n] = rows[k]
      BY <1>1, <2>2
    <3>2. Repeats(a, rows[k])
      BY <1>2
    <3>3. LinesOnce(a[rows[k].release_of])
      BY <3>2 DEF Structure, Repeats
    <3>4. LinesOnce(rows[k])
      BY <3>2, <3>3 DEF Repeats, LinesOnce
    <3> QED
      BY <1>3, <3>1, <3>2, <3>4
  <2> QED
    BY <2>1, <2>2
<1>5. ASSUME NEW n \in DOMAIN a, a[n].release_of = 0
      PROVE  ActiveIn(b, n) >= 0 /\ \A k \in DOMAIN a[n].taxes : CapacityIn(b, n, k) >= 0
  <2>1. ActiveIn(a, n) >= 0 /\ \A k \in DOMAIN a[n].taxes : CapacityIn(a, n, k) >= 0
    BY <1>5 DEF Remains
  <2>2. ActiveIn(a, n) \in Int /\ \A k \in DOMAIN a[n].taxes : CapacityIn(a, n, k) \in Int
    BY <1>5, RemainsInt
  <2>3. CASE \A k \in DOMAIN rows : rows[k].release_of # n
    <3>1. Untouched(a, b, n)
      BY <1>5, <2>3, ReleasedFrom
    <3> QED
      BY <2>1, <3>1 DEF Untouched
  <2>4. ASSUME NEW k \in DOMAIN rows, rows[k].release_of = n
        PROVE  ActiveIn(b, n) >= 0 /\ \A j \in DOMAIN a[n].taxes : CapacityIn(b, n, j) >= 0
    <3>1. /\ ActiveIn(b, n) = ActiveIn(a, n) - rows[k].amount
          /\ \A j \in DOMAIN a[n].taxes :
                 CapacityIn(b, n, j) = CapacityIn(a, n, j) - rows[k].taxes[j].amount
      <4>1. Reduced(a, b, n, rows[k])
        BY <1>5, <2>4, ReleasedFrom
      <4> QED
        BY <4>1 DEF Reduced
    <3>2. rows[k].amount <= ActiveIn(a, n) /\ DOMAIN rows[k].taxes = DOMAIN a[n].taxes
      BY <2>4 DEF Releasing, Repeats
    <3>3. \A j \in DOMAIN a[n].taxes : rows[k].taxes[j].amount <= CapacityIn(a, n, j)
      BY <2>4, <3>2 DEF Releasing
    <3>4. rows[k] \in AllocationRows
      BY SettlementRows
    <3>5. rows[k].amount \in Int /\ \A j \in DOMAIN rows[k].taxes : rows[k].taxes[j].amount \in Int
      BY <3>4, AllocationFields
    <3>6. ActiveIn(b, n) >= 0
      BY <2>2, <3>1, <3>2, <3>5
    <3>7. ASSUME NEW j \in DOMAIN a[n].taxes PROVE CapacityIn(b, n, j) >= 0
      <4> DEFINE t == rows[k].taxes[j].amount
                 c == CapacityIn(a, n, j)
      <4>1. t \in Int /\ c \in Int /\ t <= c
        BY <2>2, <3>2, <3>3, <3>5
      <4>2. CapacityIn(b, n, j) = c - t
        BY <3>1
      <4> HIDE DEF t, c
      <4> QED
        BY <4>1, <4>2
    <3> QED
      BY <3>6, <3>7
  <2> QED
    BY <2>3, <2>4
<1>6. Remains(b)
  <2> SUFFICES ASSUME NEW n \in DOMAIN b, b[n].release_of = 0
               PROVE  ActiveIn(b, n) >= 0 /\ \A k \in DOMAIN b[n].taxes : CapacityIn(b, n, k) >= 0
    BY DEF Remains
  <2>1. n \in DOMAIN a /\ a[n] = b[n] /\ a[n].release_of = 0
    BY <1>1, <1>2, <1>3
  <2> QED
    BY <1>5, <2>1
<1> QED
  BY <1>1, <1>4, <1>6

-----------------------------------------------------------------------------
(* An application and its releases, taken together.                        *)

\* The application counts for what is left of it.
LEMMA GroupActive ==
    ASSUME NEW a \in Seq(AllocationRows), NEW n \in DOMAIN a, a[n].release_of = 0
    PROVE  Total(a, Amounts, {n} \cup ReleasesIn(a, n)) = ActiveIn(a, n)
<1> DEFINE R == ReleasesIn(a, n)
           f == [m \in R |-> a[m].amount]
           g == Each(a, Amounts)
<1>3. n # 0
  BY SettlementRows
<1>1. /\ IsFiniteSet(R) /\ n \notin R
      /\ \A m \in R : m \in DOMAIN a /\ a[m].release_of = n
  BY <1>3, RemainsInt DEF ReleasesIn
<1>2. \A m \in DOMAIN a : a[m] \in AllocationRows /\ g[m] = Amounts[a[m]] /\ g[m] \in Int
  BY EachRow, CountedRows
<1>4. \A m \in R : f[m] = a[m].amount /\ a[m].amount \in Int /\ g[m] = -f[m]
  BY <1>1, <1>2, <1>3, AllocationFields, CountedRows
<1>5. g[n] = a[n].amount /\ g[n] \in Int /\ \A m \in R : g[m] \in Int
  BY <1>1, <1>2, CountedRows
<1>6. ActiveIn(a, n) = g[n] - SumFunctionOnSet(f, R)
  BY <1>5 DEF ActiveIn
<1>7. Total(a, Amounts, {n} \cup R) = SumFunctionOnSet(g, R \cup {n})
  <2>1. {n} \cup R = R \cup {n}
    OBVIOUS
  <2> QED
    BY <2>1 DEF Total
<1> HIDE DEF R, f, g
<1>8. SumFunctionOnSet(g, R \cup {n}) = g[n] + SumFunctionOnSet(g, R)
  BY <1>1, <1>5, SumAdd
<1>9. SumFunctionOnSet(f, R) \in Int /\ SumFunctionOnSet(g, R) = -SumFunctionOnSet(f, R)
  BY <1>1, <1>4, SumNegated
<1>10. Total(a, Amounts, {n} \cup R) = ActiveIn(a, n)
  BY <1>5, <1>6, <1>7, <1>8, <1>9
<1> QED
  BY <1>10 DEF R

\* The tax of a row on a line.
LEMMA LineTaxIs ==
    ASSUME NEW row, LinesOnce(row), NEW k
    PROVE  /\ (\A j \in DOMAIN row.taxes : row.taxes[j].line # k) => LineTax(row, k) = 0
           /\ \A j \in DOMAIN row.taxes :
                  row.taxes[j].line = k => LineTax(row, k) = row.taxes[j].amount
<1> DEFINE rows == {j \in DOMAIN row.taxes : row.taxes[j].line = k}
<1>1. LineTax(row, k) = IF rows = {} THEN 0 ELSE row.taxes[CHOOSE j \in rows : TRUE].amount
  BY DEF LineTax
<1>2. ASSUME \A j \in DOMAIN row.taxes : row.taxes[j].line # k PROVE rows = {}
  BY <1>2
<1>3. ASSUME NEW j \in DOMAIN row.taxes, row.taxes[j].line = k
      PROVE  rows # {} /\ (CHOOSE x \in rows : TRUE) = j
  <2>1. j \in rows
    BY <1>3
  <2>2. (CHOOSE x \in rows : TRUE) \in rows
    BY <2>1
  <2> QED
    BY <1>3, <2>1, <2>2 DEF LinesOnce
<1> HIDE DEF rows
<1> QED
  BY <1>1, <1>2, <1>3

\* The application and its releases never collect a negative tax on a line.
LEMMA GroupTax ==
    ASSUME NEW a \in Seq(AllocationRows), Structure(a), Remains(a),
           NEW n \in DOMAIN a, a[n].release_of = 0, NEW k
    PROVE  Total(a, Collects(k), {n} \cup ReleasesIn(a, n)) >= 0
<1> DEFINE R == ReleasesIn(a, n)
           g == Each(a, Collects(k))
<1>3. n # 0
  BY SettlementRows
<1>1. /\ IsFiniteSet(R) /\ n \notin R
      /\ \A m \in R : m \in DOMAIN a /\ a[m].release_of = n
  BY <1>3, RemainsInt DEF ReleasesIn
<1>2. \A m \in DOMAIN a : a[m] \in AllocationRows /\ g[m] = Collects(k)[a[m]] /\ g[m] \in Int
  BY EachRow, CountedRows
<1>4. /\ g[n] = LineTax(a[n], k) /\ g[n] \in Int
      /\ \A m \in R : g[m] = -LineTax(a[m], k) /\ g[m] \in Int
  BY <1>1, <1>2, <1>3, CountedRows
<1>5. LinesOnce(a[n]) /\ \A m \in R : LinesOnce(a[m])
  BY <1>1 DEF Structure
<1>6. \A m \in R : /\ DOMAIN a[n].taxes = DOMAIN a[m].taxes
                   /\ \A j \in DOMAIN a[m].taxes : a[n].taxes[j].line = a[m].taxes[j].line
  BY <1>1, <1>3 DEF Structure, Repeats
<1>7. Total(a, Collects(k), {n} \cup R) = SumFunctionOnSet(g, R \cup {n})
  <2>1. {n} \cup R = R \cup {n}
    OBVIOUS
  <2> QED
    BY <2>1 DEF Total
<1> SUFFICES SumFunctionOnSet(g, R \cup {n}) >= 0
  BY <1>7
<1>8. SumFunctionOnSet(g, R \cup {n}) = g[n] + SumFunctionOnSet(g, R)
  <2> HIDE DEF R, g
  <2> QED
    BY <1>1, <1>4, SumAdd
<1>9. CASE \A j \in DOMAIN a[n].taxes : a[n].taxes[j].line # k
  <2>1. g[n] = 0
    BY <1>4, <1>5, <1>9, LineTaxIs
  <2>2. ASSUME NEW m \in R PROVE g[m] = 0
    <3>1. \A j \in DOMAIN a[m].taxes : a[m].taxes[j].line # k
      BY <1>6, <1>9
    <3>2. LineTax(a[m], k) = 0
      BY <1>5, <3>1, LineTaxIs
    <3> QED
      BY <1>4, <3>2
  <2> HIDE DEF R, g
  <2>3. SumFunctionOnSet(g, R) = 0
    BY <1>1, <2>2, SumZero
  <2> QED
    BY <1>8, <2>1, <2>3
<1>10. ASSUME NEW j \in DOMAIN a[n].taxes, a[n].taxes[j].line = k
       PROVE  SumFunctionOnSet(g, R \cup {n}) >= 0
  <2> DEFINE f == [m \in R |-> a[m].taxes[j].amount]
  <2>1. g[n] = a[n].taxes[j].amount
    BY <1>4, <1>5, <1>10, LineTaxIs
  <2>2. ASSUME NEW m \in R PROVE f[m] \in Int /\ g[m] = -f[m]
    <3>1. j \in DOMAIN a[m].taxes /\ a[m].taxes[j].line = k
      BY <1>6, <1>10
    <3>2. LineTax(a[m], k) = a[m].taxes[j].amount
      BY <1>5, <3>1, LineTaxIs
    <3>3. a[m].taxes[j].amount \in Int
      BY <1>1, <1>2, <3>1, AllocationFields
    <3> QED
      BY <1>4, <3>2, <3>3
  <2>3. CapacityIn(a, n, j) = g[n] - SumFunctionOnSet(f, R)
    BY <2>1 DEF CapacityIn
  <2>4. CapacityIn(a, n, j) >= 0
    BY <1>10 DEF Remains
  <2> HIDE DEF R, g, f
  <2>5. SumFunctionOnSet(f, R) \in Int /\ SumFunctionOnSet(g, R) = -SumFunctionOnSet(f, R)
    BY <1>1, <2>2, SumNegated
  <2> QED
    BY <1>4, <1>8, <2>3, <2>4, <2>5
<1> QED
  BY <1>9, <1>10

\* Events that hold the releases of every application among them, and none of others.
Whole(a, events) ==
    /\ events \subseteq DOMAIN a
    /\ \A m \in DOMAIN a : a[m].release_of # 0 => (m \in events <=> a[m].release_of \in events)

\* Such events together count for what their applications count for.
LEMMA GroupTotal ==
    ASSUME NEW a \in Seq(AllocationRows), Structure(a), NEW V, Counted(V),
           NEW events, Whole(a, events)
    PROVE  /\ (\A n \in events : a[n].release_of = 0 =>
                   Total(a, V, {n} \cup ReleasesIn(a, n)) >= 0) => Total(a, V, events) >= 0
           /\ (\A n \in events : a[n].release_of = 0 =>
                   Total(a, V, {n} \cup ReleasesIn(a, n)) = 0) => Total(a, V, events) = 0
<1> DEFINE f == Each(a, V)
           h == [n \in events |-> IF a[n].release_of = 0 THEN n ELSE a[n].release_of]
           g == [t \in events |-> SumFunctionOnSet(f, Group(h, events, t))]
<1>1. events \in SUBSET DOMAIN a
  BY DEF Whole
<1>2. IsFiniteSet(events) /\ \A n \in events : f[n] \in Int
  BY <1>1, TotalInt, EachRow
<1>3. \A n \in events : h[n] \in events /\ a[h[n]].release_of = 0
  BY <1>1 DEF Whole, Structure, Repeats
<1>4. Total(a, V, events) = SumFunctionOnSet(g, events)
  <2>1. \A t \in events : g[t] = SumFunctionOnSet(f, Group(h, events, t))
    OBVIOUS
  <2> HIDE DEF f, g, h
  <2>2. SumFunctionOnSet(f, events) = SumFunctionOnSet(g, events)
    BY ONLY <1>2, <1>3, <2>1, SumByFibre
  <2> QED
    BY <2>2 DEF Total, f
<1>5. ASSUME NEW t \in events, a[t].release_of = 0
      PROVE  g[t] = Total(a, V, {t} \cup ReleasesIn(a, t))
  <2>0. t # 0
    BY <1>1, SettlementRows
  <2>1. Group(h, events, t) = {t} \cup ReleasesIn(a, t)
    <3>1. ASSUME NEW n \in Group(h, events, t) PROVE n \in {t} \cup ReleasesIn(a, t)
      BY <1>1 DEF Group, ReleasesIn
    <3>2. ASSUME NEW n \in ReleasesIn(a, t) PROVE n \in Group(h, events, t)
      <4>1. n \in DOMAIN a /\ a[n].release_of = t
        BY DEF ReleasesIn
      <4>2. n \in events
        BY <2>0, <4>1 DEF Whole
      <4> QED
        BY <2>0, <4>1, <4>2 DEF Group
    <3>3. t \in Group(h, events, t)
      BY <1>5 DEF Group
    <3> QED
      BY <3>1, <3>2, <3>3
  <2> QED
    BY <2>1 DEF Total
<1>6. ASSUME NEW t \in events, a[t].release_of # 0 PROVE g[t] = 0
  <2>1. Group(h, events, t) = {}
    BY <1>3, <1>6 DEF Group
  <2>2. SumFunctionOnSet(f, {}) = 0
    BY SumOfNone
  <2> QED
    BY <2>1, <2>2
<1>7. \A t \in events : g[t] \in Int
  <2> TAKE t \in events
  <2>1. Group(h, events, t) \in SUBSET DOMAIN a
    BY <1>1 DEF Group
  <2>2. Total(a, V, Group(h, events, t)) \in Int
    BY <2>1, TotalInt
  <2> QED
    BY <2>2 DEF Total
<1>8. ASSUME \A n \in events : a[n].release_of = 0 =>
                 Total(a, V, {n} \cup ReleasesIn(a, n)) >= 0
      PROVE  Total(a, V, events) >= 0
  <2>1. ASSUME NEW t \in events PROVE g[t] \in Nat
    <3>1. a[t].release_of = 0 => g[t] >= 0
      BY <1>5, <1>8
    <3>2. g[t] \in Int /\ (a[t].release_of # 0 => g[t] = 0)
      BY <1>6, <1>7
    <3> HIDE DEF g
    <3> QED
      BY <3>1, <3>2
  <2> HIDE DEF g
  <2>2. SumFunctionOnSet(g, events) \in Nat
    BY <1>2, <2>1, SumNat
  <2> QED
    BY <1>4, <2>2
<1>9. ASSUME \A n \in events : a[n].release_of = 0 =>
                 Total(a, V, {n} \cup ReleasesIn(a, n)) = 0
      PROVE  Total(a, V, events) = 0
  <2>1. \A t \in events : g[t] = 0
    BY <1>5, <1>6, <1>9
  <2> HIDE DEF g
  <2>2. SumFunctionOnSet(g, events) = 0
    BY <1>2, <2>1, SumZero
  <2> QED
    BY <1>4, <2>2
<1> QED
  BY <1>8, <1>9

\* The events of an invoice are such events, and those of a source too.
LEMMA WholeGroups ==
    ASSUME NEW a, Structure(a)
    PROVE  (\A i : Whole(a, ByInvoice(a, i))) /\ (\A s : Whole(a, BySource(a, s)))
BY DEF Whole, ByInvoice, BySource, Structure, Repeats

\* The tax that the allocations of an invoice collect on a line is not negative.
LEMMA CollectedNonneg ==
    ASSUME NEW a \in Seq(AllocationRows), Structure(a), Remains(a), NEW i, NEW k
    PROVE  Total(a, Collects(k), ByInvoice(a, i)) >= 0
<1>1. \A n \in ByInvoice(a, i) : n \in DOMAIN a
  BY DEF ByInvoice
<1>2. \A n \in ByInvoice(a, i) : a[n].release_of = 0 =>
          Total(a, Collects(k), {n} \cup ReleasesIn(a, n)) >= 0
  BY <1>1, GroupTax
<1> QED
  BY <1>2, GroupTotal, WholeGroups, CountedRows

\* A source of which nothing is left applied has nothing applied on balance.
LEMMA NothingApplied ==
    ASSUME NEW a \in Seq(AllocationRows), Structure(a), NEW s,
           \A n \in BySource(a, s) : a[n].release_of = 0 => ActiveIn(a, n) = 0
    PROVE  Total(a, Amounts, BySource(a, s)) = 0
<1>1. \A n \in BySource(a, s) : n \in DOMAIN a
  BY DEF BySource
<1>2. \A n \in BySource(a, s) : a[n].release_of = 0 =>
          Total(a, Amounts, {n} \cup ReleasesIn(a, n)) = 0
  BY <1>1, GroupActive
<1> QED
  BY <1>2, GroupTotal, WholeGroups, CountedRows

\* All the allocations, by invoice and by source.
LEMMA TotalBy ==
    ASSUME NEW a \in Seq(AllocationRows), NEW I, IsFiniteSet(I), NEW S, IsFiniteSet(S),
           \A n \in DOMAIN a : a[n].invoice \in I /\ a[n].source \in S
    PROVE  /\ Total(a, Amounts, DOMAIN a)
                 = SumFunctionOnSet([i \in I |-> Total(a, Amounts, ByInvoice(a, i))], I)
           /\ Total(a, Amounts, DOMAIN a)
                 = SumFunctionOnSet([s \in S |-> Total(a, Amounts, BySource(a, s))], S)
<1> DEFINE f == Each(a, Amounts)
           h == [n \in DOMAIN a |-> a[n].invoice]
           k == [n \in DOMAIN a |-> a[n].source]
           F == [i \in I |-> Total(a, Amounts, ByInvoice(a, i))]
           K == [s \in S |-> Total(a, Amounts, BySource(a, s))]
           D == DOMAIN a
<1>1. IsFiniteSet(D) /\ \A n \in D : h[n] \in I /\ k[n] \in S /\ f[n] \in Int
  BY EachRow, CountedRows
<1>2. \A i \in I : F[i] = SumFunctionOnSet(f, Group(h, D, i))
  <2> TAKE i \in I
  <2>1. Group(h, D, i) = ByInvoice(a, i)
    BY DEF Group, ByInvoice
  <2> QED
    BY <2>1 DEF Total
<1>3. \A s \in S : K[s] = SumFunctionOnSet(f, Group(k, D, s))
  <2> TAKE s \in S
  <2>1. Group(k, D, s) = BySource(a, s)
    BY DEF Group, BySource
  <2> QED
    BY <2>1 DEF Total
<1>4. Total(a, Amounts, DOMAIN a) = SumFunctionOnSet(f, D)
  BY DEF Total
<1> HIDE DEF f, h, k, F, K, D
<1>5. SumFunctionOnSet(f, D) = SumFunctionOnSet(F, I)
  BY <1>1, <1>2, SumByFibre
<1>6. SumFunctionOnSet(f, D) = SumFunctionOnSet(K, S)
  BY <1>1, <1>3, SumByFibre
<1> QED
  BY <1>4, <1>5, <1>6 DEF F, K

-----------------------------------------------------------------------------
(* What the services read, in these terms.                                 *)

PostedRefunds(st) == {p \in Refunds : st[p] = "POSTED"}
TakenIn(st, rf, s) == SumFunctionOnSet([p \in Refunds |-> rf[p][s]], PostedRefunds(st))
DueIn(a, i) == Value(i) - Total(a, Amounts, ByInvoice(a, i))
AvailableIn(a, st, rf, s) ==
    IF st[s] = "REVERSED" THEN 0
    ELSE Value(s) - Total(a, Amounts, BySource(a, s)) - TakenIn(st, rf, s)

\* What the allocations of a set apply up to a date.
LEMMA AppliedIs ==
    SettlementTypeOK =>
        \A events \in SUBSET DOMAIN allocations : \A day :
            applied(events, day) = Total(allocations, Amounts, UpTo(allocations, events, day))
<1> SUFFICES ASSUME SettlementTypeOK, NEW events \in SUBSET DOMAIN allocations, NEW day
             PROVE  applied(events, day)
                        = Total(allocations, Amounts, UpTo(allocations, events, day))
  OBVIOUS
<1>1. allocations \in Seq(AllocationRows)
  BY DEF SettlementTypeOK
<1> DEFINE f == [n \in DOMAIN allocations |-> Signed(n, allocations[n].amount)]
           g == Each(allocations, Amounts)
           E == UpTo(allocations, events, day)
<1>2. E \in SUBSET DOMAIN allocations
  BY DEF UpTo
<1>3. IsFiniteSet(E)
  BY <1>1, <1>2, TotalInt, CountedRows
<1>4. ASSUME NEW n \in DOMAIN allocations PROVE f[n] = g[n]
  <2>1. allocations[n] \in AllocationRows /\ g[n] = Amounts[allocations[n]]
    BY <1>1, EachRow, CountedRows
  <2> QED
    BY <2>1, CountedRows DEF Signed
<1>5. applied(events, day) = SumFunctionOnSet(f, E)
  BY DEF applied, UpTo
<1>6. Total(allocations, Amounts, E) = SumFunctionOnSet(g, E)
  BY DEF Total
<1>7. \A n \in E : f[n] = g[n]
  BY <1>2, <1>4
<1> HIDE DEF f, g, E
<1>8. SumFunctionOnSet(f, E) = SumFunctionOnSet(g, E)
  BY <1>3, <1>7, SumSame
<1>9. applied(events, day) = Total(allocations, Amounts, E)
  BY <1>5, <1>6, <1>8
<1> QED
  BY <1>9 DEF E

\* No allocation is dated after Today.
LEMMA UpToToday ==
    ASSUME NEW a \in Seq(AllocationRows), NEW events \in SUBSET DOMAIN a
    PROVE  UpTo(a, events, Today) = events
<1>1. \A n \in events : a[n].date <= Today
  BY SettlementRows, AllocationFields
<1> QED
  BY <1>1 DEF UpTo

\* The tax that is collected on a line.
LEMMA CollectedIs ==
    SettlementTypeOK =>
        \A i, k : tax_collected(i, k) = Total(allocations, Collects(k), ByInvoice(allocations, i))
<1> SUFFICES ASSUME SettlementTypeOK, NEW i, NEW k
             PROVE  tax_collected(i, k)
                        = Total(allocations, Collects(k), ByInvoice(allocations, i))
  OBVIOUS
<1>1. allocations \in Seq(AllocationRows)
  BY DEF SettlementTypeOK
<1> DEFINE f == [n \in DOMAIN allocations |-> Signed(n, TaxOn(n, k))]
           g == Each(allocations, Collects(k))
           E == ByInvoice(allocations, i)
<1>2. E \in SUBSET DOMAIN allocations
  BY DEF ByInvoice
<1>3. IsFiniteSet(E)
  BY <1>1, <1>2, TotalInt, CountedRows
<1>4. ASSUME NEW n \in DOMAIN allocations PROVE f[n] = g[n]
  <2>1. allocations[n] \in AllocationRows /\ g[n] = Collects(k)[allocations[n]]
    BY <1>1, EachRow, CountedRows
  <2>2. TaxOn(n, k) = LineTax(allocations[n], k)
    BY DEF TaxOn, LineTax
  <2> QED
    BY <2>1, <2>2, CountedRows DEF Signed
<1>5. tax_collected(i, k) = SumFunctionOnSet(f, E)
  BY DEF tax_collected, OfInvoice, ByInvoice
<1>6. Total(allocations, Collects(k), E) = SumFunctionOnSet(g, E)
  BY DEF Total
<1>7. \A n \in E : f[n] = g[n]
  BY <1>2, <1>4
<1> HIDE DEF f, g, E
<1>8. SumFunctionOnSet(f, E) = SumFunctionOnSet(g, E)
  BY <1>3, <1>7, SumSame
<1>9. tax_collected(i, k) = Total(allocations, Collects(k), E)
  BY <1>5, <1>6, <1>8
<1> QED
  BY <1>9 DEF E

\* The date of a posting is the date of its one entry.
LEMMA PostingDates ==
    SettlementTypeOK /\ EntriesFit =>
        /\ \A r \in FinancialRecords : status[r] # "APPROVED" =>
               /\ DateOf(r) \in AccountingDates
               /\ \E e \in entries : e.record = r /\ e.event = "POST" /\ e.date = DateOf(r)
        /\ \A e \in entries : e.event = "POST" =>
               DateOf(e.record) = e.date /\ status[e.record] # "APPROVED"
<1> SUFFICES ASSUME SettlementTypeOK, EntriesFit
             PROVE  /\ \A r \in FinancialRecords : status[r] # "APPROVED" =>
                           /\ DateOf(r) \in AccountingDates
                           /\ \E e \in entries :
                                  e.record = r /\ e.event = "POST" /\ e.date = DateOf(r)
                    /\ \A e \in entries : e.event = "POST" =>
                           DateOf(e.record) = e.date /\ status[e.record] # "APPROVED"
  OBVIOUS
<1>1. \A e \in entries : /\ e.record \in FinancialRecords /\ e.date \in AccountingDates
                         /\ e.event \in {"POST", "REVERSE"}
  BY DEF SettlementTypeOK
<1>2. ASSUME NEW r \in FinancialRecords, status[r] # "APPROVED"
      PROVE  /\ DateOf(r) \in AccountingDates
             /\ \E e \in entries : e.record = r /\ e.event = "POST" /\ e.date = DateOf(r)
  <2> DEFINE E == CHOOSE e \in entries : e.record = r /\ e.event = "POST"
  <2>1. \E e \in entries : e.record = r /\ e.event = "POST"
    BY <1>2 DEF EntriesFit
  <2>2. E \in entries /\ E.record = r /\ E.event = "POST"
    BY <2>1
  <2>3. DateOf(r) = E.date
    BY DEF DateOf
  <2> QED
    BY <1>1, <2>2, <2>3
<1>3. ASSUME NEW e \in entries, e.event = "POST"
      PROVE  DateOf(e.record) = e.date /\ status[e.record] # "APPROVED"
  <2>1. e.record \in FinancialRecords /\ status[e.record] # "APPROVED"
    BY <1>1, <1>3 DEF EntriesFit
  <2>2. PICK x \in entries :
            x.record = e.record /\ x.event = "POST" /\ x.date = DateOf(e.record)
    BY <1>2, <2>1
  <2>3. x = e
    BY <1>3, <2>1, <2>2 DEF EntriesFit
  <2> QED
    BY <2>1, <2>2, <2>3
<1> QED
  BY <1>2, <1>3

\* The refunds that count today are those that stand.
LEMMA RefundingToday ==
    SettlementTypeOK /\ EntriesFit => Refunding(Today) = PostedRefunds(status)
<1> SUFFICES ASSUME SettlementTypeOK, EntriesFit
             PROVE  Refunding(Today) = PostedRefunds(status)
  OBVIOUS
<1>1. ASSUME NEW p \in Refunds PROVE p \in Refunding(Today) <=> status[p] = "POSTED"
  <2>1. p \in FinancialRecords
    BY DEF FinancialRecords
  <2>2. status[p] \in {"APPROVED", "POSTED", "REVERSED"}
    BY <2>1 DEF SettlementTypeOK
  <2>3. status[p] # "APPROVED" => DateOf(p) <= Today
    BY <2>1, PostingDates, SettlementConstants DEF AccountingDates
  <2>4. ReversedBy(p, Today) <=> status[p] = "REVERSED"
    BY <2>1 DEF EntriesFit
  <2> QED
    BY <2>2, <2>3, <2>4 DEF Refunding, Paid
<1>2. \A p \in Refunding(Today) : p \in Refunds
  BY DEF Refunding, Paid
<1> QED
  BY <1>1, <1>2 DEF PostedRefunds

\* What is due on an invoice and available of a source today.
LEMMA CurrentFigures ==
    SettlementTypeOK /\ EntriesFit =>
        /\ \A i : invoice_due(i, Today) = DueIn(allocations, i)
        /\ \A s \in FinancialRecords :
               source_available(s, Today) = AvailableIn(allocations, status, refunds, s)
<1> SUFFICES ASSUME SettlementTypeOK, EntriesFit
             PROVE  /\ \A i : invoice_due(i, Today) = DueIn(allocations, i)
                    /\ \A s \in FinancialRecords :
                          source_available(s, Today)
                              = AvailableIn(allocations, status, refunds, s)
  OBVIOUS
<1>1. allocations \in Seq(AllocationRows)
  BY DEF SettlementTypeOK
<1>2. ASSUME NEW i PROVE invoice_due(i, Today) = DueIn(allocations, i)
  <2>1. OfInvoice(i) = ByInvoice(allocations, i) /\ ByInvoice(allocations, i) \in SUBSET DOMAIN allocations
    BY DEF OfInvoice, ByInvoice
  <2>2. applied(OfInvoice(i), Today)
           = Total(allocations, Amounts, UpTo(allocations, ByInvoice(allocations, i), Today))
    BY <2>1, AppliedIs
  <2>3. UpTo(allocations, ByInvoice(allocations, i), Today) = ByInvoice(allocations, i)
    BY <1>1, <2>1, UpToToday
  <2> QED
    BY <2>2, <2>3 DEF invoice_due, DueIn
<1>3. ASSUME NEW s \in FinancialRecords
      PROVE  source_available(s, Today) = AvailableIn(allocations, status, refunds, s)
  <2>1. OfSource(s) = BySource(allocations, s) /\ BySource(allocations, s) \in SUBSET DOMAIN allocations
    BY DEF OfSource, BySource
  <2>2. applied(OfSource(s), Today)
           = Total(allocations, Amounts, UpTo(allocations, BySource(allocations, s), Today))
    BY <2>1, AppliedIs
  <2>3. UpTo(allocations, BySource(allocations, s), Today) = BySource(allocations, s)
    BY <1>1, <2>1, UpToToday
  <2>4. ReversedBy(s, Today) <=> status[s] = "REVERSED"
    BY DEF EntriesFit
  <2>5. Taken(s, Refunding(Today)) = TakenIn(status, refunds, s)
    BY RefundingToday DEF Taken, TakenIn
  <2> QED
    BY <2>2, <2>3, <2>4, <2>5 DEF source_available, AvailableIn
<1> QED
  BY <1>2, <1>3

\* What is left of the allocations.
LEMMA LeftFigures ==
    /\ \A n : Active(n) = ActiveIn(allocations, n)
    /\ \A n, k : Capacity(n, k) = CapacityIn(allocations, n, k)
<1>1. ASSUME NEW n PROVE Active(n) = ActiveIn(allocations, n)
  BY DEF Active, ActiveIn, Releases, ReleasesIn
<1>2. ASSUME NEW n, NEW k PROVE Capacity(n, k) = CapacityIn(allocations, n, k)
  BY DEF Capacity, CapacityIn, Releases, ReleasesIn
<1> QED
  BY <1>1, <1>2

-----------------------------------------------------------------------------
(* What a release adds.                                                    *)

LEMMA LeastIs ==
    \A x, y \in Int : Least(x, y) \in Int /\ Least(x, y) <= x /\ Least(x, y) <= y
                      /\ (Least(x, y) = x \/ Least(x, y) = y)
BY DEF Least

LEMMA PositiveIs ==
    \A x \in Int : Positive(x) \in Nat /\ Positive(x) >= x /\ (Positive(x) > 0 => Positive(x) = x)
BY DEF Positive

LEMMA RoundedInt == \A n \in Int : \A d \in Nat \ {0} : Rounded(n, d) \in Int
<1> SUFFICES ASSUME NEW n \in Int, NEW d \in Nat \ {0} PROVE (2 * n + d) \div (2 * d) \in Int
  BY DEF Rounded
<1>1. 2 * n + d \in Int /\ 2 * d \in Nat /\ 2 * d > 0
  OBVIOUS
<1> QED
  BY <1>1

\* What the invariant says of the allocations.
Linked(a, st) ==
    \A n \in DOMAIN a : st[a[n].source] # "APPROVED" /\ st[a[n].invoice] = "POSTED"

LEMMA AllocationParts ==
    AllocationsFit <=> Structure(allocations) /\ Linked(allocations, status)
BY DEF AllocationsFit, Structure, Linked, LinesOnce, Repeats

LEMMA RemainsParts ==
    Remains(allocations) <=>
        /\ TaxesFit
        /\ \A n \in DOMAIN allocations : allocations[n].release_of = 0 => Active(n) >= 0
<1>1. Remains(allocations) =>
        /\ TaxesFit
        /\ \A n \in DOMAIN allocations : allocations[n].release_of = 0 => Active(n) >= 0
  BY LeftFigures DEF Remains, TaxesFit
<1>2. /\ TaxesFit
      /\ \A n \in DOMAIN allocations : allocations[n].release_of = 0 => Active(n) >= 0
      => Remains(allocations)
  BY LeftFigures DEF Remains, TaxesFit
<1> QED
  BY <1>1, <1>2

\* The tax of an allocation.
LEMMA TaxOfNat ==
    ASSUME SettlementTypeOK, NEW n \in DOMAIN allocations
    PROVE  TaxOf(n) \in Nat
<1> DEFINE t == allocations[n].taxes
           f == [k \in DOMAIN t |-> t[k].amount]
<1>1. allocations[n] \in AllocationRows
  BY SettlementRows DEF SettlementTypeOK
<1>2. /\ t \in Seq([line : Nat, amount : Nat])
      /\ \A k \in DOMAIN t : f[k] \in Nat
  BY <1>1, AllocationFields
<1>3. IsFiniteSet(DOMAIN t)
  <2> DEFINE R == [line : Nat, amount : Nat]
  <2>1. t \in Seq(R)
    BY <1>2
  <2> HIDE DEF R, t
  <2> QED
    BY <2>1, SettlementRows
<1>4. TaxOf(n) = SumFunctionOnSet(f, DOMAIN t)
  BY DEF TaxOf
<1> HIDE DEF t, f
<1> QED
  BY <1>2, <1>3, <1>4, SumNat

\* What a release of value gives back is a whole amount.
LEMMA ReleasedTaxInt ==
    ASSUME SettlementTypeOK, NEW n \in DOMAIN allocations, NEW value \in Nat
    PROVE  ReleasedTax(n, value) \in Int
<1>1. TaxOf(n) \in Nat
  BY TaxOfNat
<1>2. ActiveTax(n) \in Int
  <2> DEFINE f == [m \in Releases(n) |-> TaxOf(m)]
  <2>1. Releases(n) \subseteq DOMAIN allocations
    BY DEF Releases
  <2>2. IsFiniteSet(Releases(n))
    BY <2>1, SettlementRows, FS_Subset DEF SettlementTypeOK
  <2>3. \A m \in Releases(n) : f[m] \in Int
    BY <2>1, TaxOfNat
  <2>4. ActiveTax(n) = TaxOf(n) - SumFunctionOnSet(f, Releases(n))
    BY DEF ActiveTax
  <2> HIDE DEF f
  <2>5. SumFunctionOnSet(f, Releases(n)) \in Int
    BY <2>2, <2>3, SumInt
  <2> QED
    BY <1>1, <2>4, <2>5
<1>3. allocations[n].amount \in Nat \ {0}
  BY SettlementRows, AllocationFields DEF SettlementTypeOK
<1>4. TaxOf(n) * value \in Int
  BY <1>1
<1> QED
  BY <1>2, <1>3, <1>4, RoundedInt DEF ReleasedTax

\* The parts of a tax are whole, and none is more than its row has left.
LEMMA PartsFit ==
    ASSUME SettlementTypeOK, AllocationsFit, TaxesFit,
           NEW n \in DOMAIN allocations, allocations[n].release_of = 0, NEW tax \in Int
    PROVE  /\ DOMAIN Parts(n, tax) = DOMAIN allocations[n].taxes
           /\ \A k \in DOMAIN allocations[n].taxes :
                  Parts(n, tax)[k] \in Int /\ Parts(n, tax)[k] <= Capacity(n, k)
<1> DEFINE rows == allocations[n].taxes
           D == DOMAIN rows
           shares == [k \in D |-> Least(Capacity(n, k), Rounded(tax * rows[k].amount, TaxOf(n)))]
           rest == tax - SumFunctionOnSet(shares, 1 .. Len(rows) - 1)
           part(k) == IF TaxOf(n) = 0 THEN 0
                      ELSE IF k = Len(rows) THEN Least(Capacity(n, k), rest) ELSE shares[k]
<1>1. Parts(n, tax) = [k \in D |-> part(k)]
  BY DEF Parts
<1>2. allocations \in Seq(AllocationRows) /\ allocations[n] \in AllocationRows
  BY SettlementRows DEF SettlementTypeOK
<1>3. \A k \in D : Capacity(n, k) \in Int /\ Capacity(n, k) >= 0
  BY <1>2, AllocationParts, RemainsInt, LeftFigures DEF TaxesFit
<1>4. TaxOf(n) \in Nat
  BY TaxOfNat
<1>5. \A k \in D : rows[k].amount \in Nat
  BY <1>2, AllocationFields
<1>6. ASSUME TaxOf(n) # 0, NEW k \in D PROVE shares[k] \in Int /\ shares[k] <= Capacity(n, k)
  <2>1. tax * rows[k].amount \in Int
    BY <1>5
  <2>2. Rounded(tax * rows[k].amount, TaxOf(n)) \in Int
    BY <1>4, <1>6, <2>1, RoundedInt
  <2> QED
    BY <1>3, <2>2, LeastIs
<1>7. ASSUME TaxOf(n) # 0 PROVE rest \in Int
  <2>1. Len(rows) \in Nat /\ D = 1 .. Len(rows)
    <3> DEFINE R == [line : Nat, amount : Nat]
    <3>1. rows \in Seq(R)
      BY <1>2, AllocationFields
    <3> HIDE DEF R, rows
    <3> QED
      BY <3>1
  <2>2. (1 .. Len(rows) - 1) \subseteq D
    BY <2>1
  <2>3. IsFiniteSet(1 .. Len(rows) - 1)
    BY ONLY <2>1, FS_Interval
  <2>4. \A k \in 1 .. Len(rows) - 1 : shares[k] \in Int
    BY <1>6, <1>7, <2>2
  <2> HIDE DEF shares, rows, D
  <2>5. SumFunctionOnSet(shares, 1 .. Len(rows) - 1) \in Int
    BY <2>3, <2>4, SumInt
  <2> QED
    BY <2>5
<1>8. ASSUME NEW k \in D PROVE part(k) \in Int /\ part(k) <= Capacity(n, k)
  <2>1. CASE TaxOf(n) = 0
    BY <1>3, <2>1
  <2>2. CASE TaxOf(n) # 0 /\ k = Len(rows)
    <3>1. rest \in Int
      BY <1>7, <2>2
    <3>2. part(k) = Least(Capacity(n, k), rest)
      BY <2>2
    <3> HIDE DEF rest, part
    <3> QED
      BY <1>3, <3>1, <3>2, LeastIs
  <2>3. CASE TaxOf(n) # 0 /\ k # Len(rows)
    BY <1>6, <2>3
  <2> QED
    BY <2>1, <2>2, <2>3
<1> HIDE DEF part
<1> QED
  BY <1>1, <1>8

\* The row of a release.
LEMMA ReleaseRowFits ==
    ASSUME SettlementTypeOK, AllocationsFit, TaxesFit,
           NEW n \in DOMAIN allocations, allocations[n].release_of = 0,
           NEW value \in Nat \ {0}, value <= Active(n), NEW day \in AccountingDates,
           Apportioned(n, value), NEW row, row = ReleaseRow(n, value, day)
    PROVE  /\ row \in AllocationRows /\ Repeats(allocations, row)
           /\ row.date = day /\ row.amount = value /\ row.release_of = n
           /\ row.source = allocations[n].source /\ row.invoice = allocations[n].invoice
           /\ \A j \in DOMAIN row.taxes : row.taxes[j].amount <= CapacityIn(allocations, n, j)
<1> DEFINE old == allocations[n]
           D == DOMAIN old.taxes
           tax == ReleasedTax(n, value)
           parts == Parts(n, tax)
           taxes == [k \in D |-> [line |-> old.taxes[k].line, amount |-> parts[k]]]
<1>1. allocations \in Seq(AllocationRows) /\ old \in AllocationRows /\ n \in Nat
  BY SettlementRows DEF SettlementTypeOK
<1>2. tax \in Int
  BY ReleasedTaxInt
<1>3. DOMAIN parts = D /\ \A k \in D : parts[k] \in Int /\ parts[k] <= Capacity(n, k)
  BY <1>2, PartsFit
<1>4. \A k \in D : parts[k] >= 0
  BY <1>3 DEF Apportioned
<1>5. row = [old EXCEPT !.date = day, !.amount = value, !.release_of = n, !.taxes = taxes]
  BY DEF ReleaseRow
<1>6. taxes \in Seq([line : Nat, amount : Nat])
  <2> DEFINE R == [line : Nat, amount : Nat]
             t == old.taxes
  <2>1. t \in Seq(R) /\ \A k \in D : t[k].line \in Nat
    BY <1>1, AllocationFields
  <2>2. \A k \in D : taxes[k] \in R
    BY <1>3, <1>4, <2>1
  <2>3. Len(t) \in Nat /\ D = 1 .. Len(t)
    <3> HIDE DEF R, t
    <3>1. Len(t) \in Nat /\ DOMAIN t = 1 .. Len(t)
      BY <2>1
    <3> QED
      BY <3>1 DEF t
  <2>4. DOMAIN taxes = 1 .. Len(t)
    BY <2>3
  <2> HIDE DEF R, taxes
  <2>5. taxes = [k \in 1 .. Len(t) |-> taxes[k]]
    BY <2>4 DEF taxes
  <2>6. taxes \in [1 .. Len(t) -> R]
    BY <2>2, <2>3, <2>5
  <2>7. taxes \in Seq(R)
    <3> DEFINE m == Len(t)
    <3>1. m \in Nat /\ taxes \in [1 .. m -> R]
      BY <2>3, <2>6
    <3> HIDE DEF m
    <3> QED
      BY ONLY <3>1
  <2> QED
    BY <2>7 DEF R
<1> HIDE DEF parts, tax, taxes
<1>7. /\ row.date = day /\ row.amount = value /\ row.release_of = n /\ row.taxes = taxes
      /\ row.source = old.source /\ row.invoice = old.invoice
      /\ row = [source |-> old.source, invoice |-> old.invoice, date |-> day, amount |-> value,
                taxes |-> taxes, release_of |-> n]
  BY <1>1, <1>5 DEF AllocationRows
<1>8. row \in AllocationRows
  BY <1>1, <1>6, <1>7 DEF AllocationRows, TaxRows
<1>9. Repeats(allocations, row)
  <2>1. DOMAIN taxes = D /\ \A k \in D : taxes[k].line = old.taxes[k].line
    BY DEF taxes
  <2> QED
    BY <1>7, <2>1 DEF Repeats
<1>10. \A j \in DOMAIN taxes : taxes[j].amount <= Capacity(n, j)
  BY <1>3 DEF taxes
<1> QED
  BY <1>7, <1>8, <1>9, <1>10, LeftFigures

-----------------------------------------------------------------------------
(* What a step does to the books: it posts a record, reverses one, or      *)
(* leaves them alone.                                                      *)

MovementRows == [source : FinancialRecords, date : AccountingDates, debit : Nat, credit : Nat,
                 kind : {"INVOICE", "SETTLEMENT", "REFUND", "REVERSAL"}]
Worth(r) == IF r \in Sources THEN -Value(r) ELSE Value(r)

PostingStep(r, day, m) ==
    /\ status[r] = "APPROVED" /\ status' = [status EXCEPT ![r] = "POSTED"]
    /\ day \notin closed /\ Journal(r, "POST", day)
    /\ movements' = movements \cup {m}
    /\ m.source = r /\ m.kind # "REVERSAL" /\ m.date = day /\ m.debit - m.credit = Worth(r)
ReversingStep(r, day, m) ==
    /\ r \in Receipts \cup Withholdings \cup Refunds
    /\ status[r] = "POSTED" /\ status' = [status EXCEPT ![r] = "REVERSED"]
    /\ day \notin closed /\ Journal(r, "REVERSE", day)
    /\ movements' = movements \cup {m}
    /\ m.source = r /\ m.kind = "REVERSAL" /\ m.date = day /\ m.debit - m.credit = -Worth(r)
BookStep ==
    \/ UNCHANGED <<status, entries, movements>>
    \/ \E r \in FinancialRecords, day \in AccountingDates, m \in MovementRows :
           PostingStep(r, day, m) \/ ReversingStep(r, day, m)

\* The movement of a posting or of a reversal.
LEMMA MovementIs ==
    ASSUME NEW r \in FinancialRecords, NEW day \in AccountingDates,
           NEW kind \in {"INVOICE", "SETTLEMENT", "REFUND", "REVERSAL"},
           NEW debit \in Nat, NEW credit \in Nat, movement(r, kind, day, debit, credit)
    PROVE  \E m \in MovementRows :
               /\ movements' = movements \cup {m}
               /\ m.source = r /\ m.kind = kind /\ m.date = day
               /\ m.debit - m.credit = debit - credit
<1> DEFINE m == [source |-> r, kind |-> kind, date |-> day, debit |-> debit, credit |-> credit]
<1>1. m \in MovementRows /\ movements' = movements \cup {m}
  BY DEF movement, MovementRows
<1>2. /\ m.source = r /\ m.kind = kind /\ m.date = day
      /\ m.debit - m.credit = debit - credit
  OBVIOUS
<1> HIDE DEF m
<1> QED
  BY <1>1, <1>2

\* The kinds of record.
LEMMA Kinds ==
    /\ \A r \in Invoices \cup Sources \cup Refunds : r \in FinancialRecords
    /\ \A r \in Invoices \cup Refunds : r \notin Sources
    /\ \A r \in Receipts \cup Withholdings \cup Credits : r \in Sources
    /\ \A r \in Receipts \cup Withholdings \cup Refunds : r \notin Invoices /\ r \notin Credits
BY SettlementConstants DEF FinancialRecords, Sources

\* The posting of a source.
LEMMA SourcePosting ==
    ASSUME NEW s \in Sources, NEW day, PostSource(s, day)
    PROVE  day \in AccountingDates /\ \E m \in MovementRows : PostingStep(s, day, m)
<1>1. day \in AccountingDates /\ day \notin closed
  BY DEF PostSource, lock_period
<1>2. s \in FinancialRecords /\ Value(s) \in Nat
  BY Kinds, Values
<1>3. movement(s, "SETTLEMENT", day, 0, Value(s))
  BY DEF PostSource
<1>4. PICK m \in MovementRows :
          /\ movements' = movements \cup {m}
          /\ m.source = s /\ m.kind = "SETTLEMENT" /\ m.date = day
          /\ m.debit - m.credit = 0 - Value(s)
  BY <1>1, <1>2, <1>3, MovementIs
<1>5. m.debit - m.credit = Worth(s)
  BY <1>2, <1>4 DEF Worth
<1> QED
  BY <1>1, <1>4, <1>5 DEF PostingStep, PostSource, MarkPosted

LEMMA BookSteps == SettlementTypeOK /\ [SettlementNext]_settlementVars => BookStep
<1> SUFFICES ASSUME SettlementTypeOK, [SettlementNext]_settlementVars PROVE BookStep
  OBVIOUS
<1> USE DEF BookStep
<1>1. ASSUME NEW day \in AccountingDates, NEW i \in Invoices, PostInvoice(i, day)
      PROVE  BookStep
  <2>1. i \in FinancialRecords /\ i \notin Sources /\ Value(i) \in Nat
    BY Kinds, Values
  <2>2. movement(i, "INVOICE", day, Value(i), 0)
    BY <1>1 DEF PostInvoice
  <2>3. PICK m \in MovementRows :
            /\ movements' = movements \cup {m}
            /\ m.source = i /\ m.kind = "INVOICE" /\ m.date = day
            /\ m.debit - m.credit = Value(i) - 0
    BY <2>1, <2>2, MovementIs
  <2>4. m.debit - m.credit = Worth(i)
    BY <2>1, <2>3 DEF Worth
  <2>5. PostingStep(i, day, m)
    BY <1>1, <2>3, <2>4 DEF PostingStep, PostInvoice, MarkPosted, lock_period
  <2> QED
    BY <2>1, <2>5
<1>2. ASSUME NEW s \in Sources, NEW day, PostSource(s, day)
      PROVE  BookStep
  BY <1>2, SourcePosting, Kinds
<1>3. ASSUME NEW day \in AccountingDates, NEW p \in Refunds, PostRefund(p, day)
      PROVE  BookStep
  <2>1. p \in FinancialRecords /\ p \notin Sources /\ Value(p) \in Nat
    BY Kinds, Values
  <2>2. movement(p, "REFUND", day, Value(p), 0)
    BY <1>3 DEF PostRefund
  <2>3. PICK m \in MovementRows :
            /\ movements' = movements \cup {m}
            /\ m.source = p /\ m.kind = "REFUND" /\ m.date = day
            /\ m.debit - m.credit = Value(p) - 0
    BY <2>1, <2>2, MovementIs
  <2>4. m.debit - m.credit = Worth(p)
    BY <2>1, <2>3 DEF Worth
  <2>5. PostingStep(p, day, m)
    BY <1>3, <2>3, <2>4 DEF PostingStep, PostRefund, MarkPosted, lock_period
  <2> QED
    BY <2>1, <2>5
<1>4. ASSUME NEW day \in AccountingDates, NEW r \in FinancialRecords, ReverseRecord(r, day)
      PROVE  BookStep
  <2>1. Value(r) \in Nat
    BY Values
  <2>2. /\ r \in Receipts \cup Withholdings \cup Refunds /\ status[r] = "POSTED"
        /\ day \notin closed /\ Journal(r, "REVERSE", day)
        /\ status' = [status EXCEPT ![r] = "REVERSED"]
        /\ IF r \in Refunds THEN movement(r, "REVERSAL", day, 0, Value(r))
                            ELSE movement(r, "REVERSAL", day, Value(r), 0)
    BY <1>4 DEF ReverseRecord, lock_period
  <2>3. \E m \in MovementRows :
            /\ movements' = movements \cup {m}
            /\ m.source = r /\ m.kind = "REVERSAL" /\ m.date = day
            /\ m.debit - m.credit = -Worth(r)
    <3>1. CASE r \in Refunds
      <4>1. movement(r, "REVERSAL", day, 0, Value(r))
        BY <2>2, <3>1
      <4>2. PICK m \in MovementRows :
                /\ movements' = movements \cup {m}
                /\ m.source = r /\ m.kind = "REVERSAL" /\ m.date = day
                /\ m.debit - m.credit = 0 - Value(r)
        BY <2>1, <4>1, MovementIs
      <4>3. m.debit - m.credit = -Worth(r)
        BY <2>1, <3>1, <4>2, Kinds DEF Worth
      <4> QED
        BY <4>2, <4>3
    <3>2. CASE r \notin Refunds
      <4>1. movement(r, "REVERSAL", day, Value(r), 0)
        BY <2>2, <3>2
      <4>2. PICK m \in MovementRows :
                /\ movements' = movements \cup {m}
                /\ m.source = r /\ m.kind = "REVERSAL" /\ m.date = day
                /\ m.debit - m.credit = Value(r) - 0
        BY <2>1, <4>1, MovementIs
      <4>3. r \in Sources
        BY <2>2, <3>2, Kinds
      <4>4. m.debit - m.credit = -Worth(r)
        BY <2>1, <4>2, <4>3 DEF Worth
      <4> QED
        BY <4>2, <4>4
    <3> QED
      BY <3>1, <3>2
  <2>4. PICK m \in MovementRows :
            /\ movements' = movements \cup {m}
            /\ m.source = r /\ m.kind = "REVERSAL" /\ m.date = day
            /\ m.debit - m.credit = -Worth(r)
    BY <2>3
  <2>5. ReversingStep(r, day, m)
    BY <2>2, <2>4 DEF ReversingStep
  <2> QED
    BY <2>5
<1>5. ASSUME UNCHANGED <<status, entries, movements>> PROVE BookStep
  BY <1>5
<1> HIDE DEF BookStep
<1>6. CASE SettlementNext
  <2>1. ASSUME NEW day \in AccountingDates, NEW r \in Receipts, PostReceipt(r, day)
        PROVE  BookStep
    BY <1>2, <2>1, Kinds DEF PostReceipt
  <2>2. ASSUME NEW day \in AccountingDates, NEW w \in Withholdings, PostWithholding(w, day)
        PROVE  BookStep
    BY <1>2, <2>2, Kinds DEF PostWithholding
  <2>3. ASSUME NEW day \in AccountingDates, NEW c \in Credits, PostCredit(c, day)
        PROVE  BookStep
    BY <1>2, <2>3, Kinds DEF PostCredit
  <2>4. ASSUME NEW day, NEW s, NEW i, NEW value, NEW taxes, Allocate(s, i, value, day, taxes)
        PROVE  BookStep
    BY <1>5, <2>4 DEF Allocate
  <2>5. ASSUME NEW day, NEW n, NEW value, Release(n, value, day) PROVE BookStep
    BY <1>5, <2>5 DEF Release
  <2>6. ASSUME NEW day, ClosePeriod(day) \/ ReopenPeriod(day) PROVE BookStep
    BY <1>5, <2>6 DEF ClosePeriod, ReopenPeriod
  <2>7. ASSUME NEW s, BeginAllocate(s) \/ RefuseAllocate(s) PROVE BookStep
    BY <1>5, <2>7 DEF BeginAllocate, RefuseAllocate
  <2> QED
    BY <1>1, <1>3, <1>4, <1>6, <2>1, <2>2, <2>3, <2>4, <2>5, <2>6, <2>7 DEF SettlementNext
<1>7. CASE UNCHANGED settlementVars
  BY <1>5, <1>7 DEF settlementVars
<1> QED
  BY <1>6, <1>7

\* A status only goes forward, and neither an invoice nor a credit note is reversed.
Forward ==
    \A r \in FinancialRecords :
        /\ status[r] # "APPROVED" => status'[r] # "APPROVED"
        /\ status[r] = "REVERSED" => status'[r] = "REVERSED"
        /\ status'[r] # "POSTED" /\ status[r] = "POSTED" =>
               status'[r] = "REVERSED" /\ r \notin Invoices /\ r \notin Credits

LEMMA StatusForward == SettlementTypeOK /\ BookStep => Forward
<1> SUFFICES ASSUME SettlementTypeOK, BookStep, NEW x \in FinancialRecords
             PROVE  /\ status[x] # "APPROVED" => status'[x] # "APPROVED"
                    /\ status[x] = "REVERSED" => status'[x] = "REVERSED"
                    /\ status'[x] # "POSTED" /\ status[x] = "POSTED" =>
                           status'[x] = "REVERSED" /\ x \notin Invoices /\ x \notin Credits
  BY DEF Forward
<1>1. CASE UNCHANGED <<status, entries, movements>>
  BY <1>1
<1>2. ASSUME NEW r \in FinancialRecords, NEW day, NEW m, PostingStep(r, day, m)
      PROVE  x # r => status'[x] = status[x]
  BY <1>2 DEF PostingStep, SettlementTypeOK
<1>3. ASSUME NEW r \in FinancialRecords, NEW day, NEW m, PostingStep(r, day, m)
      PROVE  status[r] = "APPROVED" /\ status'[r] = "POSTED"
  BY <1>3 DEF PostingStep, SettlementTypeOK
<1>4. ASSUME NEW r \in FinancialRecords, NEW day, NEW m, ReversingStep(r, day, m)
      PROVE  /\ x # r => status'[x] = status[x]
             /\ status'[r] = "REVERSED" /\ r \notin Invoices /\ r \notin Credits
  BY <1>4, Kinds DEF ReversingStep, SettlementTypeOK
<1> QED
  BY <1>1, <1>2, <1>3, <1>4 DEF BookStep

-----------------------------------------------------------------------------
(* What a step does to the allocations: it appends an application, or      *)
(* releases of applications, or leaves them alone.                         *)

Applying(row) ==
    /\ row \in AllocationRows /\ row.release_of = 0 /\ LinesOnce(row)
    /\ allocations' = Append(allocations, row)
    /\ status[row.invoice] = "POSTED" /\ status'[row.source] = "POSTED"
    /\ row.date \notin closed /\ row.amount <= invoice_due(row.invoice, Today)
    /\ \/ /\ status' = status /\ row.amount <= source_available(row.source, Today)
          /\ \A j \in DOMAIN row.taxes :
                 row.taxes[j].amount <= RemainingTax(row.invoice, row.taxes[j].line)
       \/ status[row.source] = "APPROVED" /\ row.amount <= Value(row.source) /\ row.taxes = <<>>
ReleaseStep(rows) ==
    /\ rows \in Seq(AllocationRows) /\ Releasing(allocations, rows)
    /\ allocations' = allocations \o rows
    /\ \A k \in DOMAIN rows : rows[k].date \notin closed
SameRefunds == refunds' = refunds /\ \A p \in Refunds : status'[p] = status[p]
NoReversal == \A r \in FinancialRecords : status'[r] = "REVERSED" => status[r] = "REVERSED"

\* An application of whole rows is a row.
LEMMA ApplicationRow ==
    ASSUME NEW s \in Sources, NEW i \in Invoices, NEW day \in AccountingDates,
           NEW value \in Nat \ {0}, NEW taxes \in Seq([line : Nat, amount : Nat]),
           NEW row, row = Application(s, i, day, value, taxes)
    PROVE  /\ row \in AllocationRows /\ row.release_of = 0 /\ row.source = s /\ row.invoice = i
           /\ row.date = day /\ row.amount = value /\ row.taxes = taxes
BY DEF Application, AllocationRows, TaxRows

\* The application that a posting makes by itself.
LEMMA AutoAllocation ==
    ASSUME SettlementTypeOK, EntriesFit, NEW s \in Sources, NEW i \in Invoices,
           NEW day, PostSource(s, day), AutoAllocate(s, i, day), status[i] = "POSTED"
    PROVE  allocations' = allocations \/ \E row : Applying(row)
<1>1. status[s] = "APPROVED" /\ status'[s] = "POSTED" /\ day \in AccountingDates /\ day \notin closed
  BY Kinds DEF PostSource, MarkPosted, lock_period, SettlementTypeOK
<1> DEFINE due == invoice_due(i, Today)
           value == Least(Value(s), due)
           row == Application(s, i, day, value, <<>>)
<1>2. due \in Int
  <2>1. due = DueIn(allocations, i)
    BY CurrentFigures
  <2>2. ByInvoice(allocations, i) \in SUBSET DOMAIN allocations
    BY DEF ByInvoice
  <2>3. Total(allocations, Amounts, ByInvoice(allocations, i)) \in Int
    BY <2>2, TotalInt, CountedRows DEF SettlementTypeOK
  <2>4. Value(i) \in Int
    BY Kinds, Values
  <2> QED
    BY <2>1, <2>3, <2>4 DEF DueIn
<1>3. Value(s) \in Nat
  BY Kinds, Values
<1>4. CASE due > 0
  <2>1. 0 < Value(s) /\ allocations' = Append(allocations, row)
    BY <1>4 DEF AutoAllocate
  <2>2. value \in Nat \ {0} /\ value <= Value(s) /\ value <= due
    <3> DEFINE x == Value(s)
    <3>1. x \in Int /\ due \in Int /\ x > 0 /\ due > 0
      BY <1>2, <1>3, <1>4, <2>1
    <3>2. value = Least(x, due)
      OBVIOUS
    <3> HIDE DEF due, x, value
    <3>3. /\ value \in Int /\ value <= x /\ value <= due
          /\ value = x \/ value = due
      BY <3>1, <3>2, LeastIs
    <3> QED
      BY <3>1, <3>3 DEF x
  <2>3. <<>> \in Seq([line : Nat, amount : Nat])
    OBVIOUS
  <2> DEFINE none == <<>>
  <2>6. none \in Seq([line : Nat, amount : Nat]) /\ row = Application(s, i, day, value, none)
    BY <2>3
  <2> HIDE DEF value, none, row
  <2>7. /\ row \in AllocationRows /\ row.release_of = 0 /\ row.source = s /\ row.invoice = i
        /\ row.date = day /\ row.amount = value /\ row.taxes = none
    BY <1>1, <2>2, <2>6, ApplicationRow
  <2>4. /\ row \in AllocationRows /\ row.release_of = 0 /\ row.source = s /\ row.invoice = i
        /\ row.date = day /\ row.amount = value /\ row.taxes = <<>>
    BY <2>7 DEF none
  <2> HIDE DEF row
  <2>5. LinesOnce(row)
    BY <2>4 DEF LinesOnce
  <2> QED
    BY <1>1, <2>1, <2>2, <2>4, <2>5 DEF Applying
<1>5. CASE ~(due > 0)
  BY <1>5 DEF AutoAllocate
<1> QED
  BY <1>4, <1>5

\* The tax rows of a request are tax rows, each of a line of its own.
LEMMA RequestRows ==
    ASSUME NEW i \in Invoices, NEW value \in Nat, NEW taxes \in TaxRequests(i, value)
    PROVE  /\ taxes \in Seq([line : Nat, amount : Nat])
           /\ \A j, k \in DOMAIN taxes : j # k => taxes[j].line # taxes[k].line
<1> DEFINE R == [line : LinesOf(i), amount : 0 .. value]
           Q == [line : Nat, amount : Nat]
<1>1. PICK m \in 0 .. Len(Content[i].lines) : taxes \in [1 .. m -> R]
  BY DEF TaxRequests
<1>2. Len(Content[i].lines) \in Nat /\ LinesOf(i) = 1 .. Len(Content[i].lines)
  <2>1. Content[i].lines \in Seq(LineRows)
    BY SettlementConstants
  <2> QED
    BY <2>1, SettlementRows DEF LinesOf
<1>3. R \subseteq Q
  BY <1>2
<1>4. m \in Nat
  BY <1>1, <1>2
<1> HIDE DEF R, Q
<1>5. taxes \in [1 .. m -> Q]
  BY <1>1, <1>3
<1>6. taxes \in Seq(Q)
  BY ONLY <1>4, <1>5
<1>7. \A j, k \in DOMAIN taxes : j # k => taxes[j].line # taxes[k].line
  BY DEF TaxRequests
<1> QED
  BY <1>6, <1>7 DEF Q

\* The application that a request makes.
LEMMA Allocation ==
    ASSUME SettlementInvariant, NEW s \in waiting, NEW i \in Invoices, NEW day \in AccountingDates,
           NEW value \in 1 .. Value(i), NEW taxes \in TaxRequests(i, value),
           Allocate(s, i, value, day, taxes)
    PROVE  \E row : Applying(row)
<1> DEFINE row == Application(s, i, day, value, taxes)
<1>0. SettlementTypeOK /\ EntriesFit /\ SourcesFit
  BY DEF SettlementInvariant
<1>1. s \in Sources /\ s \in FinancialRecords /\ status[s] # "APPROVED"
  BY <1>0, Kinds DEF SettlementTypeOK, SourcesFit
<1>2. value \in Nat \ {0}
  BY Kinds, Values
<1>3. /\ taxes \in Seq([line : Nat, amount : Nat])
      /\ \A j, k \in DOMAIN taxes : j # k => taxes[j].line # taxes[k].line
  BY <1>2, RequestRows
<1>4. /\ row \in AllocationRows /\ row.release_of = 0 /\ row.source = s /\ row.invoice = i
      /\ row.date = day /\ row.amount = value /\ row.taxes = taxes
  BY <1>1, <1>2, <1>3, ApplicationRow
<1>5. /\ allocations' = Append(allocations, row) /\ status' = status /\ status[i] = "POSTED"
      /\ day \notin closed
      /\ 0 < value /\ value <= source_available(s, Today) /\ value <= invoice_due(i, Today)
      /\ \A n \in DOMAIN taxes : taxes[n].amount <= RemainingTax(i, taxes[n].line)
  BY DEF Allocate, lock_period, TaxAllowed
<1> HIDE DEF row
<1>6. LinesOnce(row)
  BY <1>3, <1>4 DEF LinesOnce
<1>7. status[s] = "POSTED"
  <2>1. status[s] # "REVERSED"
    <3>1. ASSUME status[s] = "REVERSED" PROVE FALSE
      <4>1. source_available(s, Today) = 0
        BY <1>0, <1>1, <3>1, CurrentFigures DEF AvailableIn
      <4> QED
        BY <1>2, <1>5, <4>1
    <3> QED
      BY <3>1
  <2> QED
    BY <1>0, <1>1, <2>1 DEF SettlementTypeOK
<1> QED
  BY <1>4, <1>5, <1>6, <1>7 DEF Applying

\* A release by itself.
LEMMA OneRelease ==
    ASSUME SettlementInvariant, NEW n \in DOMAIN allocations,
           NEW value \in 1 .. allocations[n].amount, NEW day \in AccountingDates,
           Release(n, value, day)
    PROVE  \E rows : ReleaseStep(rows)
<1> DEFINE row == ReleaseRow(n, value, day)
           rows == <<row>>
<1>0. SettlementTypeOK /\ AllocationsFit /\ TaxesFit
  BY DEF SettlementInvariant
<1>1. allocations[n].amount \in Nat
  BY <1>0, SettlementRows, AllocationFields DEF SettlementTypeOK
<1>2. value \in Nat \ {0}
  BY <1>1
<1>3. /\ allocations[n].release_of = 0 /\ value <= Active(n) /\ Apportioned(n, value)
      /\ day \notin closed /\ allocations' = Append(allocations, row)
  BY DEF Release, lock_period
<1>4. /\ row \in AllocationRows /\ Repeats(allocations, row)
      /\ row.date = day /\ row.amount = value /\ row.release_of = n
      /\ \A j \in DOMAIN row.taxes : row.taxes[j].amount <= CapacityIn(allocations, n, j)
  BY <1>0, <1>2, <1>3, ReleaseRowFits
<1> HIDE DEF row
<1>5. rows \in Seq(AllocationRows) /\ DOMAIN rows = {1} /\ rows[1] = row
  BY <1>4
<1>6. allocations' = allocations \o rows
  <2>1. allocations \in Seq(AllocationRows)
    BY <1>0 DEF SettlementTypeOK
  <2> QED
    BY <1>3, <1>4, <2>1
<1>7. row.amount <= ActiveIn(allocations, n)
  BY <1>3, <1>4, LeftFigures
<1> HIDE DEF rows
<1>8. Releasing(allocations, rows)
  BY <1>4, <1>5, <1>7 DEF Releasing
<1> QED
  BY <1>3, <1>4, <1>5, <1>6, <1>8 DEF ReleaseStep

\* The releases of a reversal: all that its record still settles.
LEMMA ReversalReleases ==
    ASSUME SettlementInvariant, NEW r \in FinancialRecords, NEW day, ReverseRecord(r, day)
    PROVE  \E rows :
               /\ ReleaseStep(rows)
               /\ \A n \in ToRelease(r) : \E k \in DOMAIN rows :
                      rows[k].release_of = n /\ rows[k].amount = Active(n)
<1>0. SettlementTypeOK /\ AllocationsFit /\ TaxesFit /\ allocations \in Seq(AllocationRows)
  BY DEF SettlementInvariant, SettlementTypeOK
<1>1. PICK open \in Oldest(ToRelease(r)) :
          /\ day \in AccountingDates /\ day \notin closed
          /\ \A n \in Range(open) : Apportioned(n, Active(n))
          /\ allocations' = allocations \o
                 [k \in DOMAIN open |-> ReleaseRow(open[k], Active(open[k]), day)]
  BY DEF ReverseRecord, lock_period
<1> DEFINE E == ToRelease(r)
           m == Cardinality(E)
           row(k) == ReleaseRow(open[k], Active(open[k]), day)
           rows == [k \in DOMAIN open |-> row(k)]
<1>2. /\ E \subseteq DOMAIN allocations
      /\ \A n \in E : allocations[n].release_of = 0 /\ Active(n) > 0
  BY DEF ToRelease
<1>3. m \in Nat
  BY <1>0, <1>2, SettlementRows, FS_Subset, FS_CardinalityType
<1>4. /\ open \in [1 .. m -> E] /\ Range(open) = E
      /\ \A j, k \in DOMAIN open : j < k => open[j] < open[k]
  BY DEF Oldest
<1>5. DOMAIN open = 1 .. m /\ \A k \in 1 .. m : open[k] \in E
  BY <1>4
<1>6. \A n \in E : Active(n) \in Nat \ {0}
  BY <1>0, <1>2, RemainsInt, LeftFigures
<1>7. ASSUME NEW k \in 1 .. m
      PROVE  /\ row(k) \in AllocationRows /\ Repeats(allocations, row(k))
             /\ row(k).date = day /\ row(k).amount = Active(open[k])
             /\ row(k).release_of = open[k]
             /\ \A j \in DOMAIN row(k).taxes :
                    row(k).taxes[j].amount <= CapacityIn(allocations, open[k], j)
  <2> DEFINE n == open[k]
             v == Active(n)
             x == ReleaseRow(n, v, day)
  <2>1. n \in E /\ n \in DOMAIN allocations /\ allocations[n].release_of = 0
    BY <1>2, <1>5
  <2>2. v \in Nat \ {0} /\ v <= Active(n) /\ Apportioned(n, v)
    BY <1>1, <1>4, <1>6, <2>1
  <2>3. x = ReleaseRow(n, v, day)
    OBVIOUS
  <2> HIDE DEF x, v, n
  <2>4. /\ x \in AllocationRows /\ Repeats(allocations, x)
        /\ x.date = day /\ x.amount = v /\ x.release_of = n
        /\ \A j \in DOMAIN x.taxes : x.taxes[j].amount <= CapacityIn(allocations, n, j)
    BY <1>0, <1>1, <2>1, <2>2, <2>3, ReleaseRowFits
  <2> QED
    BY <2>4 DEF x, v, n
<1>8. \A k \in 1 .. m : rows[k] = row(k)
  BY <1>5
<1>9. DOMAIN rows = 1 .. m
  BY <1>5
<1>10. allocations' = allocations \o rows
  BY <1>1
<1>11. \A j, k \in 1 .. m : open[j] = open[k] => j = k
  <2> SUFFICES ASSUME NEW j \in 1 .. m, NEW k \in 1 .. m, open[j] = open[k], j # k PROVE FALSE
    OBVIOUS
  <2>1. open[j] \in Nat /\ open[k] \in Nat
    BY <1>0, <1>2, <1>5, SettlementRows
  <2>2. j < k \/ k < j
    BY <1>3
  <2> QED
    BY <1>4, <1>5, <2>1, <2>2
<1> HIDE DEF row, rows, m, E
<1>12. rows \in Seq(AllocationRows)
  <2>1. rows \in [1 .. m -> AllocationRows]
    <3>1. rows = [k \in 1 .. m |-> rows[k]]
      BY <1>5 DEF rows
    <3> QED
      BY <1>7, <1>8, <3>1
  <2> QED
    BY ONLY <1>3, <2>1
<1>13. Releasing(allocations, rows)
  <2>1. ASSUME NEW k \in 1 .. m
        PROVE  /\ Repeats(allocations, rows[k]) /\ rows[k].release_of = open[k]
               /\ rows[k].amount <= ActiveIn(allocations, rows[k].release_of)
               /\ \A j \in DOMAIN rows[k].taxes :
                      rows[k].taxes[j].amount <= CapacityIn(allocations, rows[k].release_of, j)
    <3> DEFINE x == row(k)
    <3>1. rows[k] = x
      BY <1>8
    <3>2. /\ Repeats(allocations, x) /\ x.amount = Active(open[k]) /\ x.release_of = open[k]
          /\ \A j \in DOMAIN x.taxes :
                 x.taxes[j].amount <= CapacityIn(allocations, open[k], j)
      BY <1>7
    <3>3. Active(open[k]) = ActiveIn(allocations, open[k]) /\ Active(open[k]) \in Nat
      BY <1>5, <1>6, LeftFigures
    <3> HIDE DEF x
    <3> QED
      BY <3>1, <3>2, <3>3
  <2> QED
    BY <1>9, <1>11, <2>1 DEF Releasing
<1>14. ReleaseStep(rows)
  BY <1>1, <1>7, <1>8, <1>9, <1>10, <1>12, <1>13 DEF ReleaseStep
<1>15. ASSUME NEW n \in E
       PROVE  \E k \in DOMAIN rows : rows[k].release_of = n /\ rows[k].amount = Active(n)
  <2>1. PICK k \in 1 .. m : open[k] = n
    BY <1>4, <1>5 DEF Range
  <2> QED
    BY <1>7, <1>8, <1>9, <2>1
<1> QED
  BY <1>14, <1>15 DEF E

MoneyStep ==
    \/ allocations' = allocations /\ SameRefunds /\ NoReversal
    \/ SameRefunds /\ NoReversal /\ \E row : Applying(row)
    \/ refunds' = refunds /\ status' = status /\ \E rows : ReleaseStep(rows)
    \/ \E r \in FinancialRecords, day \in AccountingDates : ReverseRecord(r, day)
    \/ \E p \in Refunds, day \in AccountingDates : PostRefund(p, day)

LEMMA NotRefunds == \A r \in Invoices \cup Sources \cup Receipts : r \notin Refunds
BY SettlementConstants, Kinds

LEMMA MoneySteps == SettlementInvariant /\ [SettlementNext]_settlementVars => MoneyStep
<1> SUFFICES ASSUME SettlementInvariant, [SettlementNext]_settlementVars PROVE MoneyStep
  OBVIOUS
<1>0. SettlementTypeOK /\ EntriesFit
  BY DEF SettlementInvariant
<1>1. ASSUME NEW r, r \notin Refunds, MarkPosted(r), refunds' = refunds
      PROVE  NoReversal /\ SameRefunds
  BY <1>0, <1>1, Kinds DEF MarkPosted, NoReversal, SameRefunds, SettlementTypeOK
<1>2. ASSUME allocations' = allocations, SameRefunds, NoReversal PROVE MoneyStep
  BY <1>2 DEF MoneyStep
<1>3. ASSUME status' = status, refunds' = refunds PROVE NoReversal /\ SameRefunds
  BY <1>3 DEF NoReversal, SameRefunds
<1>4. CASE SettlementNext
  <2>1. ASSUME NEW day, NEW i \in Invoices, PostInvoice(i, day) PROVE MoneyStep
    BY <1>1, <1>2, <2>1, NotRefunds DEF PostInvoice
  <2>2. ASSUME NEW day, NEW r \in Receipts, PostReceipt(r, day) PROVE MoneyStep
    BY <1>1, <1>2, <2>2, NotRefunds DEF PostReceipt, PostSource
  <2>3. ASSUME NEW day, NEW s \in Sources, NEW i \in Invoices,
               PostSource(s, day), AutoAllocate(s, i, day), status[i] = "POSTED"
        PROVE  MoneyStep
    <3>1. allocations' = allocations \/ \E row : Applying(row)
      BY <1>0, <2>3, AutoAllocation
    <3>2. SameRefunds /\ NoReversal
      BY <1>1, <2>3, NotRefunds DEF PostSource
    <3> QED
      BY <3>1, <3>2 DEF MoneyStep
  <2>4. ASSUME NEW day, NEW w \in Withholdings, PostWithholding(w, day) PROVE MoneyStep
    <3>1. w \in Sources /\ Content[w].invoice \in Invoices
      BY Kinds, SettlementConstants
    <3>2. /\ PostSource(w, day) /\ AutoAllocate(w, Content[w].invoice, day)
          /\ status[Content[w].invoice] = "POSTED"
      BY <2>4 DEF PostWithholding
    <3> QED
      BY <2>3, <3>1, <3>2
  <2>5. ASSUME NEW day, NEW c \in Credits, PostCredit(c, day) PROVE MoneyStep
    <3>1. c \in Sources /\ Content[c].invoice \in Invoices
      BY Kinds, SettlementConstants
    <3>2. /\ PostSource(c, day) /\ AutoAllocate(c, Content[c].invoice, day)
          /\ status[Content[c].invoice] = "POSTED"
      BY <2>5 DEF PostCredit
    <3> QED
      BY <2>3, <3>1, <3>2
  <2>6. ASSUME NEW day \in AccountingDates, NEW p \in Refunds, PostRefund(p, day) PROVE MoneyStep
    BY <2>6 DEF MoneyStep
  <2>7. ASSUME NEW day \in AccountingDates, NEW s \in waiting, NEW i \in Invoices,
               NEW value \in 1 .. Value(i), NEW taxes \in TaxRequests(i, value),
               Allocate(s, i, value, day, taxes)
        PROVE  MoneyStep
    <3>1. \E row : Applying(row)
      BY <2>7, Allocation
    <3>2. SameRefunds /\ NoReversal
      BY <1>3, <2>7 DEF Allocate
    <3> QED
      BY <3>1, <3>2 DEF MoneyStep
  <2>8. ASSUME NEW day \in AccountingDates, NEW n \in DOMAIN allocations,
               NEW value \in 1 .. allocations[n].amount, Release(n, value, day)
        PROVE  MoneyStep
    <3>1. \E rows : ReleaseStep(rows)
      BY <2>8, OneRelease
    <3>2. refunds' = refunds /\ status' = status
      BY <2>8 DEF Release
    <3> QED
      BY <3>1, <3>2 DEF MoneyStep
  <2>9. ASSUME NEW day \in AccountingDates, NEW r \in FinancialRecords, ReverseRecord(r, day)
        PROVE  MoneyStep
    BY <2>9 DEF MoneyStep
  <2>10. ASSUME NEW day, ClosePeriod(day) \/ ReopenPeriod(day) PROVE MoneyStep
    BY <1>2, <1>3, <2>10 DEF ClosePeriod, ReopenPeriod
  <2>11. ASSUME NEW s, BeginAllocate(s) \/ RefuseAllocate(s) PROVE MoneyStep
    BY <1>2, <1>3, <2>11 DEF BeginAllocate, RefuseAllocate
  <2> QED
    BY <1>4, <2>1, <2>2, <2>4, <2>5, <2>6, <2>7, <2>8, <2>9, <2>10, <2>11 DEF SettlementNext
<1>5. CASE UNCHANGED settlementVars
  BY <1>2, <1>3, <1>5 DEF settlementVars
<1> QED
  BY <1>4, <1>5

\* The allocations keep their structure, their records and their remainders.
LEMMA AllocationsKept ==
    SettlementInvariant /\ [SettlementNext]_settlementVars =>
        /\ allocations' \in Seq(AllocationRows) /\ Structure(allocations')
        /\ Remains(allocations') /\ Linked(allocations', status')
<1> SUFFICES ASSUME SettlementInvariant, [SettlementNext]_settlementVars
             PROVE  /\ allocations' \in Seq(AllocationRows) /\ Structure(allocations')
                    /\ Remains(allocations') /\ Linked(allocations', status')
  OBVIOUS
<1>1. /\ SettlementTypeOK /\ allocations \in Seq(AllocationRows) /\ Structure(allocations)
      /\ Remains(allocations) /\ Linked(allocations, status)
  BY AllocationParts, RemainsParts DEF SettlementInvariant, SettlementTypeOK, NoOverApplication
<1>2. MoneyStep /\ Forward
  BY <1>1, MoneySteps, BookSteps, StatusForward
<1>3. \A n \in DOMAIN allocations :
          /\ allocations[n].source \in FinancialRecords
          /\ allocations[n].invoice \in FinancialRecords /\ allocations[n].invoice \in Invoices
  BY <1>1, SettlementRows, AllocationFields, Kinds
<1>4. \A r \in FinancialRecords :
          /\ status[r] # "APPROVED" => status'[r] # "APPROVED"
          /\ r \in Invoices /\ status[r] = "POSTED" => status'[r] = "POSTED"
  BY <1>2 DEF Forward
<1>5. Linked(allocations, status')
  BY <1>1, <1>3, <1>4 DEF Linked
<1>6. CASE allocations' = allocations
  BY <1>1, <1>5, <1>6
<1>7. ASSUME NEW row, Applying(row)
      PROVE  /\ allocations' \in Seq(AllocationRows) /\ Structure(allocations')
             /\ Remains(allocations') /\ Linked(allocations', status')
  <2> DEFINE b == Append(allocations, row)
  <2>1. /\ row \in AllocationRows /\ row.release_of = 0 /\ LinesOnce(row)
        /\ allocations' = b
        /\ status[row.invoice] = "POSTED" /\ status'[row.source] = "POSTED"
    BY <1>7 DEF Applying
  <2>2. b \in Seq(AllocationRows) /\ Structure(b) /\ Remains(b)
    BY <1>1, <2>1, ApplicationAdded
  <2>3. /\ DOMAIN b = DOMAIN allocations \cup {Len(b)} /\ b[Len(b)] = row
        /\ \A n \in DOMAIN allocations : b[n] = allocations[n]
    BY <1>1, <2>1, AppendedOne
  <2>4. status'[row.source] # "APPROVED" /\ status'[row.invoice] = "POSTED"
    <3>1. row.invoice \in Invoices
      BY <2>1, AllocationFields
    <3> QED
      BY <1>4, <2>1, <3>1, Kinds
  <2> HIDE DEF b
  <2>5. Linked(b, status')
    BY <1>5, <2>3, <2>4 DEF Linked
  <2> QED
    BY <2>1, <2>2, <2>5
<1>8. ASSUME NEW rows, ReleaseStep(rows)
      PROVE  /\ allocations' \in Seq(AllocationRows) /\ Structure(allocations')
             /\ Remains(allocations') /\ Linked(allocations', status')
  <2> DEFINE b == allocations \o rows
  <2>1. /\ rows \in Seq(AllocationRows) /\ Releasing(allocations, rows) /\ allocations' = b
    BY <1>8 DEF ReleaseStep
  <2>2. b \in Seq(AllocationRows) /\ Structure(b) /\ Remains(b)
    BY <1>1, <2>1, ReleasesAdded
  <2>3. /\ \A n \in DOMAIN allocations : b[n] = allocations[n]
        /\ \A n \in DOMAIN b \ DOMAIN allocations :
               n - Len(allocations) \in DOMAIN rows /\ b[n] = rows[n - Len(allocations)]
    BY <1>1, <2>1, Appended
  <2> HIDE DEF b
  <2>4. Linked(b, status')
    <3> SUFFICES ASSUME NEW n \in DOMAIN b
                 PROVE  status'[b[n].source] # "APPROVED" /\ status'[b[n].invoice] = "POSTED"
      BY DEF Linked
    <3>1. CASE n \in DOMAIN allocations
      BY <1>5, <2>3, <3>1 DEF Linked
    <3>2. CASE n \notin DOMAIN allocations
      <4>1. PICK k \in DOMAIN rows : b[n] = rows[k]
        BY <2>3, <3>2
      <4>2. Repeats(allocations, rows[k])
        BY <2>1 DEF Releasing
      <4> QED
        BY <1>5, <4>1, <4>2 DEF Linked, Repeats
    <3> QED
      BY <3>1, <3>2
  <2> QED
    BY <2>1, <2>2, <2>4
<1>9. ASSUME NEW p, NEW day, PostRefund(p, day) PROVE allocations' = allocations
  BY <1>9 DEF PostRefund
<1>10. ASSUME NEW r \in FinancialRecords, NEW day, ReverseRecord(r, day)
       PROVE  \E rows : ReleaseStep(rows)
  BY <1>10, ReversalReleases
<1> QED
  BY <1>2, <1>6, <1>7, <1>8, <1>9, <1>10 DEF MoneyStep

-----------------------------------------------------------------------------
(* The books: entries, movements and sources.                              *)

\* A record has one entry of a kind, and its entries say its status.
LEMMA EntriesKept == SettlementTypeOK /\ EntriesFit /\ BookStep => EntriesFit'
<1> SUFFICES ASSUME SettlementTypeOK, EntriesFit, BookStep PROVE EntriesFit'
  OBVIOUS
<1>1. /\ status \in [FinancialRecords -> {"APPROVED", "POSTED", "REVERSED"}]
      /\ \A e \in entries : e.record \in FinancialRecords /\ e.date \in AccountingDates
      /\ \A d \in AccountingDates : d <= Today
  BY SettlementConstants DEF SettlementTypeOK, AccountingDates
<1>2. \A x \in FinancialRecords :
          /\ \A e, f \in entries : e.record = x /\ f.record = x /\ e.event = f.event => e = f
          /\ (\E e \in entries : e.record = x /\ e.event = "POST") <=> status[x] # "APPROVED"
          /\ (\E e \in entries : e.record = x /\ e.event = "REVERSE" /\ e.date <= Today)
                 <=> status[x] = "REVERSED"
  BY DEF EntriesFit, ReversedBy
<1>3. CASE UNCHANGED <<status, entries, movements>>
  BY <1>3 DEF EntriesFit, ReversedBy
<1>4. ASSUME NEW r \in FinancialRecords, NEW day \in AccountingDates, NEW m, PostingStep(r, day, m)
      PROVE  EntriesFit'
  <2> DEFINE new == [record |-> r, event |-> "POST", date |-> day]
  <2>1. /\ status[r] = "APPROVED" /\ status'[r] = "POSTED"
        /\ \A x \in FinancialRecords : x # r => status'[x] = status[x]
        /\ entries' = entries \cup {new}
    BY <1>1, <1>4 DEF PostingStep, Journal
  <2>2. new.record = r /\ new.event = "POST" /\ new.date = day /\ new.event # "REVERSE"
    OBVIOUS
  <2> HIDE DEF new
  <2> SUFFICES ASSUME NEW x \in FinancialRecords
               PROVE  /\ \A e, f \in entries' :
                             e.record = x /\ f.record = x /\ e.event = f.event => e = f
                      /\ (\E e \in entries' : e.record = x /\ e.event = "POST")
                             <=> status'[x] # "APPROVED"
                      /\ (\E e \in entries' : e.record = x /\ e.event = "REVERSE" /\ e.date <= Today)
                             <=> status'[x] = "REVERSED"
    BY DEF EntriesFit, ReversedBy
  <2>3. \A e, f \in entries' : e.record = x /\ f.record = x /\ e.event = f.event => e = f
    <3> TAKE e, f \in entries'
    <3> HAVE e.record = x /\ f.record = x /\ e.event = f.event
    <3>1. CASE e \in entries /\ f \in entries
      BY <1>2, <3>1
    <3>2. CASE e = new /\ f \in entries
      BY <1>2, <2>1, <2>2, <3>2
    <3>3. CASE e \in entries /\ f = new
      BY <1>2, <2>1, <2>2, <3>3
    <3> QED
      BY <2>1, <3>1, <3>2, <3>3
  <2>4. (\E e \in entries' : e.record = x /\ e.event = "POST") <=> status'[x] # "APPROVED"
    BY <1>2, <2>1, <2>2
  <2>5. (\E e \in entries' : e.record = x /\ e.event = "REVERSE" /\ e.date <= Today)
            <=> status'[x] = "REVERSED"
    BY <1>2, <2>1, <2>2
  <2> QED
    BY <2>3, <2>4, <2>5
<1>5. ASSUME NEW r \in FinancialRecords, NEW day \in AccountingDates, NEW m, ReversingStep(r, day, m)
      PROVE  EntriesFit'
  <2> DEFINE new == [record |-> r, event |-> "REVERSE", date |-> day]
  <2>1. /\ status[r] = "POSTED" /\ status'[r] = "REVERSED"
        /\ \A x \in FinancialRecords : x # r => status'[x] = status[x]
        /\ entries' = entries \cup {new}
    BY <1>1, <1>5 DEF ReversingStep, Journal
  <2>2. new.record = r /\ new.event = "REVERSE" /\ new.date = day /\ new.event # "POST"
    OBVIOUS
  <2> HIDE DEF new
  <2> SUFFICES ASSUME NEW x \in FinancialRecords
               PROVE  /\ \A e, f \in entries' :
                             e.record = x /\ f.record = x /\ e.event = f.event => e = f
                      /\ (\E e \in entries' : e.record = x /\ e.event = "POST")
                             <=> status'[x] # "APPROVED"
                      /\ (\E e \in entries' : e.record = x /\ e.event = "REVERSE" /\ e.date <= Today)
                             <=> status'[x] = "REVERSED"
    BY DEF EntriesFit, ReversedBy
  <2>3. \A e, f \in entries' : e.record = x /\ f.record = x /\ e.event = f.event => e = f
    <3> TAKE e, f \in entries'
    <3> HAVE e.record = x /\ f.record = x /\ e.event = f.event
    <3>0. ~\E z \in entries : z.record = r /\ z.event = "REVERSE"
      BY <1>1, <1>2, <2>1
    <3>1. CASE e \in entries /\ f \in entries
      BY <1>2, <3>1
    <3>2. CASE e = new /\ f \in entries
      BY <2>2, <3>0, <3>2
    <3>3. CASE e \in entries /\ f = new
      BY <2>2, <3>0, <3>3
    <3> QED
      BY <2>1, <3>1, <3>2, <3>3
  <2>4. (\E e \in entries' : e.record = x /\ e.event = "POST") <=> status'[x] # "APPROVED"
    BY <1>2, <2>1, <2>2
  <2>5. (\E e \in entries' : e.record = x /\ e.event = "REVERSE" /\ e.date <= Today)
            <=> status'[x] = "REVERSED"
    BY <1>1, <1>2, <2>1, <2>2
  <2> QED
    BY <2>3, <2>4, <2>5
<1> QED
  BY <1>3, <1>4, <1>5 DEF BookStep

\* The balance as a sum over all the movements, and over the records.
Amount(ms) == [m \in ms |-> m.debit - m.credit]
NetIn(st, r) == IF st[r] # "POSTED" THEN 0 ELSE Worth(r)
Nets(st) == [r \in FinancialRecords |-> NetIn(st, r)]

LEMMA BalanceIs == SettlementTypeOK => Balance = SumFunctionOnSet(Amount(movements), movements)
<1> SUFFICES ASSUME SettlementTypeOK
             PROVE  Balance = SumFunctionOnSet(Amount(movements), movements)
  OBVIOUS
<1>1. \A m \in movements : m.date <= Today
  BY SettlementConstants DEF SettlementTypeOK, AccountingDates
<1>2. {m \in movements : m.date <= Today} = movements
  BY <1>1
<1> QED
  BY <1>2 DEF Balance, BalanceAsOf, Amount

LEMMA NetIs ==
    /\ [r \in FinancialRecords |-> Net(r)] = Nets(status)
    /\ [r \in FinancialRecords |-> Net(r)]' = Nets(status')
<1>1. \A r : Net(r) = NetIn(status, r)
  BY DEF Net, NetIn, Worth
<1>2. (\A r : Net(r) = NetIn(status, r))'
  BY <1>1, PTL
<1>3. \A r : Net(r)' = NetIn(status', r)
  BY <1>2
<1> QED
  BY <1>1, <1>3 DEF Nets

LEMMA WorthInt ==
    /\ \A r \in FinancialRecords : Worth(r) \in Int
    /\ \A st : \A r \in FinancialRecords : Nets(st)[r] \in Int /\ Nets(st)[r] = NetIn(st, r)
BY Values DEF Worth, Nets, NetIn

\* Every movement is of a posted record, and the balance is what these are worth.
LEMMA MovementsKept ==
    SettlementTypeOK /\ MovementsFit /\ BookStep /\ SettlementTypeOK' => MovementsFit'
<1> SUFFICES ASSUME SettlementTypeOK, MovementsFit, BookStep, SettlementTypeOK'
             PROVE  MovementsFit'
  OBVIOUS
<1>1. /\ status \in [FinancialRecords -> {"APPROVED", "POSTED", "REVERSED"}]
      /\ \A m \in movements : m \in MovementRows
  BY DEF SettlementTypeOK, MovementRows
<1>2. /\ IsFiniteSet(movements)
      /\ \A m \in movements :
             /\ status[m.source] # "APPROVED"
             /\ m.kind = "REVERSAL" => status[m.source] = "REVERSED"
      /\ Balance = SumFunctionOnSet(Nets(status), FinancialRecords)
  BY NetIs DEF MovementsFit
<1>3. Balance = SumFunctionOnSet(Amount(movements), movements)
  BY BalanceIs
<1>4. Balance' = SumFunctionOnSet(Amount(movements'), movements')
  <2>1. (Balance = SumFunctionOnSet(Amount(movements), movements))'
    BY BalanceIs, PTL
  <2> QED
    BY <2>1
<1>5. CASE UNCHANGED <<status, entries, movements>>
  <2>1. Balance' = Balance
    BY <1>3, <1>4, <1>5
  <2>2. Balance' = SumFunctionOnSet(Nets(status'), FinancialRecords)
    BY <1>2, <1>5, <2>1
  <2> QED
    BY <1>2, <1>5, <2>2, NetIs DEF MovementsFit
<1>6. ASSUME NEW r \in FinancialRecords, NEW m \in MovementRows, m \notin movements,
             movements' = movements \cup {m}, m.source = r,
             m.debit - m.credit = NetIn(status', r) - NetIn(status, r),
             \A x \in FinancialRecords \ {r} : status'[x] = status[x],
             status'[r] # "APPROVED", m.kind = "REVERSAL" => status'[r] = "REVERSED",
             status[r] # "REVERSED"
      PROVE  MovementsFit'
  <2> DEFINE f == Amount(movements)
             g == Amount(movements')
             u == Nets(status)
             v == Nets(status')
  <2>1. /\ \A x \in movements : f[x] \in Int /\ g[x] = f[x] /\ g[x] \in Int
        /\ g[m] = m.debit - m.credit /\ g[m] \in Int
    BY <1>1, <1>6 DEF Amount, MovementRows
  <2>2. SumFunctionOnSet(g, movements') = g[m] + SumFunctionOnSet(f, movements)
    <3> HIDE DEF f, g
    <3>1. SumFunctionOnSet(g, movements \cup {m}) = g[m] + SumFunctionOnSet(g, movements)
      BY <1>2, <1>6, <2>1, SumAdd
    <3>2. SumFunctionOnSet(f, movements) = SumFunctionOnSet(g, movements)
      BY <1>2, <2>1, SumSame
    <3> QED
      BY <1>6, <3>1, <3>2
  <2>3. /\ \A x \in FinancialRecords : u[x] \in Int /\ v[x] \in Int
        /\ \A x \in FinancialRecords \ {r} : v[x] = u[x]
        /\ v[r] = NetIn(status', r) /\ u[r] = NetIn(status, r)
    BY <1>6, WorthInt DEF NetIn
  <2>4. SumFunctionOnSet(v, FinancialRecords)
            = SumFunctionOnSet(u, FinancialRecords) + (v[r] - u[r])
    <3> HIDE DEF u, v
    <3> QED
      BY <2>3, SettlementConstants, SumChange
  <2>5. SumFunctionOnSet(u, FinancialRecords) \in Int
    <3> HIDE DEF u
    <3> QED
      BY <2>3, SettlementConstants, SumInt
  <2> HIDE DEF f, g, u, v
  <2>6. g[m] = v[r] - u[r] /\ v[r] \in Int /\ u[r] \in Int
    BY <1>6, <2>1, <2>3
  <2>7. SumFunctionOnSet(f, movements) = SumFunctionOnSet(u, FinancialRecords)
    BY <1>2, <1>3 DEF f, u
  <2>8. SumFunctionOnSet(g, movements') = SumFunctionOnSet(v, FinancialRecords)
    BY <2>2, <2>4, <2>5, <2>6, <2>7
  <2>9. Balance' = SumFunctionOnSet([x \in FinancialRecords |-> Net(x)]', FinancialRecords)
    BY <1>4, <2>8, NetIs DEF g, v
  <2>10. IsFiniteSet(movements')
    BY <1>2, <1>6, FS_AddElement
  <2>11. \A x \in movements' :
            /\ status'[x.source] # "APPROVED"
            /\ x.kind = "REVERSAL" => status'[x.source] = "REVERSED"
    <3> TAKE x \in movements'
    <3>1. CASE x \in movements
      <4>1. x.source \in FinancialRecords
        BY <1>1, <3>1 DEF MovementRows
      <4> QED
        BY <1>2, <1>6, <3>1, <4>1
    <3>2. CASE x = m
      BY <1>6, <3>2
    <3> QED
      BY <1>6, <3>1, <3>2
  <2> QED
    BY <2>9, <2>10, <2>11 DEF MovementsFit
<1>7. ASSUME NEW r \in FinancialRecords, NEW day, NEW m \in MovementRows, PostingStep(r, day, m)
      PROVE  MovementsFit'
  <2>1. /\ status[r] = "APPROVED" /\ status'[r] = "POSTED"
        /\ \A x \in FinancialRecords \ {r} : status'[x] = status[x]
        /\ movements' = movements \cup {m} /\ m.source = r /\ m.kind # "REVERSAL"
        /\ m.debit - m.credit = Worth(r)
    BY <1>1, <1>7 DEF PostingStep
  <2>2. m \notin movements
    BY <1>2, <2>1
  <2>3. m.debit - m.credit = NetIn(status', r) - NetIn(status, r)
    BY <2>1, WorthInt DEF NetIn
  <2> QED
    BY <1>6, <2>1, <2>2, <2>3
<1>8. ASSUME NEW r \in FinancialRecords, NEW day, NEW m \in MovementRows, ReversingStep(r, day, m)
      PROVE  MovementsFit'
  <2>1. /\ status[r] = "POSTED" /\ status'[r] = "REVERSED"
        /\ \A x \in FinancialRecords \ {r} : status'[x] = status[x]
        /\ movements' = movements \cup {m} /\ m.source = r /\ m.kind = "REVERSAL"
        /\ m.debit - m.credit = -Worth(r)
    BY <1>1, <1>8 DEF ReversingStep
  <2>2. m \notin movements
    BY <1>2, <2>1
  <2>3. m.debit - m.credit = NetIn(status', r) - NetIn(status, r)
    BY <2>1, WorthInt DEF NetIn
  <2> QED
    BY <1>6, <2>1, <2>2, <2>3
<1> QED
  BY <1>5, <1>7, <1>8 DEF BookStep

\* What a step does to the sources: a posting of one appends it, nothing else does.
SourceStep ==
    /\ \/ sources' = sources /\ \A s \in Sources : status'[s] = "APPROVED" <=> status[s] = "APPROVED"
       \/ \E s \in Sources : /\ sources' = Append(sources, s)
                             /\ status[s] = "APPROVED" /\ status'[s] = "POSTED"
                             /\ \A r \in FinancialRecords \ {s} : status'[r] = status[r]
    /\ \A s \in waiting' : s \in waiting \/ (s \in Sources /\ status[s] = "POSTED")
    /\ closed' \subseteq Closable

LEMMA SourceSteps == SettlementTypeOK /\ [SettlementNext]_settlementVars => SourceStep
<1> SUFFICES ASSUME SettlementTypeOK, [SettlementNext]_settlementVars PROVE SourceStep
  OBVIOUS
<1>0. /\ status \in [FinancialRecords -> {"APPROVED", "POSTED", "REVERSED"}]
      /\ closed \subseteq Closable /\ waiting \subseteq Sources
  BY DEF SettlementTypeOK
<1>1. ASSUME NEW s \in Sources, NEW day, PostSource(s, day) PROVE SourceStep
  BY <1>0, <1>1, Kinds DEF PostSource, MarkPosted, SourceStep
<1>2. ASSUME status' = status, sources' = sources, closed' \subseteq Closable,
             \A s \in waiting' : s \in waiting \/ (s \in Sources /\ status[s] = "POSTED")
      PROVE  SourceStep
  BY <1>2 DEF SourceStep
<1>3. ASSUME NEW r \in FinancialRecords, r \notin Sources, MarkPosted(r),
             UNCHANGED <<sources, closed, waiting>>
      PROVE  SourceStep
  BY <1>0, <1>3, Kinds DEF MarkPosted, SourceStep
<1>4. CASE SettlementNext
  <2>1. ASSUME NEW day, NEW i \in Invoices, PostInvoice(i, day) PROVE SourceStep
    BY <1>3, <2>1, Kinds DEF PostInvoice
  <2>2. ASSUME NEW day, NEW r \in Receipts, PostReceipt(r, day) PROVE SourceStep
    BY <1>1, <2>2, Kinds DEF PostReceipt
  <2>3. ASSUME NEW day, NEW w \in Withholdings, PostWithholding(w, day) PROVE SourceStep
    BY <1>1, <2>3, Kinds DEF PostWithholding
  <2>4. ASSUME NEW day, NEW c \in Credits, PostCredit(c, day) PROVE SourceStep
    BY <1>1, <2>4, Kinds DEF PostCredit
  <2>5. ASSUME NEW day, NEW p \in Refunds, PostRefund(p, day) PROVE SourceStep
    BY <1>3, <2>5, Kinds DEF PostRefund
  <2>6. ASSUME NEW day, NEW s, NEW i, NEW value, NEW taxes, Allocate(s, i, value, day, taxes)
        PROVE  SourceStep
    BY <1>0, <1>2, <2>6 DEF Allocate
  <2>7. ASSUME NEW day, NEW n, NEW value, Release(n, value, day) PROVE SourceStep
    BY <1>0, <1>2, <2>7 DEF Release
  <2>8. ASSUME NEW day, NEW r \in FinancialRecords, ReverseRecord(r, day) PROVE SourceStep
    <3>1. /\ status[r] = "POSTED" /\ status' = [status EXCEPT ![r] = "REVERSED"]
          /\ UNCHANGED <<sources, closed, waiting>>
      BY <2>8 DEF ReverseRecord
    <3> QED
      BY <1>0, <3>1, Kinds DEF SourceStep
  <2>9. ASSUME NEW day, ClosePeriod(day) \/ ReopenPeriod(day) PROVE SourceStep
    BY <1>0, <1>2, <2>9 DEF ClosePeriod, ReopenPeriod
  <2>10. ASSUME NEW s \in Sources, BeginAllocate(s) \/ RefuseAllocate(s) PROVE SourceStep
    BY <1>0, <1>2, <2>10 DEF BeginAllocate, RefuseAllocate
  <2> QED
    BY <1>4, <2>1, <2>2, <2>3, <2>4, <2>5, <2>6, <2>7, <2>8, <2>9, <2>10 DEF SettlementNext
<1>5. CASE UNCHANGED settlementVars
  BY <1>0, <1>2, <1>5 DEF settlementVars
<1> QED
  BY <1>4, <1>5

\* The sources are those of the posted records, and only these are allocated from.
LEMMA SourcesKept ==
    SettlementTypeOK /\ SourcesFit /\ BookStep /\ SourceStep => SourcesFit' /\ sources' \in Seq(Sources)
<1> SUFFICES ASSUME SettlementTypeOK, SourcesFit, BookStep, SourceStep
             PROVE  SourcesFit' /\ sources' \in Seq(Sources)
  OBVIOUS
<1>1. /\ sources \in Seq(Sources) /\ waiting \subseteq Sources
      /\ Range(sources) = {s \in Sources : status[s] # "APPROVED"}
      /\ \A s \in waiting : status[s] # "APPROVED"
      /\ \A r \in Invoices \cup Credits : status[r] # "REVERSED"
  BY DEF SourcesFit, SettlementTypeOK
<1>2. Forward
  BY StatusForward
<1>3. sources' \in Seq(Sources) /\ Range(sources') = {s \in Sources : status'[s] # "APPROVED"}
  <2>1. CASE /\ sources' = sources
             /\ \A s \in Sources : status'[s] = "APPROVED" <=> status[s] = "APPROVED"
    BY <1>1, <2>1
  <2>2. ASSUME NEW s \in Sources, sources' = Append(sources, s),
               status[s] = "APPROVED", status'[s] = "POSTED",
               \A r \in FinancialRecords \ {s} : status'[r] = status[r]
        PROVE  sources' \in Seq(Sources) /\ Range(sources') = {r \in Sources : status'[r] # "APPROVED"}
    <3> DEFINE b == Append(sources, s)
    <3>1. /\ b \in Seq(Sources) /\ DOMAIN b = DOMAIN sources \cup {Len(b)}
          /\ Len(b) \notin DOMAIN sources
          /\ (\A n \in DOMAIN sources : b[n] = sources[n]) /\ b[Len(b)] = s
      BY <1>1, AppendedOne
    <3> HIDE DEF b
    <3>2. Range(b) = Range(sources) \cup {s}
      BY ONLY <3>1 DEF Range
    <3>3. \A r \in Sources : r # s => status'[r] = status[r]
      BY <2>2, Kinds
    <3>4. Range(b) = {r \in Sources : status'[r] # "APPROVED"}
      BY <1>1, <2>2, <3>2, <3>3
    <3> QED
      BY <2>2, <3>1, <3>4 DEF b
  <2> QED
    BY <2>1, <2>2 DEF SourceStep
<1>4. \A s \in waiting' : status'[s] # "APPROVED"
  <2> TAKE s \in waiting'
  <2>1. s \in Sources /\ status[s] # "APPROVED"
    BY <1>1 DEF SourceStep
  <2> QED
    BY <1>2, <2>1, Kinds DEF Forward
<1>5. \A r \in Invoices \cup Credits : status'[r] # "REVERSED"
  <2> TAKE r \in Invoices \cup Credits
  <2>1. r \in FinancialRecords /\ status[r] # "REVERSED"
    BY <1>1, Kinds
  <2>2. CASE UNCHANGED <<status, entries, movements>>
    BY <2>1, <2>2
  <2>3. ASSUME NEW x \in FinancialRecords, NEW day, NEW m, PostingStep(x, day, m)
        PROVE  status'[r] # "REVERSED"
    BY <2>1, <2>3 DEF PostingStep, SettlementTypeOK
  <2>4. ASSUME NEW x \in FinancialRecords, NEW day, NEW m, ReversingStep(x, day, m)
        PROVE  status'[r] # "REVERSED"
    <3>1. x # r
      BY <2>4, Kinds DEF ReversingStep
    <3> QED
      BY <2>1, <2>4, <3>1 DEF ReversingStep, SettlementTypeOK
  <2> QED
    BY <2>2, <2>3, <2>4 DEF BookStep
<1> QED
  BY <1>3, <1>4, <1>5 DEF SourcesFit

\* What a source has left is a whole amount.
LEMMA AvailableInt ==
    SettlementTypeOK =>
        \A s \in Sources : /\ AvailableIn(allocations, status, refunds, s) \in Int
                           /\ Total(allocations, Amounts, BySource(allocations, s)) \in Int
                           /\ TakenIn(status, refunds, s) \in Nat
                           /\ Value(s) \in Nat
<1> SUFFICES ASSUME SettlementTypeOK, NEW s \in Sources
             PROVE  /\ AvailableIn(allocations, status, refunds, s) \in Int
                    /\ Total(allocations, Amounts, BySource(allocations, s)) \in Int
                    /\ TakenIn(status, refunds, s) \in Nat
                    /\ Value(s) \in Nat
  OBVIOUS
<1>1. BySource(allocations, s) \in SUBSET DOMAIN allocations
  BY DEF BySource
<1>2. Total(allocations, Amounts, BySource(allocations, s)) \in Int
  BY <1>1, TotalInt, CountedRows DEF SettlementTypeOK
<1>3. TakenIn(status, refunds, s) \in Nat
  <2> DEFINE f == [p \in Refunds |-> refunds[p][s]]
  <2>1. \A p \in PostedRefunds(status) : f[p] \in Nat
    BY DEF PostedRefunds, SettlementTypeOK
  <2>2. IsFiniteSet(PostedRefunds(status))
    BY SettlementConstants, FS_Subset DEF PostedRefunds
  <2>3. TakenIn(status, refunds, s) = SumFunctionOnSet(f, PostedRefunds(status))
    BY DEF TakenIn
  <2> HIDE DEF f
  <2> QED
    BY <2>1, <2>2, <2>3, SumNat
<1>4. Value(s) \in Nat
  BY Kinds, Values
<1> QED
  BY <1>2, <1>3, <1>4 DEF AvailableIn

\* The share of a source in a refund: a whole amount, and no more than it has left.
LEMMA RefundPartFits ==
    SettlementTypeOK /\ EntriesFit =>
        \A p \in Refunds : \A s \in Range(sources) :
            /\ s \in Sources /\ RefundPart(p, s) \in Nat
            /\ RefundPart(p, s) > 0 => RefundPart(p, s) <= source_available(s, Today)
<1> SUFFICES ASSUME SettlementTypeOK, EntriesFit, NEW p \in Refunds, NEW s \in Range(sources)
             PROVE  /\ s \in Sources /\ RefundPart(p, s) \in Nat
                    /\ RefundPart(p, s) > 0 => RefundPart(p, s) <= source_available(s, Today)
  OBVIOUS
<1>1. IsFiniteSet(Range(sources)) /\ Range(sources) \subseteq Sources
  <2>1. Range(sources) \subseteq Sources
    BY SettlementRows DEF SettlementTypeOK, Range
  <2> QED
    BY <2>1, SettlementConstants, FS_Subset
<1>2. \A t \in Range(sources) : source_available(t, Today) \in Int
  BY <1>1, AvailableInt, CurrentFigures, Kinds
<1> DEFINE f == [t \in Range(sources) |-> source_available(t, Today)]
           before == SumFunctionOnSet(f, Older(s))
           mine == source_available(s, Today)
           wanted == Value(p) - before
<1>3. before \in Int
  <2>1. Older(s) \subseteq Range(sources)
    BY DEF Older
  <2>2. IsFiniteSet(Older(s)) /\ \A t \in Older(s) : f[t] \in Int
    BY <1>1, <1>2, <2>1, FS_Subset
  <2> HIDE DEF f
  <2> QED
    BY <2>2, SumInt
<1>4. Value(p) \in Int
  BY Kinds, Values
<1>5. RefundPart(p, s) = Positive(Least(mine, wanted))
  BY DEF RefundPart
<1>6. mine \in Int /\ wanted \in Int
  <2> HIDE DEF before, f
  <2> QED
    BY <1>2, <1>3, <1>4
<1> HIDE DEF mine, wanted
<1>7. RefundPart(p, s) \in Nat /\ (RefundPart(p, s) > 0 => RefundPart(p, s) <= mine)
  BY <1>5, <1>6, LeastIs, PositiveIs
<1> QED
  BY <1>1, <1>7 DEF mine

\* What a refund takes is whole, from sources that stand, and adds up to its amount.
LEMMA RefundsKept ==
    ASSUME SettlementTypeOK, EntriesFit, SourcesFit, RefundsFit, BookStep, SourcesFit', MoneyStep
    PROVE  RefundsFit' /\ refunds' \in [Refunds -> [Sources -> Nat]]
<1>1. /\ status \in [FinancialRecords -> {"APPROVED", "POSTED", "REVERSED"}]
      /\ refunds \in [Refunds -> [Sources -> Nat]] /\ sources \in Seq(Sources)
  BY DEF SettlementTypeOK
<1>2. /\ Range(sources) = {s \in Sources : status[s] # "APPROVED"}
      /\ Range(sources') = {s \in Sources : status'[s] # "APPROVED"}
  BY DEF SourcesFit
<1>3. /\ \A r \in FinancialRecords :
             /\ status[r] # "APPROVED" => status'[r] # "APPROVED"
             /\ status[r] = "REVERSED" => status'[r] = "REVERSED"
      /\ \A r \in Refunds \cup Sources : r \in FinancialRecords
  BY StatusForward, Kinds DEF Forward
<1>4. ASSUME NEW p \in Refunds, status'[p] # "APPROVED" => status[p] # "APPROVED",
             refunds'[p] = refunds[p],
             \A s \in Sources : status[p] = "POSTED" /\ status'[p] = "POSTED" /\ refunds[p][s] > 0 =>
                 (status'[s] = "REVERSED" => status[s] = "REVERSED")
      PROVE  /\ \A s \in Sources : refunds'[p][s] > 0 =>
                    /\ status'[p] # "APPROVED" /\ s \in Range(sources')
                    /\ status'[p] = "POSTED" => status'[s] # "REVERSED"
             /\ status'[p] # "APPROVED" => SumFunctionOnSet(refunds'[p], Sources) = Value(p)
  <2>1. ASSUME NEW s \in Sources, refunds'[p][s] > 0
        PROVE  /\ status'[p] # "APPROVED" /\ s \in Range(sources')
               /\ status'[p] = "POSTED" => status'[s] # "REVERSED"
    <3>1. /\ refunds[p][s] > 0 /\ status[p] # "APPROVED" /\ s \in Range(sources)
          /\ status[p] = "POSTED" => status[s] # "REVERSED"
      BY <1>4, <2>1 DEF RefundsFit
    <3>2. status'[p] = "POSTED" => status[p] = "POSTED"
      BY <1>1, <1>3, <3>1
    <3> QED
      BY <1>2, <1>3, <1>4, <3>1, <3>2
  <2> QED
    BY <1>4, <2>1 DEF RefundsFit
<1>5. ASSUME SameRefunds, NoReversal
      PROVE  RefundsFit' /\ refunds' \in [Refunds -> [Sources -> Nat]]
  BY <1>1, <1>3, <1>4, <1>5 DEF SameRefunds, NoReversal, RefundsFit
<1>6. ASSUME status' = status, refunds' = refunds
      PROVE  RefundsFit' /\ refunds' \in [Refunds -> [Sources -> Nat]]
  BY <1>5, <1>6 DEF SameRefunds, NoReversal
<1>7. ASSUME NEW r \in FinancialRecords, NEW day, ReverseRecord(r, day)
      PROVE  RefundsFit' /\ refunds' \in [Refunds -> [Sources -> Nat]]
  <2>1. /\ status[r] = "POSTED" /\ status' = [status EXCEPT ![r] = "REVERSED"]
        /\ refunds' = refunds
        /\ r \in Sources => ~\E p \in Refunds : refunds[p][r] > 0 /\ status[p] = "POSTED"
    BY <1>7 DEF ReverseRecord
  <2>2. \A x \in FinancialRecords :
            /\ status'[x] # "APPROVED" => status[x] # "APPROVED"
            /\ x # r => status'[x] = status[x]
    BY <1>1, <2>1
  <2>3. ASSUME NEW p \in Refunds, NEW s \in Sources,
               status[p] = "POSTED", refunds[p][s] > 0, status'[s] = "REVERSED"
        PROVE  status[s] = "REVERSED"
    BY <1>3, <2>1, <2>2, <2>3
  <2>4. ASSUME NEW p \in Refunds
        PROVE  /\ \A s \in Sources : refunds'[p][s] > 0 =>
                      /\ status'[p] # "APPROVED" /\ s \in Range(sources')
                      /\ status'[p] = "POSTED" => status'[s] # "REVERSED"
               /\ status'[p] # "APPROVED" => SumFunctionOnSet(refunds'[p], Sources) = Value(p)
    <3>1. status'[p] # "APPROVED" => status[p] # "APPROVED"
      BY <1>3, <2>2
    <3>2. refunds'[p] = refunds[p]
      BY <2>1
    <3>3. \A s \in Sources : status[p] = "POSTED" /\ status'[p] = "POSTED" /\ refunds[p][s] > 0 =>
              (status'[s] = "REVERSED" => status[s] = "REVERSED")
      BY <2>3
    <3> QED
      BY <1>4, <3>1, <3>2, <3>3
  <2> QED
    BY <1>1, <2>1, <2>4 DEF RefundsFit
<1>8. ASSUME NEW p \in Refunds, NEW day, PostRefund(p, day)
      PROVE  RefundsFit' /\ refunds' \in [Refunds -> [Sources -> Nat]]
  <2> DEFINE parts == [s \in Sources |-> IF s \in Range(sources) THEN RefundPart(p, s) ELSE 0]
  <2>1. /\ status[p] = "APPROVED" /\ status' = [status EXCEPT ![p] = "POSTED"]
        /\ SumFunctionOnSet(parts, Range(sources)) = Value(p)
        /\ refunds' = [refunds EXCEPT ![p] = parts]
    BY <1>8 DEF PostRefund, MarkPosted
  <2>2. /\ \A x \in FinancialRecords \ {p} : status'[x] = status[x]
        /\ status'[p] = "POSTED"
        /\ \A x \in Refunds \ {p} : refunds'[x] = refunds[x]
        /\ refunds'[p] = parts
    BY <1>1, <1>3, <2>1
  <2>3. \A s \in Range(sources) : s \in Sources
    BY <1>2
  <2>4. parts \in [Sources -> Nat]
    BY RefundPartFits
  <2>5. ASSUME NEW s \in Sources, parts[s] > 0
        PROVE  s \in Range(sources) /\ status[s] # "REVERSED" /\ s # p
    <3>1. s \in Range(sources)
      BY <2>5
    <3>2. parts[s] = RefundPart(p, s) /\ parts[s] \in Nat
      BY <2>4, <3>1
    <3>3. parts[s] <= source_available(s, Today)
      BY <2>5, <3>1, <3>2, RefundPartFits
    <3>4. status[s] = "REVERSED" => source_available(s, Today) = 0
      BY <1>3, CurrentFigures DEF AvailableIn
    <3> QED
      BY <2>5, <3>1, <3>2, <3>3, <3>4, NotRefunds
  <2>6. \A s \in Sources : s # p
    BY NotRefunds
  <2>7. \A s \in Sources \ Range(sources) : parts[s] = 0
    OBVIOUS
  <2> HIDE DEF parts
  <2>8. SumFunctionOnSet(parts, Sources) = Value(p)
    <3>1. IsFiniteSet(Sources) /\ Range(sources) \in SUBSET Sources
      BY <2>3, SettlementConstants
    <3>2. \A s \in Sources : parts[s] \in Int
      BY <2>4
    <3>3. SumFunctionOnSet(parts, Sources) = SumFunctionOnSet(parts, Range(sources))
      BY <2>7, <3>1, <3>2, SumSupport
    <3> QED
      BY <2>1, <3>3
  <2>9. ASSUME NEW x \in Refunds, x # p
        PROVE  /\ \A s \in Sources : refunds'[x][s] > 0 =>
                      /\ status'[x] # "APPROVED" /\ s \in Range(sources')
                      /\ status'[x] = "POSTED" => status'[s] # "REVERSED"
               /\ status'[x] # "APPROVED" => SumFunctionOnSet(refunds'[x], Sources) = Value(x)
    BY <1>3, <1>4, <2>2, <2>6, <2>9
  <2>10. \A s \in Sources : refunds'[p][s] > 0 =>
             /\ status'[p] # "APPROVED" /\ s \in Range(sources')
             /\ status'[p] = "POSTED" => status'[s] # "REVERSED"
    BY <1>2, <1>3, <2>2, <2>5
  <2>11. RefundsFit'
    BY <2>2, <2>8, <2>9, <2>10 DEF RefundsFit
  <2> QED
    BY <1>1, <2>1, <2>4, <2>11
<1> QED
  BY <1>5, <1>6, <1>7, <1>8 DEF MoneyStep

\* Every variable stays in its type.
LEMMA SettlementTypeKept ==
    SettlementInvariant /\ [SettlementNext]_settlementVars => SettlementTypeOK'
<1> SUFFICES ASSUME SettlementInvariant, [SettlementNext]_settlementVars PROVE SettlementTypeOK'
  OBVIOUS
<1>0. SettlementTypeOK /\ EntriesFit /\ SourcesFit /\ RefundsFit
  BY DEF SettlementInvariant
<1>1. BookStep /\ SourceStep /\ MoneyStep
  BY <1>0, BookSteps, SourceSteps, MoneySteps
<1>2. SourcesFit' /\ sources' \in Seq(Sources)
  BY <1>0, <1>1, SourcesKept
<1>3. refunds' \in [Refunds -> [Sources -> Nat]]
  BY <1>0, <1>1, <1>2, RefundsKept
<1>4. allocations' \in Seq(AllocationRows)
  BY AllocationsKept
<1>5. waiting' \subseteq Sources /\ closed' \subseteq Closable
  BY <1>0, <1>1 DEF SourceStep, SettlementTypeOK
<1>6. /\ status' \in [FinancialRecords -> {"APPROVED", "POSTED", "REVERSED"}]
      /\ entries' \subseteq [record : FinancialRecords, event : {"POST", "REVERSE"},
                             date : AccountingDates]
      /\ movements' \subseteq MovementRows
  <2>1. /\ status \in [FinancialRecords -> {"APPROVED", "POSTED", "REVERSED"}]
        /\ entries \subseteq [record : FinancialRecords, event : {"POST", "REVERSE"},
                              date : AccountingDates]
        /\ movements \subseteq MovementRows
    BY <1>0 DEF SettlementTypeOK, MovementRows
  <2>2. CASE UNCHANGED <<status, entries, movements>>
    BY <2>1, <2>2
  <2>3. ASSUME NEW r \in FinancialRecords, NEW day \in AccountingDates, NEW m \in MovementRows,
               PostingStep(r, day, m) \/ ReversingStep(r, day, m)
        PROVE  /\ status' \in [FinancialRecords -> {"APPROVED", "POSTED", "REVERSED"}]
               /\ entries' \subseteq [record : FinancialRecords, event : {"POST", "REVERSE"},
                                      date : AccountingDates]
               /\ movements' \subseteq MovementRows
    BY <2>1, <2>3 DEF PostingStep, ReversingStep, Journal
  <2> QED
    BY <1>1, <2>2, <2>3 DEF BookStep
<1> QED
  BY <1>2, <1>3, <1>4, <1>5, <1>6 DEF SettlementTypeOK, MovementRows

-----------------------------------------------------------------------------
(* Nothing is used twice: sums over the records of a set that are posted.  *)

PostedSum(f, P, st) == SumFunctionOnSet(f, {x \in P : st[x] = "POSTED"})

\* Such a sum does not grow while nothing of the set is posted.
LEMMA PostedSumLess ==
    ASSUME NEW P, IsFiniteSet(P), NEW f, \A x \in P : f[x] \in Nat, NEW st, NEW st2,
           \A x \in P : st2[x] = "POSTED" => st[x] = "POSTED"
    PROVE  /\ PostedSum(f, P, st) \in Nat /\ PostedSum(f, P, st2) \in Nat
           /\ PostedSum(f, P, st2) <= PostedSum(f, P, st)
<1> DEFINE S == {x \in P : st2[x] = "POSTED"}
           T == {x \in P : st[x] = "POSTED"}
<1>1. IsFiniteSet(T) /\ S \in SUBSET T /\ \A x \in T : f[x] \in Nat
  <2>1. T \subseteq P
    OBVIOUS
  <2> QED
    BY <2>1, FS_Subset
<1>2. PostedSum(f, P, st) = SumFunctionOnSet(f, T) /\ PostedSum(f, P, st2) = SumFunctionOnSet(f, S)
  BY DEF PostedSum
<1> HIDE DEF S, T
<1> QED
  BY <1>1, <1>2, SumWithin

\* One record that is posted adds what it counts for.
LEMMA PostedSumMore ==
    ASSUME NEW P, IsFiniteSet(P), NEW f, \A x \in P : f[x] \in Nat, NEW st, NEW st2,
           NEW y, st[y] # "POSTED", st2[y] = "POSTED", \A x \in P : x # y => st2[x] = st[x]
    PROVE  /\ PostedSum(f, P, st) \in Nat
           /\ y \in P => PostedSum(f, P, st2) = PostedSum(f, P, st) + f[y]
           /\ y \notin P => PostedSum(f, P, st2) = PostedSum(f, P, st)
<1> DEFINE S == {x \in P : st2[x] = "POSTED"}
           T == {x \in P : st[x] = "POSTED"}
<1>1. IsFiniteSet(T) /\ (\A x \in T : f[x] \in Nat /\ f[x] \in Int) /\ y \notin T
  <2>1. T \subseteq P
    OBVIOUS
  <2> QED
    BY <2>1, FS_Subset
<1>2. PostedSum(f, P, st) = SumFunctionOnSet(f, T) /\ PostedSum(f, P, st2) = SumFunctionOnSet(f, S)
  BY DEF PostedSum
<1>3. S = IF y \in P THEN T \cup {y} ELSE T
  OBVIOUS
<1> HIDE DEF S, T
<1>4. SumFunctionOnSet(f, T) \in Nat
  BY <1>1, SumNat
<1>5. CASE y \in P
  <2>1. f[y] \in Int
    BY <1>5
  <2>2. SumFunctionOnSet(f, T \cup {y}) = f[y] + SumFunctionOnSet(f, T)
    BY <1>1, <2>1, SumAdd
  <2>3. SumFunctionOnSet(f, S) = f[y] + SumFunctionOnSet(f, T)
    BY <1>3, <1>5, <2>2
  <2> QED
    BY <1>2, <1>4, <1>5, <2>1, <2>3
<1>6. CASE y \notin P
  BY <1>2, <1>3, <1>4, <1>6
<1> QED
  BY <1>5, <1>6

\* What the refunds take from a source is such a sum.
Shares(rf, s) == [p \in Refunds |-> rf[p][s]]

LEMMA TakenIs ==
    ASSUME NEW rf \in [Refunds -> [Sources -> Nat]], NEW s \in Sources
    PROVE  /\ IsFiniteSet(Refunds) /\ \A p \in Refunds : Shares(rf, s)[p] = rf[p][s]
                                                         /\ Shares(rf, s)[p] \in Nat
           /\ \A st : TakenIn(st, rf, s) = PostedSum(Shares(rf, s), Refunds, st)
  BY SettlementConstants DEF Shares, TakenIn, PostedSum, PostedRefunds

\* b is a with one row more.
Adds(a, row, b) == b = Append(a, row)

\* An application counts for its source and its invoice, and for no other.
LEMMA AppliedMore ==
    ASSUME NEW a \in Seq(AllocationRows), NEW row \in AllocationRows, row.release_of = 0,
           NEW b, Adds(a, row, b)
    PROVE  /\ \A s : row.source = s =>
                  Total(b, Amounts, BySource(b, s)) = Total(a, Amounts, BySource(a, s)) + row.amount
           /\ \A s : row.source # s =>
                  Total(b, Amounts, BySource(b, s)) = Total(a, Amounts, BySource(a, s))
           /\ \A i : row.invoice = i =>
                  Total(b, Amounts, ByInvoice(b, i)) = Total(a, Amounts, ByInvoice(a, i)) + row.amount
           /\ \A i : row.invoice # i =>
                  Total(b, Amounts, ByInvoice(b, i)) = Total(a, Amounts, ByInvoice(a, i))
           /\ \A i, k : row.invoice = i =>
                  Total(b, Collects(k), ByInvoice(b, i))
                      = Total(a, Collects(k), ByInvoice(a, i)) + LineTax(row, k)
           /\ \A i, k : row.invoice # i =>
                  Total(b, Collects(k), ByInvoice(b, i)) = Total(a, Collects(k), ByInvoice(a, i))
<1> DEFINE last == Len(b)
<1>1. /\ b \in Seq(AllocationRows) /\ DOMAIN b = DOMAIN a \cup {last} /\ last \notin DOMAIN a
      /\ (\A n \in DOMAIN a : b[n] = a[n]) /\ b[last] = row
  <2> DEFINE R == AllocationRows
  <2>1. a \in Seq(R) /\ row \in R /\ b = Append(a, row)
    BY DEF Adds
  <2> HIDE DEF R
  <2>2. /\ b \in Seq(R) /\ DOMAIN b = DOMAIN a \cup {Len(b)} /\ Len(b) \notin DOMAIN a
        /\ (\A n \in DOMAIN a : b[n] = a[n]) /\ b[Len(b)] = row
    BY <2>1, AppendedOne
  <2> QED
    BY <2>2 DEF R
<1> HIDE DEF last
<1>0. a \in Seq(AllocationRows) /\ b \in Seq(AllocationRows) /\ OneMore(a, b, last)
  BY <1>1 DEF OneMore
<1>2. ASSUME NEW s, NEW V, Counted(V)
      PROVE  /\ row.source = s => Total(b, V, BySource(b, s)) = Total(a, V, BySource(a, s)) + V[row]
             /\ row.source # s => Total(b, V, BySource(b, s)) = Total(a, V, BySource(a, s))
  <2>1. /\ BySource(a, s) \in SUBSET DOMAIN a /\ BySource(b, s) \in SUBSET DOMAIN b
        /\ BySource(b, s) \cap DOMAIN a = BySource(a, s)
        /\ last \in BySource(b, s) <=> row.source = s
    BY <1>1 DEF BySource
  <2> DEFINE old == BySource(a, s)
             events == BySource(b, s)
  <2>2. old \in SUBSET DOMAIN a /\ events \in SUBSET DOMAIN b /\ events \cap DOMAIN a = old
    BY <2>1
  <2> HIDE DEF old, events
  <2>3. /\ last \in events => Total(b, V, events) = Total(a, V, old) + V[b[last]]
        /\ last \notin events => Total(b, V, events) = Total(a, V, old)
        /\ Total(a, V, old) \in Int
    BY ONLY <1>0, <1>2, <2>2, TotalAppended
  <2> QED
    BY <1>1, <2>1, <2>3 DEF old, events
<1>3. ASSUME NEW i, NEW V, Counted(V)
      PROVE  /\ row.invoice = i => Total(b, V, ByInvoice(b, i)) = Total(a, V, ByInvoice(a, i)) + V[row]
             /\ row.invoice # i => Total(b, V, ByInvoice(b, i)) = Total(a, V, ByInvoice(a, i))
  <2>1. /\ ByInvoice(a, i) \in SUBSET DOMAIN a /\ ByInvoice(b, i) \in SUBSET DOMAIN b
        /\ ByInvoice(b, i) \cap DOMAIN a = ByInvoice(a, i)
        /\ last \in ByInvoice(b, i) <=> row.invoice = i
    BY <1>1 DEF ByInvoice
  <2> DEFINE old == ByInvoice(a, i)
             events == ByInvoice(b, i)
  <2>2. old \in SUBSET DOMAIN a /\ events \in SUBSET DOMAIN b /\ events \cap DOMAIN a = old
    BY <2>1
  <2> HIDE DEF old, events
  <2>3. /\ last \in events => Total(b, V, events) = Total(a, V, old) + V[b[last]]
        /\ last \notin events => Total(b, V, events) = Total(a, V, old)
        /\ Total(a, V, old) \in Int
    BY ONLY <1>0, <1>3, <2>2, TotalAppended
  <2> QED
    BY <1>1, <2>1, <2>3 DEF old, events
<1>4. Counted(Amounts) /\ Amounts[row] = row.amount
  BY CountedRows
<1>5. \A k : Counted(Collects(k)) /\ Collects(k)[row] = LineTax(row, k)
  BY CountedRows
<1>6. /\ \A s : row.source = s =>
             Total(b, Amounts, BySource(b, s)) = Total(a, Amounts, BySource(a, s)) + row.amount
      /\ \A s : row.source # s =>
             Total(b, Amounts, BySource(b, s)) = Total(a, Amounts, BySource(a, s))
  BY <1>2, <1>4
<1>7. /\ \A i : row.invoice = i =>
             Total(b, Amounts, ByInvoice(b, i)) = Total(a, Amounts, ByInvoice(a, i)) + row.amount
      /\ \A i : row.invoice # i =>
             Total(b, Amounts, ByInvoice(b, i)) = Total(a, Amounts, ByInvoice(a, i))
  BY <1>3, <1>4
<1>8. /\ \A i, k : row.invoice = i =>
             Total(b, Collects(k), ByInvoice(b, i))
                 = Total(a, Collects(k), ByInvoice(a, i)) + LineTax(row, k)
      /\ \A i, k : row.invoice # i =>
             Total(b, Collects(k), ByInvoice(b, i)) = Total(a, Collects(k), ByInvoice(a, i))
  BY <1>3, <1>5
<1> QED
  BY <1>6, <1>7, <1>8

\* Releases count for nothing positive.
LEMMA AppliedLess ==
    ASSUME NEW a \in Seq(AllocationRows), NEW rows \in Seq(AllocationRows), Releasing(a, rows),
           NEW b, b = a \o rows
    PROVE  /\ \A s : Total(b, Amounts, BySource(b, s)) <= Total(a, Amounts, BySource(a, s))
           /\ \A i : Total(b, Amounts, ByInvoice(b, i)) <= Total(a, Amounts, ByInvoice(a, i))
           /\ \A i, k : Total(b, Collects(k), ByInvoice(b, i)) <= Total(a, Collects(k), ByInvoice(a, i))
<1>1. b \in Seq(AllocationRows) /\ DOMAIN a \subseteq DOMAIN b /\ \A n \in DOMAIN a : b[n] = a[n]
  <2> DEFINE R == AllocationRows
  <2>1. a \in Seq(R) /\ rows \in Seq(R)
    OBVIOUS
  <2> HIDE DEF R
  <2>2. b \in Seq(R) /\ DOMAIN a \subseteq DOMAIN b /\ \A n \in DOMAIN a : b[n] = a[n]
    BY <2>1, Appended
  <2> QED
    BY <2>2 DEF R
<1>2. \A k \in DOMAIN rows : rows[k] \in AllocationRows /\ rows[k].release_of # 0
  <2>1. \A k \in DOMAIN rows : rows[k] \in AllocationRows
    OBVIOUS
  <2>2. \A k \in DOMAIN rows : rows[k].release_of \in DOMAIN a
    BY DEF Releasing, Repeats
  <2>3. 0 \notin DOMAIN a
    OBVIOUS
  <2> QED
    BY <2>1, <2>2, <2>3
<1>3. \A k \in DOMAIN rows : Amounts[rows[k]] <= 0
  BY <1>2, CountedRows, AllocationFields
<1>4. \A j : \A k \in DOMAIN rows : Collects(j)[rows[k]] <= 0
  <2> TAKE j
  <2> TAKE k \in DOMAIN rows
  <2>1. LineTax(rows[k], j) \in Nat /\ Collects(j)[rows[k]] = -LineTax(rows[k], j)
    BY <1>2, CountedRows
  <2> HIDE DEF Collects, LineTax
  <2> QED
    BY <2>1
<1>5. ASSUME NEW s
      PROVE  Total(b, Amounts, BySource(b, s)) <= Total(a, Amounts, BySource(a, s))
  <2>1. /\ BySource(a, s) \in SUBSET DOMAIN a /\ BySource(b, s) \in SUBSET DOMAIN b
        /\ BySource(b, s) \cap DOMAIN a = BySource(a, s)
    BY <1>1 DEF BySource
  <2> QED
    BY <1>3, <2>1, TotalLower, CountedRows
<1>6. ASSUME NEW i, NEW V, Counted(V), \A k \in DOMAIN rows : V[rows[k]] <= 0
      PROVE  Total(b, V, ByInvoice(b, i)) <= Total(a, V, ByInvoice(a, i))
  <2>1. /\ ByInvoice(a, i) \in SUBSET DOMAIN a /\ ByInvoice(b, i) \in SUBSET DOMAIN b
        /\ ByInvoice(b, i) \cap DOMAIN a = ByInvoice(a, i)
    BY <1>1 DEF ByInvoice
  <2> QED
    BY <1>6, <2>1, TotalLower
<1> QED
  BY <1>3, <1>4, <1>5, <1>6, CountedRows

\* What a source has left and what is due on an invoice are whole amounts, not negative,
\* before a record is posted too: nothing is allocated to it or refunded of it then.
LEMMA FiguresNonneg ==
    SettlementInvariant =>
        /\ \A s \in Sources : AvailableIn(allocations, status, refunds, s) >= 0
        /\ \A s \in Sources : status[s] = "APPROVED" =>
               AvailableIn(allocations, status, refunds, s) = Value(s)
        /\ \A i \in Invoices : DueIn(allocations, i) >= 0
<1> SUFFICES ASSUME SettlementInvariant
             PROVE  /\ \A s \in Sources : AvailableIn(allocations, status, refunds, s) >= 0
                    /\ \A s \in Sources : status[s] = "APPROVED" =>
                           AvailableIn(allocations, status, refunds, s) = Value(s)
                    /\ \A i \in Invoices : DueIn(allocations, i) >= 0
  OBVIOUS
<1>1. SettlementTypeOK /\ EntriesFit /\ SourcesFit /\ RefundsFit /\ NoOverApplication
  BY DEF SettlementInvariant
<1>2. Linked(allocations, status)
  BY AllocationParts DEF SettlementInvariant
<1>3. /\ allocations \in Seq(AllocationRows) /\ refunds \in [Refunds -> [Sources -> Nat]]
      /\ status \in [FinancialRecords -> {"APPROVED", "POSTED", "REVERSED"}]
  BY <1>1 DEF SettlementTypeOK
<1>4. ASSUME NEW s \in Sources, status[s] = "APPROVED"
      PROVE  AvailableIn(allocations, status, refunds, s) = Value(s)
  <2>1. BySource(allocations, s) = {}
    BY <1>2, <1>4 DEF BySource, Linked
  <2>2. Total(allocations, Amounts, BySource(allocations, s)) = 0
    BY <2>1, SumOfNone DEF Total
  <2>3. \A p \in Refunds : refunds[p][s] = 0
    <3>1. s \notin Range(sources)
      BY <1>1, <1>4 DEF SourcesFit
    <3>2. \A p \in Refunds : refunds[p][s] \in Nat /\ ~(refunds[p][s] > 0)
      BY <1>1, <1>3, <3>1 DEF RefundsFit
    <3> QED
      BY <3>2
  <2>4. TakenIn(status, refunds, s) = 0
    <3> DEFINE f == [p \in Refunds |-> refunds[p][s]]
    <3>1. IsFiniteSet(PostedRefunds(status)) /\ \A p \in PostedRefunds(status) : f[p] = 0
      BY <2>3, SettlementConstants, FS_Subset DEF PostedRefunds
    <3>2. TakenIn(status, refunds, s) = SumFunctionOnSet(f, PostedRefunds(status))
      BY DEF TakenIn
    <3> HIDE DEF f
    <3> QED
      BY <3>1, <3>2, SumZero
  <2>5. Value(s) \in Nat
    BY Kinds, Values
  <2> QED
    BY <1>4, <2>2, <2>4, <2>5 DEF AvailableIn
<1>5. ASSUME NEW s \in Sources
      PROVE  AvailableIn(allocations, status, refunds, s) >= 0
  <2>1. Value(s) >= 0
    BY Kinds, Values
  <2>2. CASE status[s] = "APPROVED"
    BY <1>4, <2>1, <2>2
  <2>3. CASE status[s] # "APPROVED"
    BY <1>1, <2>3, CurrentFigures, Kinds DEF NoOverApplication, SourcesFit
  <2> QED
    BY <2>2, <2>3
<1>6. ASSUME NEW i \in Invoices
      PROVE  DueIn(allocations, i) >= 0
  <2>1. CASE status[i] = "POSTED"
    BY <1>1, <2>1, CurrentFigures DEF NoOverApplication
  <2>2. CASE status[i] # "POSTED"
    <3>1. ByInvoice(allocations, i) = {}
      BY <1>2, <2>2 DEF ByInvoice, Linked
    <3>2. Total(allocations, Amounts, ByInvoice(allocations, i)) = 0
      BY <3>1, SumOfNone DEF Total
    <3>3. Value(i) \in Nat
      BY Kinds, Values
    <3> QED
      BY <3>2, <3>3 DEF DueIn
  <2> QED
    BY <2>1, <2>2
<1> QED
  BY <1>4, <1>5, <1>6

\* What is applied is a whole amount.
LEMMA AppliedInt ==
    ASSUME NEW a \in Seq(AllocationRows)
    PROVE  /\ \A s : Total(a, Amounts, BySource(a, s)) \in Int
           /\ \A i : Total(a, Amounts, ByInvoice(a, i)) \in Int
           /\ \A i, k : Total(a, Collects(k), ByInvoice(a, i)) \in Int
<1>1. ASSUME NEW V, Counted(V), NEW events \in SUBSET DOMAIN a
      PROVE  Total(a, V, events) \in Int
  BY <1>1, TotalInt
<1>2. /\ \A s : BySource(a, s) \in SUBSET DOMAIN a
      /\ \A i : ByInvoice(a, i) \in SUBSET DOMAIN a
  BY DEF BySource, ByInvoice
<1> QED
  BY <1>1, <1>2, CountedRows

\* No invoice is settled beyond its amount.
LEMMA DueKept ==
    SettlementInvariant /\ [SettlementNext]_settlementVars =>
        \A i \in Invoices : DueIn(allocations', i) >= 0
<1> SUFFICES ASSUME SettlementInvariant, [SettlementNext]_settlementVars, NEW i \in Invoices
             PROVE  DueIn(allocations', i) >= 0
  OBVIOUS
<1>1. SettlementTypeOK /\ EntriesFit
  BY DEF SettlementInvariant
<1>2. allocations \in Seq(AllocationRows) /\ allocations' \in Seq(AllocationRows)
  BY <1>1, AllocationsKept DEF SettlementTypeOK
<1>3. /\ DueIn(allocations, i) >= 0 /\ Value(i) \in Int
      /\ Total(allocations, Amounts, ByInvoice(allocations, i)) \in Int
      /\ Total(allocations', Amounts, ByInvoice(allocations', i)) \in Int
  BY <1>2, FiguresNonneg, AppliedInt, Kinds, Values
<1>4. CASE allocations' = allocations
  BY <1>3, <1>4
<1>5. ASSUME NEW row, Applying(row)
      PROVE  DueIn(allocations', i) >= 0
  <2>1. /\ row \in AllocationRows /\ row.release_of = 0 /\ allocations' = Append(allocations, row)
        /\ row.amount <= invoice_due(row.invoice, Today) /\ row.amount \in Int
    BY <1>5, AllocationFields DEF Applying
  <2>2. row.amount <= DueIn(allocations, row.invoice)
    BY <1>1, <2>1, CurrentFigures
  <2>3. Total(allocations', Amounts, ByInvoice(allocations', i))
            = Total(allocations, Amounts, ByInvoice(allocations, i))
                  + (IF row.invoice = i THEN row.amount ELSE 0)
    <3> DEFINE b == allocations'
    <3>1. Adds(allocations, row, b)
      BY <2>1 DEF Adds
    <3> HIDE DEF b
    <3>2. /\ \A x : row.invoice = x => Total(b, Amounts, ByInvoice(b, x))
                 = Total(allocations, Amounts, ByInvoice(allocations, x)) + row.amount
          /\ \A x : row.invoice # x => Total(b, Amounts, ByInvoice(b, x))
                 = Total(allocations, Amounts, ByInvoice(allocations, x))
      BY ONLY <1>2, <2>1, <3>1, AppliedMore
    <3> QED
      BY <1>3, <2>1, <3>2 DEF b
  <2> QED
    BY <1>3, <2>1, <2>2, <2>3 DEF DueIn
<1>6. ASSUME NEW rows, ReleaseStep(rows)
      PROVE  DueIn(allocations', i) >= 0
  <2>1. Total(allocations', Amounts, ByInvoice(allocations', i))
            <= Total(allocations, Amounts, ByInvoice(allocations, i))
    BY <1>2, <1>6, AppliedLess DEF ReleaseStep
  <2> QED
    BY <1>3, <2>1 DEF DueIn
<1>7. ASSUME NEW r \in FinancialRecords, NEW day, ReverseRecord(r, day)
      PROVE  \E rows : ReleaseStep(rows)
  BY <1>7, ReversalReleases
<1>8. ASSUME NEW p, NEW day, PostRefund(p, day)
      PROVE  allocations' = allocations
  BY <1>8 DEF PostRefund
<1>9. MoneyStep
  BY MoneySteps
<1> QED
  BY <1>4, <1>5, <1>6, <1>7, <1>8, <1>9 DEF MoneyStep

\* No source is used beyond its amount.
LEMMA AvailableKept ==
    SettlementInvariant /\ [SettlementNext]_settlementVars =>
        \A s \in Sources : AvailableIn(allocations', status', refunds', s) >= 0
<1> SUFFICES ASSUME SettlementInvariant, [SettlementNext]_settlementVars, NEW s \in Sources
             PROVE  AvailableIn(allocations', status', refunds', s) >= 0
  OBVIOUS
<1>1. SettlementTypeOK /\ EntriesFit /\ SettlementTypeOK' /\ MoneyStep /\ BookStep /\ SourcesFit
  BY SettlementTypeKept, MoneySteps, BookSteps DEF SettlementInvariant
<1>2. /\ allocations \in Seq(AllocationRows) /\ allocations' \in Seq(AllocationRows)
      /\ refunds \in [Refunds -> [Sources -> Nat]] /\ refunds' \in [Refunds -> [Sources -> Nat]]
      /\ status \in [FinancialRecords -> {"APPROVED", "POSTED", "REVERSED"}]
      /\ s \in FinancialRecords
  BY <1>1, Kinds DEF SettlementTypeOK
<1> DEFINE before == Total(allocations, Amounts, BySource(allocations, s))
           after == Total(allocations', Amounts, BySource(allocations', s))
           taken == TakenIn(status, refunds, s)
           taking == TakenIn(status', refunds', s)
           all == Value(s)
<1>3. before \in Int /\ after \in Int /\ all \in Int
  BY <1>2, AppliedInt, Values
<1>4. /\ IsFiniteSet(Refunds)
      /\ \A p \in Refunds : Shares(refunds, s)[p] = refunds[p][s] /\ Shares(refunds, s)[p] \in Nat
      /\ \A p \in Refunds : Shares(refunds', s)[p] = refunds'[p][s] /\ Shares(refunds', s)[p] \in Nat
      /\ taken = PostedSum(Shares(refunds, s), Refunds, status)
      /\ taking = PostedSum(Shares(refunds', s), Refunds, status')
      /\ TakenIn(status', refunds, s) = PostedSum(Shares(refunds, s), Refunds, status')
  BY <1>2, TakenIs
<1>5. /\ AvailableIn(allocations, status, refunds, s)
             = IF status[s] = "REVERSED" THEN 0 ELSE all - before - taken
      /\ AvailableIn(allocations', status', refunds', s)
             = IF status'[s] = "REVERSED" THEN 0 ELSE all - after - taking
  BY DEF AvailableIn
<1>6. /\ AvailableIn(allocations, status, refunds, s) >= 0
      /\ status[s] = "APPROVED" => AvailableIn(allocations, status, refunds, s) = all
  BY FiguresNonneg
<1>7. status[s] = "REVERSED" => status'[s] = "REVERSED"
  BY <1>1, <1>2, StatusForward DEF Forward
<1> HIDE DEF before, after, taken, taking, all
<1>8. ASSUME \A p \in Refunds : status'[p] = "POSTED" => status[p] = "POSTED", refunds' = refunds
      PROVE  taken \in Nat /\ taking \in Nat /\ taking <= taken
  <2>1. /\ PostedSum(Shares(refunds, s), Refunds, status) \in Nat
        /\ PostedSum(Shares(refunds, s), Refunds, status') \in Nat
        /\ PostedSum(Shares(refunds, s), Refunds, status')
               <= PostedSum(Shares(refunds, s), Refunds, status)
    BY <1>4, <1>8, PostedSumLess
  <2> QED
    BY <1>4, <1>8, <2>1
<1>9. ASSUME after <= before, taken \in Nat, taking \in Nat, taking <= taken
      PROVE  AvailableIn(allocations', status', refunds', s) >= 0
  BY <1>3, <1>5, <1>6, <1>7, <1>9
<1>10. CASE allocations' = allocations /\ SameRefunds /\ NoReversal
  <2>1. after <= before
    BY <1>3, <1>10 DEF after, before
  <2> QED
    BY <1>8, <1>9, <1>10, <2>1 DEF SameRefunds
<1>11. ASSUME NEW row, Applying(row), SameRefunds, NoReversal
       PROVE  AvailableIn(allocations', status', refunds', s) >= 0
  <2>1. /\ row \in AllocationRows /\ row.release_of = 0 /\ allocations' = Append(allocations, row)
        /\ row.amount \in Int /\ row.source \in Sources
    BY <1>11, AllocationFields DEF Applying
  <2>2. after = before + (IF row.source = s THEN row.amount ELSE 0)
    <3> DEFINE b == allocations'
    <3>1. Adds(allocations, row, b)
      BY <2>1 DEF Adds
    <3> HIDE DEF b
    <3>2. /\ \A x : row.source = x => Total(b, Amounts, BySource(b, x))
                 = Total(allocations, Amounts, BySource(allocations, x)) + row.amount
          /\ \A x : row.source # x => Total(b, Amounts, BySource(b, x))
                 = Total(allocations, Amounts, BySource(allocations, x))
      BY ONLY <1>2, <2>1, <3>1, AppliedMore
    <3> QED
      BY <1>3, <2>1, <3>2 DEF b, after, before
  <2>3. taken \in Nat /\ taking \in Nat /\ taking <= taken
    BY <1>8, <1>11 DEF SameRefunds
  <2>4. CASE row.source # s
    BY <1>3, <1>9, <2>2, <2>3, <2>4
  <2>5. CASE row.source = s
    <3>1. row.amount <= AvailableIn(allocations, status, refunds, s)
      <4>1. CASE status[s] = "APPROVED"
        BY <1>6, <1>11, <2>5, <4>1, CurrentFigures, <1>1, <1>2 DEF Applying, all
      <4>2. CASE status[s] # "APPROVED"
        BY <1>1, <1>2, <1>11, <2>5, <4>2, CurrentFigures DEF Applying
      <4> QED
        BY <4>1, <4>2
    <3>2. status[s] # "REVERSED" /\ status'[s] # "REVERSED"
      BY <1>7, <1>11, <2>5 DEF Applying
    <3>3. row.amount <= all - before - taken /\ after = before + row.amount
      BY <1>5, <2>2, <2>5, <3>1, <3>2
    <3> QED
      BY <1>3, <1>5, <2>1, <2>3, <3>2, <3>3
  <2> QED
    BY <2>4, <2>5
<1>12. ASSUME NEW rows, ReleaseStep(rows)
       PROVE  after <= before
  BY <1>2, <1>12, AppliedLess DEF ReleaseStep, after, before
<1>13. ASSUME NEW r \in FinancialRecords, NEW day, ReverseRecord(r, day)
       PROVE  AvailableIn(allocations', status', refunds', s) >= 0
  <2>1. after <= before
    BY <1>12, <1>13, ReversalReleases
  <2>2. refunds' = refunds /\ status' = [status EXCEPT ![r] = "REVERSED"]
    BY <1>13 DEF ReverseRecord
  <2>3. \A p \in Refunds : status'[p] = "POSTED" => status[p] = "POSTED"
    BY <1>2, <2>2, Kinds
  <2> QED
    BY <1>8, <1>9, <2>1, <2>2, <2>3
<1>14. ASSUME NEW p \in Refunds, NEW day, PostRefund(p, day)
       PROVE  AvailableIn(allocations', status', refunds', s) >= 0
  <2> DEFINE parts == [x \in Sources |-> IF x \in Range(sources) THEN RefundPart(p, x) ELSE 0]
  <2>1. /\ status[p] = "APPROVED" /\ status' = [status EXCEPT ![p] = "POSTED"]
        /\ allocations' = allocations /\ refunds' = [refunds EXCEPT ![p] = parts]
    BY <1>14 DEF PostRefund, MarkPosted
  <2>2. /\ status[p] # "POSTED" /\ status'[p] = "POSTED" /\ status'[s] = status[s]
        /\ \A x \in Refunds : x # p => status'[x] = status[x]
        /\ \A x \in Refunds : x # p => refunds'[x] = refunds[x]
        /\ refunds'[p] = parts
    <3>1. s # p /\ \A x \in Refunds : x \in FinancialRecords
      BY Kinds, NotRefunds
    <3> QED
      BY <1>2, <2>1, <3>1
  <2>3. parts[s] \in Nat /\ (parts[s] > 0 => parts[s] <= AvailableIn(allocations, status, refunds, s))
    <3>1. CASE s \in Range(sources)
      BY <1>1, <1>2, <3>1, RefundPartFits, CurrentFigures
    <3>2. CASE s \notin Range(sources)
      BY <3>2
    <3> QED
      BY <3>1, <3>2
  <2>4. after = before
    BY <2>1 DEF after, before
  <2>5. taken \in Nat /\ taking = taken + parts[s]
    <3> DEFINE f == Shares(refunds, s)
               g == Shares(refunds', s)
    <3>1. /\ \A x \in Refunds : g[x] \in Nat /\ f[x] \in Nat
          /\ \A x \in Refunds : x # p => g[x] = f[x]
          /\ g[p] = parts[s]
      BY <1>4, <2>2
    <3>2. /\ PostedSum(g, Refunds, status) \in Nat
          /\ PostedSum(g, Refunds, status') = PostedSum(g, Refunds, status) + g[p]
      <4>1. IsFiniteSet(Refunds) /\ p \in Refunds /\ \A x \in Refunds : g[x] \in Nat
        BY <1>4, <3>1
      <4>2. /\ status[p] # "POSTED" /\ status'[p] = "POSTED"
            /\ \A x \in Refunds : x # p => status'[x] = status[x]
        BY <2>2
      <4> HIDE DEF g
      <4>3. /\ PostedSum(g, Refunds, status) \in Nat
            /\ PostedSum(g, Refunds, status') = PostedSum(g, Refunds, status) + g[p]
        BY ONLY <4>1, <4>2, PostedSumMore
      <4> QED
        BY <4>1, <4>3
    <3>3. PostedSum(g, Refunds, status) = PostedSum(f, Refunds, status)
      <4> DEFINE T == {x \in Refunds : status[x] = "POSTED"}
      <4>1. IsFiniteSet(T) /\ \A x \in T : g[x] = f[x]
        <5>1. T \subseteq Refunds
          OBVIOUS
        <5>2. \A x \in T : g[x] = f[x]
          <6> HIDE DEF f, g
          <6> QED
            BY <2>1, <3>1
        <5> QED
          BY <1>4, <5>1, <5>2, FS_Subset
      <4>2. /\ PostedSum(g, Refunds, status) = SumFunctionOnSet(g, T)
            /\ PostedSum(f, Refunds, status) = SumFunctionOnSet(f, T)
        BY DEF PostedSum
      <4> HIDE DEF f, g, T
      <4> QED
        BY <4>1, <4>2, SumSame
    <3> HIDE DEF f, g, parts
    <3> QED
      BY <1>4, <3>1, <3>2, <3>3 DEF f, g
  <2> HIDE DEF parts
  <2>6. taken \in Int /\ taking \in Int /\ taking = taken + parts[s] /\ parts[s] \in Nat
    BY <2>3, <2>5
  <2>7. parts[s] = 0 \/ parts[s] <= AvailableIn(allocations, status, refunds, s)
    BY <2>3
  <2> QED
    BY <1>3, <1>5, <1>6, <2>2, <2>4, <2>6, <2>7
<1>15. ASSUME status' = status, refunds' = refunds, NEW rows, ReleaseStep(rows)
       PROVE  AvailableIn(allocations', status', refunds', s) >= 0
  BY <1>8, <1>9, <1>12, <1>15
<1> QED
  BY <1>1, <1>10, <1>11, <1>13, <1>14, <1>15 DEF MoneyStep

\* A reversed source keeps nothing applied, and never gets anything applied again.
SettlesNothing(a, st) ==
    \A n \in DOMAIN a : a[n].release_of = 0 /\ st[a[n].source] = "REVERSED" => ActiveIn(a, n) = 0

LEMMA ReversedKept ==
    SettlementInvariant /\ [SettlementNext]_settlementVars => SettlesNothing(allocations', status')
<1> SUFFICES ASSUME SettlementInvariant, [SettlementNext]_settlementVars
             PROVE  SettlesNothing(allocations', status')
  OBVIOUS
<1>1. SettlementTypeOK /\ EntriesFit /\ ReversedSettlesNothing /\ BookStep /\ MoneyStep
  BY MoneySteps, BookSteps DEF SettlementInvariant
<1>2. /\ allocations \in Seq(AllocationRows)
      /\ status \in [FinancialRecords -> {"APPROVED", "POSTED", "REVERSED"}]
      /\ Structure(allocations) /\ Remains(allocations)
  BY <1>1, AllocationParts, RemainsParts DEF SettlementTypeOK, SettlementInvariant, NoOverApplication
<1>3. SettlesNothing(allocations, status)
  BY <1>1, LeftFigures DEF ReversedSettlesNothing, SettlesNothing
<1>4. \A n \in DOMAIN allocations :
          allocations[n].source \in FinancialRecords /\ allocations[n].source \in Sources
  BY <1>2, AllocationFields, Kinds
<1>5. ASSUME allocations' = allocations, NoReversal
      PROVE  SettlesNothing(allocations', status')
  BY <1>3, <1>4, <1>5 DEF NoReversal, SettlesNothing
<1>6. ASSUME NEW row, Applying(row), NoReversal
      PROVE  SettlesNothing(allocations', status')
  <2> DEFINE b == allocations'
             R == AllocationRows
  <2>1. /\ row \in AllocationRows /\ row.release_of = 0 /\ LinesOnce(row)
        /\ b = Append(allocations, row) /\ status'[row.source] = "POSTED"
    BY <1>6 DEF Applying
  <2>2. allocations \in Seq(R) /\ row \in R
    BY <1>2, <2>1
  <2> HIDE DEF b, R
  <2>3. \A n \in DOMAIN allocations : allocations[n].release_of = 0 =>
            ActiveIn(b, n) = ActiveIn(allocations, n)
    BY ONLY <1>2, <2>1, ApplicationAdded
  <2>4. /\ DOMAIN b = DOMAIN allocations \cup {Len(b)} /\ b[Len(b)] = row
        /\ \A n \in DOMAIN allocations : b[n] = allocations[n]
    BY <2>1, <2>2, AppendedOne
  <2>5. \A n \in DOMAIN allocations :
            status'[allocations[n].source] = "REVERSED" => status[allocations[n].source] = "REVERSED"
    BY <1>4, <1>6 DEF NoReversal
  <2>6. SettlesNothing(b, status')
    BY <1>3, <2>1, <2>3, <2>4, <2>5 DEF SettlesNothing
  <2> QED
    BY <2>6 DEF b
<1>7. ASSUME NEW rows, ReleaseStep(rows), NEW n \in DOMAIN allocations',
             allocations'[n].release_of = 0
      PROVE  /\ n \in DOMAIN allocations /\ allocations'[n] = allocations[n]
             /\ allocations[n].release_of = 0
             /\ ActiveIn(allocations, n) = 0 => ActiveIn(allocations', n) = 0
             /\ \A k \in DOMAIN rows :
                    rows[k].release_of = n /\ rows[k].amount = ActiveIn(allocations, n)
                        => ActiveIn(allocations', n) = 0
  <2> DEFINE b == allocations'
             R == AllocationRows
  <2>1. /\ rows \in Seq(AllocationRows) /\ Releasing(allocations, rows) /\ b = allocations \o rows
    BY <1>7 DEF ReleaseStep
  <2>2. allocations \in Seq(R) /\ rows \in Seq(R) /\ n \in DOMAIN b /\ b[n].release_of = 0
    BY <1>2, <1>7, <2>1
  <2> HIDE DEF b, R
  <2>3. /\ \A m \in DOMAIN allocations : b[m] = allocations[m]
        /\ \A m \in DOMAIN b \ DOMAIN allocations :
               m - Len(allocations) \in DOMAIN rows /\ b[m] = rows[m - Len(allocations)]
    BY <2>1, <2>2, Appended
  <2>4. \A k \in DOMAIN rows : rows[k].release_of # 0 /\ rows[k].amount \in Nat /\ rows[k].amount > 0
    <3>1. \A k \in DOMAIN rows : rows[k] \in AllocationRows /\ rows[k].release_of \in DOMAIN allocations
      BY <2>1 DEF Releasing, Repeats
    <3>2. 0 \notin DOMAIN allocations
      BY <1>2
    <3> QED
      BY <3>1, <3>2, AllocationFields
  <2>5. n \in DOMAIN allocations /\ b[n] = allocations[n] /\ allocations[n].release_of = 0
    BY <2>2, <2>3, <2>4
  <2>6. /\ (\A k \in DOMAIN rows : rows[k].release_of # n) => Untouched(allocations, b, n)
        /\ \A k \in DOMAIN rows : rows[k].release_of = n => Reduced(allocations, b, n, rows[k])
    BY <1>2, <2>1, <2>5, ReleasedFrom
  <2>7. ActiveIn(allocations, n) \in Int
    BY <1>2, <2>5, RemainsInt
  <2>8. ASSUME ActiveIn(allocations, n) = 0
        PROVE  ActiveIn(b, n) = 0
    <3>1. \A k \in DOMAIN rows : rows[k].amount <= ActiveIn(allocations, rows[k].release_of)
      BY <2>1 DEF Releasing
    <3>2. \A k \in DOMAIN rows : rows[k].release_of # n
      BY <2>4, <2>8, <3>1
    <3> QED
      BY <2>6, <2>8, <3>2 DEF Untouched
  <2>9. ASSUME NEW k \in DOMAIN rows, rows[k].release_of = n,
               rows[k].amount = ActiveIn(allocations, n)
        PROVE  ActiveIn(b, n) = 0
    BY <2>6, <2>7, <2>9 DEF Reduced
  <2> QED
    BY <2>5, <2>8, <2>9 DEF b
<1>8. ASSUME status' = status, NEW rows, ReleaseStep(rows)
      PROVE  SettlesNothing(allocations', status')
  BY <1>3, <1>7, <1>8 DEF SettlesNothing
<1>9. ASSUME NEW r \in FinancialRecords, NEW day, ReverseRecord(r, day)
      PROVE  SettlesNothing(allocations', status')
  <2>1. PICK rows : /\ ReleaseStep(rows)
                    /\ \A n \in ToRelease(r) : \E k \in DOMAIN rows :
                           rows[k].release_of = n /\ rows[k].amount = Active(n)
    BY <1>9, ReversalReleases
  <2>2. status' = [status EXCEPT ![r] = "REVERSED"]
    BY <1>9 DEF ReverseRecord
  <2> SUFFICES ASSUME NEW n \in DOMAIN allocations', allocations'[n].release_of = 0,
                      status'[allocations'[n].source] = "REVERSED"
               PROVE  ActiveIn(allocations', n) = 0
    BY DEF SettlesNothing
  <2>3. /\ n \in DOMAIN allocations /\ allocations'[n] = allocations[n]
        /\ allocations[n].release_of = 0
        /\ ActiveIn(allocations, n) = 0 => ActiveIn(allocations', n) = 0
        /\ \A k \in DOMAIN rows :
               rows[k].release_of = n /\ rows[k].amount = ActiveIn(allocations, n)
                   => ActiveIn(allocations', n) = 0
    BY <1>7, <2>1
  <2>4. ActiveIn(allocations, n) \in Int /\ ActiveIn(allocations, n) >= 0
    BY <1>2, <2>3, RemainsInt DEF Remains
  <2>5. CASE allocations[n].source # r
    <3>1. status[allocations[n].source] = "REVERSED"
      BY <1>2, <1>4, <2>2, <2>3, <2>5
    <3> QED
      BY <1>3, <2>3, <3>1 DEF SettlesNothing
  <2>6. CASE allocations[n].source = r
    <3>1. CASE ActiveIn(allocations, n) = 0
      BY <2>3, <3>1
    <3>2. CASE ActiveIn(allocations, n) > 0
      <4>1. n \in ToRelease(r)
        BY <2>3, <2>6, <3>2, LeftFigures DEF ToRelease
      <4>2. PICK k \in DOMAIN rows : rows[k].release_of = n /\ rows[k].amount = Active(n)
        BY <2>1, <4>1
      <4> QED
        BY <2>3, <4>2, LeftFigures
    <3> QED
      BY <2>4, <3>1, <3>2
  <2> QED
    BY <2>5, <2>6
<1>10. ASSUME NEW p \in Refunds, NEW day, PostRefund(p, day)
       PROVE  SettlesNothing(allocations', status')
  <2>1. allocations' = allocations /\ status' = [status EXCEPT ![p] = "POSTED"]
    BY <1>10 DEF PostRefund, MarkPosted
  <2>2. NoReversal
    BY <1>2, <2>1 DEF NoReversal
  <2> QED
    BY <1>5, <2>1, <2>2
<1> QED
  BY <1>1, <1>5, <1>6, <1>8, <1>9, <1>10 DEF MoneyStep

-----------------------------------------------------------------------------
(* The tax of a line: what is collected, withheld and credited of it.      *)

Withholders(i, k) ==
    {w \in Withholdings : /\ Content[w].treatment = "VAT"
                          /\ Content[w].invoice = i /\ Content[w].line = k}
WithheldBy == [w \in Withholdings |-> Content[w].amount]
Creditors(i) == {c \in Credits : Content[c].invoice = i}
CreditedBy(k) == [c \in Credits |-> CreditOf(c, k).tax]
RemainingIn(a, st, i, k) ==
    Line(i, k).tax - Total(a, Collects(k), ByInvoice(a, i))
        - PostedSum(WithheldBy, Withholders(i, k), st) - PostedSum(CreditedBy(k), Creditors(i), st)

LEMMA RemainingIs ==
    SettlementTypeOK => \A i, k : RemainingTax(i, k) = RemainingIn(allocations, status, i, k)
<1> SUFFICES ASSUME SettlementTypeOK, NEW i, NEW k
             PROVE  RemainingTax(i, k) = RemainingIn(allocations, status, i, k)
  OBVIOUS
<1>1. tax_collected(i, k) = Total(allocations, Collects(k), ByInvoice(allocations, i))
  BY CollectedIs
<1>2. tax_withheld(i, k) = PostedSum(WithheldBy, Withholders(i, k), status)
  <2>1. Withheld(i, k, "VAT") = {x \in Withholders(i, k) : status[x] = "POSTED"}
    BY DEF Withheld, Withholders
  <2> QED
    BY <2>1 DEF tax_withheld, PostedSum, WithheldBy
<1>3. credited(i, k) = PostedSum(CreditedBy(k), Creditors(i), status)
  <2>1. Crediting(i) = {x \in Creditors(i) : status[x] = "POSTED"}
    BY DEF Crediting, Creditors
  <2> QED
    BY <2>1 DEF credited, PostedSum, CreditedBy
<1> QED
  BY <1>1, <1>2, <1>3 DEF RemainingTax, RemainingIn

\* What withholdings and credit notes take is whole; a credit note takes what one of
\* its rows says, or nothing.
LEMMA TaxTaken ==
    ASSUME NEW i \in Invoices, NEW k \in LinesOf(i)
    PROVE  /\ IsFiniteSet(Withholders(i, k)) /\ IsFiniteSet(Creditors(i)) /\ Line(i, k).tax \in Nat
           /\ \A w \in Withholders(i, k) :
                  WithheldBy[w] = Content[w].amount /\ WithheldBy[w] \in Nat /\ WithheldBy[w] = Value(w)
           /\ \A c \in Creditors(i) :
                  /\ CreditedBy(k)[c] \in Nat
                  /\ \/ CreditedBy(k)[c] = 0
                     \/ \E row \in Range(Content[c].rows) :
                            row.line = k /\ CreditedBy(k)[c] = row.tax
<1>1. IsFiniteSet(Withholders(i, k)) /\ IsFiniteSet(Creditors(i))
  <2>1. Withholders(i, k) \subseteq Withholdings /\ Creditors(i) \subseteq Credits
    BY DEF Withholders, Creditors
  <2> QED
    BY <2>1, SettlementConstants, FS_Subset
<1>2. Line(i, k).tax \in Nat
  <2>1. Content[i].lines \in Seq(LineRows) /\ k \in DOMAIN Content[i].lines
    BY SettlementConstants DEF LinesOf
  <2>2. Content[i].lines[k] \in LineRows
    BY <2>1
  <2> QED
    BY <2>2 DEF Line, LineRows
<1>3. ASSUME NEW w \in Withholders(i, k)
      PROVE  WithheldBy[w] = Content[w].amount /\ WithheldBy[w] \in Nat /\ WithheldBy[w] = Value(w)
  <2>1. w \in Withholdings
    BY DEF Withholders
  <2>2. w \notin Invoices /\ w \notin Credits
    BY <2>1, Kinds
  <2>3. Content[w].amount \in Nat
    BY <2>1, SettlementConstants
  <2> QED
    BY <2>1, <2>2, <2>3 DEF WithheldBy, Value
<1>4. ASSUME NEW c \in Creditors(i)
      PROVE  /\ CreditedBy(k)[c] \in Nat
             /\ \/ CreditedBy(k)[c] = 0
                \/ \E row \in Range(Content[c].rows) : row.line = k /\ CreditedBy(k)[c] = row.tax
  <2>1. c \in Credits
    BY DEF Creditors
  <2>2. CreditedBy(k)[c] = CreditOf(c, k).tax
    BY <2>1 DEF CreditedBy
  <2> DEFINE rows == {row \in Range(Content[c].rows) : row.line = k}
  <2>3. CASE rows = {}
    BY <2>2, <2>3 DEF CreditOf
  <2>4. CASE rows # {}
    <3>1. CreditOf(c, k) = CHOOSE row \in rows : TRUE
      BY <2>4 DEF CreditOf
    <3>2. CreditOf(c, k) \in rows
      BY <2>4, <3>1
    <3>3. \A row \in Range(Content[c].rows) : row \in CreditRows
      BY <2>1, SettlementConstants DEF Range
    <3>4. CreditOf(c, k) \in Range(Content[c].rows) /\ CreditOf(c, k).line = k
      BY <3>2
    <3>5. CreditOf(c, k) \in CreditRows
      BY <3>3, <3>4
    <3>6. CreditOf(c, k).tax \in Nat
      BY <3>5 DEF CreditRows
    <3> QED
      BY <2>2, <3>4, <3>6
  <2> QED
    BY <2>3, <2>4
<1> QED
  BY <1>1, <1>2, <1>3, <1>4

\* What remains of the tax of a line is a whole amount.
LEMMA RemainingInt ==
    ASSUME SettlementTypeOK, NEW i \in Invoices, NEW k \in LinesOf(i)
    PROVE  /\ RemainingTax(i, k) \in Int
           /\ \A st : /\ PostedSum(WithheldBy, Withholders(i, k), st) \in Nat
                      /\ PostedSum(CreditedBy(k), Creditors(i), st) \in Nat
<1>1. ASSUME NEW st
      PROVE  /\ PostedSum(WithheldBy, Withholders(i, k), st) \in Nat
             /\ PostedSum(CreditedBy(k), Creditors(i), st) \in Nat
  BY TaxTaken, PostedSumLess
<1>2. Total(allocations, Collects(k), ByInvoice(allocations, i)) \in Int
  BY AppliedInt DEF SettlementTypeOK
<1>3. Line(i, k).tax \in Int
  BY TaxTaken
<1> QED
  BY <1>1, <1>2, <1>3, RemainingIs DEF RemainingIn

\* A withholding of a tax that clients remit, and a credit note, are only posted for tax
\* that nothing accounts for yet.
TaxGuard(s) ==
    /\ s \in Withholdings =>
           (Content[s].treatment = "VAT"
                /\ Line(Content[s].invoice, Content[s].line).policy = "CLIENT_REMITTANCE"
            => Value(s) <= RemainingTax(Content[s].invoice, Content[s].line))
    /\ s \in Credits =>
           \A row \in Range(Content[s].rows) : row.tax <= RemainingTax(Content[s].invoice, row.line)

LEMMA TaxGuards ==
    SettlementTypeOK /\ [SettlementNext]_settlementVars =>
        \A s \in Withholdings \cup Credits :
            status[s] # "POSTED" /\ status'[s] = "POSTED" => TaxGuard(s)
<1> SUFFICES ASSUME SettlementTypeOK, [SettlementNext]_settlementVars,
                    NEW s \in Withholdings \cup Credits, status[s] # "POSTED", status'[s] = "POSTED"
             PROVE  TaxGuard(s)
  OBVIOUS
<1>1. /\ status \in [FinancialRecords -> {"APPROVED", "POSTED", "REVERSED"}]
      /\ s \in FinancialRecords /\ s \notin Invoices /\ s \notin Refunds /\ s \notin Receipts
      /\ ~(s \in Withholdings /\ s \in Credits) /\ status' # status
  BY Kinds, NotRefunds, SettlementConstants DEF SettlementTypeOK
<1>2. \A r : MarkPosted(r) => r = s
  BY <1>1 DEF MarkPosted
<1>3. ASSUME NEW w \in Withholdings, NEW day, PostWithholding(w, day) PROVE TaxGuard(s)
  <2>1. w = s /\ WithholdingAllowed(w)
    BY <1>2, <1>3 DEF PostWithholding, PostSource
  <2> QED
    BY <1>1, <2>1 DEF WithholdingAllowed, TaxGuard
<1>4. ASSUME NEW c \in Credits, NEW day, PostCredit(c, day) PROVE TaxGuard(s)
  <2>1. c = s /\ guard_credit(c)
    BY <1>2, <1>4 DEF PostCredit, PostSource
  <2> QED
    BY <1>1, <2>1 DEF guard_credit, TaxGuard
<1>5. ASSUME NEW i \in Invoices, NEW day, PostInvoice(i, day) PROVE FALSE
  BY <1>1, <1>2, <1>5 DEF PostInvoice
<1>6. ASSUME NEW r \in Receipts, NEW day, PostReceipt(r, day) PROVE FALSE
  BY <1>1, <1>2, <1>6 DEF PostReceipt, PostSource
<1>7. ASSUME NEW p \in Refunds, NEW day, PostRefund(p, day) PROVE FALSE
  BY <1>1, <1>2, <1>7 DEF PostRefund
<1>8. ASSUME NEW r, NEW day, ReverseRecord(r, day) PROVE FALSE
  <2>1. status' = [status EXCEPT ![r] = "REVERSED"]
    BY <1>8 DEF ReverseRecord
  <2> QED
    BY <1>1, <2>1
<1>9. ASSUME NEW i, NEW value, NEW day, NEW taxes, NEW t, Allocate(t, i, value, day, taxes)
      PROVE  FALSE
  BY <1>1, <1>9 DEF Allocate
<1>10. ASSUME NEW n, NEW value, NEW day, Release(n, value, day) PROVE FALSE
  BY <1>1, <1>10 DEF Release
<1>11. ASSUME NEW day, ClosePeriod(day) \/ ReopenPeriod(day) PROVE FALSE
  BY <1>1, <1>11 DEF ClosePeriod, ReopenPeriod
<1>12. ASSUME NEW t, BeginAllocate(t) \/ RefuseAllocate(t) PROVE FALSE
  BY <1>1, <1>12 DEF BeginAllocate, RefuseAllocate
<1>13. CASE SettlementNext
  BY <1>3, <1>4, <1>5, <1>6, <1>7, <1>8, <1>9, <1>10, <1>11, <1>12, <1>13 DEF SettlementNext
<1>14. CASE UNCHANGED settlementVars
  BY <1>1, <1>14 DEF settlementVars
<1> QED
  BY <1>13, <1>14

\* What a step collects on a line: nothing more, or no more than nothing accounts for.
LEMMA CollectedStep ==
    ASSUME SettlementInvariant, [SettlementNext]_settlementVars, NEW i \in Invoices, NEW k \in LinesOf(i)
    PROVE  LET before == Total(allocations, Collects(k), ByInvoice(allocations, i))
               after == Total(allocations', Collects(k), ByInvoice(allocations', i))
           IN \/ after <= before
              \/ status' = status /\ after <= before + RemainingTax(i, k)
<1> DEFINE before == Total(allocations, Collects(k), ByInvoice(allocations, i))
           after == Total(allocations', Collects(k), ByInvoice(allocations', i))
<1>1. SettlementTypeOK /\ MoneyStep
  BY MoneySteps DEF SettlementInvariant
<1>2. allocations \in Seq(AllocationRows) /\ allocations' \in Seq(AllocationRows)
  BY <1>1, AllocationsKept DEF SettlementTypeOK
<1>3. before \in Int /\ after \in Int
  BY <1>2, AppliedInt
<1>4. ASSUME allocations' = allocations
      PROVE  after <= before
  BY <1>3, <1>4
<1>5. ASSUME NEW row, Applying(row)
      PROVE  after <= before \/ (status' = status /\ after <= before + RemainingTax(i, k))
  <2>1. /\ row \in AllocationRows /\ row.release_of = 0 /\ allocations' = Append(allocations, row)
        /\ LinesOnce(row)
        /\ \/ /\ status' = status
              /\ \A j \in DOMAIN row.taxes :
                     row.taxes[j].amount <= RemainingTax(row.invoice, row.taxes[j].line)
           \/ row.taxes = <<>>
    BY <1>5 DEF Applying
  <2>2. /\ row.invoice = i => after = before + LineTax(row, k)
        /\ row.invoice # i => after = before
    <3> DEFINE b == allocations'
    <3>1. Adds(allocations, row, b)
      BY <2>1 DEF Adds
    <3> HIDE DEF b
    <3>2. /\ \A x, j : row.invoice = x => Total(b, Collects(j), ByInvoice(b, x))
                 = Total(allocations, Collects(j), ByInvoice(allocations, x)) + LineTax(row, j)
          /\ \A x, j : row.invoice # x => Total(b, Collects(j), ByInvoice(b, x))
                 = Total(allocations, Collects(j), ByInvoice(allocations, x))
      BY ONLY <1>2, <2>1, <3>1, AppliedMore
    <3> QED
      BY <3>2 DEF b
  <2> HIDE DEF before, after
  <2>3. CASE \A j \in DOMAIN row.taxes : row.taxes[j].line # k
    <3>1. LineTax(row, k) = 0
      BY <2>1, <2>3, LineTaxIs
    <3> QED
      BY <1>3, <2>2, <3>1
  <2>4. ASSUME NEW j \in DOMAIN row.taxes, row.taxes[j].line = k
        PROVE  after <= before \/ (status' = status /\ after <= before + RemainingTax(i, k))
    <3>1. LineTax(row, k) = row.taxes[j].amount
      BY <2>1, <2>4, LineTaxIs
    <3>2. status' = status /\ LineTax(row, k) <= RemainingTax(row.invoice, k)
      BY <2>1, <2>4, <3>1
    <3>3. LineTax(row, k) \in Int /\ RemainingTax(i, k) \in Int
      <4>1. LineTax(row, k) \in Nat
        BY <2>1, CountedRows
      <4> QED
        BY <1>1, <4>1, RemainingInt
    <3> QED
      BY <1>3, <2>2, <3>2, <3>3
  <2> QED
    BY <2>3, <2>4
<1>6. ASSUME NEW rows, ReleaseStep(rows)
      PROVE  after <= before
  BY <1>2, <1>6, AppliedLess DEF ReleaseStep
<1>7. ASSUME NEW r \in FinancialRecords, NEW day, ReverseRecord(r, day)
      PROVE  after <= before
  BY <1>6, <1>7, ReversalReleases
<1>8. ASSUME NEW p, NEW day, PostRefund(p, day)
      PROVE  allocations' = allocations
  BY <1>8 DEF PostRefund
<1> HIDE DEF before, after
<1>9. after <= before \/ (status' = status /\ after <= before + RemainingTax(i, k))
  BY <1>1, <1>4, <1>5, <1>6, <1>7, <1>8 DEF MoneyStep
<1> QED
  BY <1>9 DEF before, after

\* The tax of a line that clients remit is never taken twice.
LEMMA TaxesKept ==
    SettlementInvariant /\ [SettlementNext]_settlementVars =>
        \A i \in Invoices : \A k \in LinesOf(i) :
            Line(i, k).policy = "CLIENT_REMITTANCE" => RemainingIn(allocations', status', i, k) >= 0
<1> SUFFICES ASSUME SettlementInvariant, [SettlementNext]_settlementVars,
                    NEW i \in Invoices, NEW k \in LinesOf(i),
                    Line(i, k).policy = "CLIENT_REMITTANCE"
             PROVE  RemainingIn(allocations', status', i, k) >= 0
  OBVIOUS
<1>1. SettlementTypeOK /\ BookStep
  BY BookSteps DEF SettlementInvariant
<1>2. /\ status \in [FinancialRecords -> {"APPROVED", "POSTED", "REVERSED"}]
      /\ allocations \in Seq(AllocationRows) /\ allocations' \in Seq(AllocationRows)
  BY <1>1, AllocationsKept DEF SettlementTypeOK
<1> DEFINE before == Total(allocations, Collects(k), ByInvoice(allocations, i))
           after == Total(allocations', Collects(k), ByInvoice(allocations', i))
           W == Withholders(i, k)
           C == Creditors(i)
           f == WithheldBy
           g == CreditedBy(k)
           remaining == RemainingTax(i, k)
           all == Line(i, k).tax
<1>3. before \in Int /\ after \in Int
  BY <1>2, AppliedInt
<1>4. /\ IsFiniteSet(W) /\ IsFiniteSet(C) /\ all \in Nat
      /\ \A w \in W : f[w] \in Nat /\ f[w] = Value(w)
      /\ \A c \in C : g[c] \in Nat
  BY TaxTaken
<1>5. remaining >= 0 /\ remaining \in Int
  BY <1>1, RemainingInt DEF SettlementInvariant, NoOverApplication
<1>6. /\ remaining = all - before - PostedSum(f, W, status) - PostedSum(g, C, status)
      /\ RemainingIn(allocations', status', i, k)
             = all - after - PostedSum(f, W, status') - PostedSum(g, C, status')
  BY <1>1, RemainingIs DEF RemainingIn
<1>7. after <= before \/ (status' = status /\ after <= before + remaining)
  BY CollectedStep
<1>8. \A w \in W : w \in Withholdings /\ Content[w].treatment = "VAT"
                   /\ Content[w].invoice = i /\ Content[w].line = k
  BY DEF Withholders
<1>9. \A c \in C : c \in Credits /\ Content[c].invoice = i
  BY DEF Creditors
<1>10. ASSUME NEW w \in W, status[w] # "POSTED", status'[w] = "POSTED"
       PROVE  f[w] <= remaining
  <2>1. TaxGuard(w)
    BY <1>1, <1>8, <1>10, TaxGuards
  <2>2. Value(w) <= remaining
    BY <1>8, <2>1 DEF TaxGuard
  <2> QED
    BY <1>4, <2>2
<1>11. ASSUME NEW c \in C, status[c] # "POSTED", status'[c] = "POSTED"
       PROVE  g[c] <= remaining
  <2>1. TaxGuard(c)
    BY <1>1, <1>9, <1>11, TaxGuards
  <2>2. \A row \in Range(Content[c].rows) : row.line = k => row.tax <= remaining
    BY <1>9, <2>1 DEF TaxGuard
  <2>3. g[c] = 0 \/ \E row \in Range(Content[c].rows) : row.line = k /\ g[c] = row.tax
    BY TaxTaken
  <2> QED
    BY <1>5, <2>2, <2>3
<1>12. \A st : PostedSum(f, W, st) \in Nat /\ PostedSum(g, C, st) \in Nat
  BY <1>1, RemainingInt
<1>13. \A r : ~(r \in W /\ r \in C)
  BY <1>8, <1>9, SettlementConstants
<1>14. \A r \in W \cup C : r \in FinancialRecords
  BY <1>8, <1>9, Kinds
<1> HIDE DEF before, after, W, C, f, g, remaining, all
<1>15. CASE status' = status
  BY <1>3, <1>4, <1>5, <1>6, <1>7, <1>12, <1>15
<1>16. ASSUME NEW r \in FinancialRecords, NEW day, NEW m, PostingStep(r, day, m)
       PROVE  RemainingIn(allocations', status', i, k) >= 0
  <2>1. /\ status[r] # "POSTED" /\ status'[r] = "POSTED" /\ status' # status
        /\ \A x \in W : x # r => status'[x] = status[x]
        /\ \A x \in C : x # r => status'[x] = status[x]
    BY <1>2, <1>14, <1>16 DEF PostingStep
  <2>2. /\ r \in W => PostedSum(f, W, status') = PostedSum(f, W, status) + f[r]
        /\ r \notin W => PostedSum(f, W, status') = PostedSum(f, W, status)
    <3>1. IsFiniteSet(W) /\ (\A x \in W : f[x] \in Nat)
      BY <1>4
    <3> QED
      BY ONLY <2>1, <3>1, PostedSumMore
  <2>3. /\ r \in C => PostedSum(g, C, status') = PostedSum(g, C, status) + g[r]
        /\ r \notin C => PostedSum(g, C, status') = PostedSum(g, C, status)
    <3>1. IsFiniteSet(C) /\ (\A x \in C : g[x] \in Nat)
      BY <1>4
    <3> QED
      BY ONLY <2>1, <3>1, PostedSumMore
  <2>4. /\ r \in W => f[r] <= remaining /\ f[r] \in Nat
        /\ r \in C => g[r] <= remaining /\ g[r] \in Nat
    BY <1>4, <1>10, <1>11, <2>1
  <2>5. PostedSum(f, W, status') + PostedSum(g, C, status')
            <= PostedSum(f, W, status) + PostedSum(g, C, status) + remaining
    BY <1>5, <1>12, <1>13, <2>2, <2>3, <2>4
  <2> QED
    BY <1>3, <1>4, <1>5, <1>6, <1>7, <1>12, <2>1, <2>5
<1>17. ASSUME NEW r \in FinancialRecords, NEW day, NEW m, ReversingStep(r, day, m)
       PROVE  RemainingIn(allocations', status', i, k) >= 0
  <2>1. /\ status' # status
        /\ \A x \in W : status'[x] = "POSTED" => status[x] = "POSTED"
        /\ \A x \in C : status'[x] = "POSTED" => status[x] = "POSTED"
    BY <1>2, <1>14, <1>17 DEF ReversingStep
  <2>2. PostedSum(f, W, status') <= PostedSum(f, W, status)
    BY <1>4, <2>1, PostedSumLess
  <2>3. PostedSum(g, C, status') <= PostedSum(g, C, status)
    BY <1>4, <2>1, PostedSumLess
  <2> QED
    BY <1>3, <1>4, <1>5, <1>6, <1>7, <1>12, <2>1, <2>2, <2>3
<1> QED
  BY <1>1, <1>15, <1>16, <1>17 DEF BookStep

-----------------------------------------------------------------------------
(* The invariant. *)

FiguresFit ==
    /\ \A s \in Sources : AvailableIn(allocations, status, refunds, s) >= 0
    /\ \A i \in Invoices : DueIn(allocations, i) >= 0
    /\ \A i \in Invoices : \A k \in LinesOf(i) :
           Line(i, k).policy = "CLIENT_REMITTANCE" => RemainingIn(allocations, status, i, k) >= 0
    /\ Structure(allocations) /\ Remains(allocations)
    /\ Linked(allocations, status) /\ SettlesNothing(allocations, status)

LEMMA FiguresSuffice ==
    SettlementTypeOK /\ EntriesFit /\ FiguresFit =>
        NoOverApplication /\ ReversedSettlesNothing /\ TaxesFit /\ AllocationsFit
<1> SUFFICES ASSUME SettlementTypeOK, EntriesFit, FiguresFit
             PROVE  NoOverApplication /\ ReversedSettlesNothing /\ TaxesFit /\ AllocationsFit
  OBVIOUS
<1>1. /\ TaxesFit /\ AllocationsFit
      /\ \A n \in DOMAIN allocations : allocations[n].release_of = 0 => Active(n) >= 0
  BY RemainsParts, AllocationParts DEF FiguresFit
<1>2. ReversedSettlesNothing
  BY LeftFigures DEF FiguresFit, SettlesNothing, ReversedSettlesNothing
<1>3. \A s \in Range(sources) : source_available(s, Today) >= 0
  <2>1. \A s \in Range(sources) : s \in Sources /\ s \in FinancialRecords
    BY SettlementRows, Kinds DEF SettlementTypeOK, Range
  <2> QED
    BY <2>1, CurrentFigures DEF FiguresFit
<1>4. \A i \in Invoices : invoice_due(i, Today) >= 0
  BY CurrentFigures DEF FiguresFit
<1>5. \A i \in Invoices : \A k \in LinesOf(i) : Line(i, k).policy = "CLIENT_REMITTANCE" =>
          RemainingTax(i, k) >= 0
  BY RemainingIs DEF FiguresFit
<1>6. \A i, k : tax_collected(i, k) >= 0
  BY CollectedIs, CollectedNonneg DEF FiguresFit, SettlementTypeOK
<1> QED
  BY <1>1, <1>2, <1>3, <1>4, <1>5, <1>6 DEF NoOverApplication

\* At the start nothing is posted.
LEMMA SettlementStarts == SettlementInit => SettlementInvariant
<1> SUFFICES ASSUME SettlementInit PROVE SettlementInvariant
  OBVIOUS
<1>1. /\ status = [r \in FinancialRecords |-> "APPROVED"]
      /\ entries = {} /\ movements = {} /\ sources = <<>>
      /\ allocations = <<>> /\ refunds = [p \in Refunds |-> [s \in Sources |-> 0]]
      /\ closed = {} /\ waiting = {}
  BY DEF SettlementInit
<1>2. \A r \in FinancialRecords : status[r] = "APPROVED"
  BY <1>1
<1>3. SettlementTypeOK
  <2>1. refunds \in [Refunds -> [Sources -> Nat]]
    BY <1>1
  <2>2. sources \in Seq(Sources) /\ allocations \in Seq(AllocationRows)
    <3> DEFINE R == AllocationRows
    <3> HIDE DEF R
    <3>1. allocations \in Seq(R)
      BY <1>1
    <3>2. sources \in Seq(Sources)
      BY <1>1
    <3> QED
      BY <3>1, <3>2 DEF R
  <2> QED
    BY <1>1, <2>1, <2>2 DEF SettlementTypeOK
<1>4. EntriesFit
  BY <1>1, <1>2 DEF EntriesFit, ReversedBy
<1>5. MovementsFit
  <2>1. Balance = 0
    <3>1. {m \in movements : m.date <= Today} = {}
      BY <1>1
    <3> QED
      BY <3>1, SumOfNone DEF Balance, BalanceAsOf
  <2>2. SumFunctionOnSet([r \in FinancialRecords |-> Net(r)], FinancialRecords) = 0
    <3> DEFINE f == [r \in FinancialRecords |-> Net(r)]
    <3>1. IsFiniteSet(FinancialRecords) /\ \A r \in FinancialRecords : f[r] = 0
      BY <1>2, SettlementConstants DEF Net
    <3> HIDE DEF f
    <3>2. SumFunctionOnSet(f, FinancialRecords) = 0
      BY <3>1, SumZero
    <3> QED
      BY <3>2 DEF f
  <2>3. IsFiniteSet(movements)
    BY <1>1, FS_EmptySet
  <2> QED
    BY <1>1, <2>1, <2>2, <2>3 DEF MovementsFit
<1>6. SourcesFit
  <2>1. Range(sources) = {}
    BY <1>1 DEF Range
  <2>2. /\ \A s \in Sources : status[s] = "APPROVED"
        /\ \A r \in Invoices \cup Credits : status[r] = "APPROVED"
    BY <1>2, Kinds
  <2> QED
    BY <1>1, <2>1, <2>2 DEF SourcesFit
<1>7. RefundsFit
  <2>1. \A p \in Refunds : status[p] = "APPROVED" /\ \A s \in Sources : refunds[p][s] = 0
    BY <1>1, <1>2, Kinds
  <2> QED
    BY <2>1 DEF RefundsFit
<1>8. FiguresFit
  <2>1. /\ DOMAIN allocations = {}
        /\ \A s : BySource(allocations, s) = {}
        /\ \A i : ByInvoice(allocations, i) = {}
    BY <1>1 DEF BySource, ByInvoice
  <2>2. /\ \A s : Total(allocations, Amounts, BySource(allocations, s)) = 0
        /\ \A i : Total(allocations, Amounts, ByInvoice(allocations, i)) = 0
        /\ \A i, k : Total(allocations, Collects(k), ByInvoice(allocations, i)) = 0
    BY <2>1, SumOfNone DEF Total
  <2>3. \A rf, s : TakenIn(status, rf, s) = 0
    <3>1. PostedRefunds(status) = {}
      BY <1>2, Kinds DEF PostedRefunds
    <3> QED
      BY <3>1, SumOfNone DEF TakenIn
  <2>4. \A s \in Sources \cup Invoices : Value(s) \in Nat
    BY Kinds, Values
  <2>5. \A s \in Sources : AvailableIn(allocations, status, refunds, s) >= 0
    BY <2>2, <2>3, <2>4 DEF AvailableIn
  <2>6. \A i \in Invoices : DueIn(allocations, i) >= 0
    BY <2>2, <2>4 DEF DueIn
  <2>7. ASSUME NEW i \in Invoices, NEW k \in LinesOf(i)
        PROVE  RemainingIn(allocations, status, i, k) >= 0
    <3>1. /\ {x \in Withholders(i, k) : status[x] = "POSTED"} = {}
          /\ {x \in Creditors(i) : status[x] = "POSTED"} = {}
      BY <1>2, Kinds DEF Withholders, Creditors
    <3>2. /\ PostedSum(WithheldBy, Withholders(i, k), status) = 0
          /\ PostedSum(CreditedBy(k), Creditors(i), status) = 0
      BY <3>1, SumOfNone DEF PostedSum
    <3>3. Line(i, k).tax \in Nat
      BY TaxTaken
    <3> QED
      BY <2>2, <3>2, <3>3 DEF RemainingIn
  <2>8. /\ Structure(allocations) /\ Remains(allocations)
        /\ Linked(allocations, status) /\ SettlesNothing(allocations, status)
    BY <2>1 DEF Structure, Remains, Linked, SettlesNothing
  <2> QED
    BY <2>5, <2>6, <2>7, <2>8 DEF FiguresFit
<1> QED
  BY <1>3, <1>4, <1>5, <1>6, <1>7, <1>8, FiguresSuffice DEF SettlementInvariant

\* Every step keeps it.
LEMMA SettlementInvariantKept ==
    SettlementInvariant /\ [SettlementNext]_settlementVars => SettlementInvariant'
<1> SUFFICES ASSUME SettlementInvariant, [SettlementNext]_settlementVars
             PROVE  SettlementInvariant'
  OBVIOUS
<1>1. SettlementTypeOK /\ EntriesFit /\ MovementsFit /\ SourcesFit /\ RefundsFit
  BY DEF SettlementInvariant
<1>2. BookStep /\ SourceStep /\ MoneyStep /\ SettlementTypeOK'
  BY <1>1, BookSteps, SourceSteps, MoneySteps, SettlementTypeKept
<1>3. EntriesFit' /\ MovementsFit' /\ SourcesFit'
  BY <1>1, <1>2, EntriesKept, MovementsKept, SourcesKept
<1>4. RefundsFit'
  BY <1>1, <1>2, <1>3, RefundsKept
<1>5. FiguresFit'
  BY AvailableKept, DueKept, TaxesKept, AllocationsKept, ReversedKept DEF FiguresFit
<1>6. (NoOverApplication /\ ReversedSettlesNothing /\ TaxesFit /\ AllocationsFit)'
  BY <1>2, <1>3, <1>5, FiguresSuffice, PTL
<1> QED
  BY <1>2, <1>3, <1>4, <1>6 DEF SettlementInvariant

\* The books, the allocations and the refunds fit together in every state.
THEOREM SettlementInvariance == SettlementSpec => []SettlementInvariant
<1>1. SettlementInit => SettlementInvariant
  BY SettlementStarts
<1>2. SettlementInvariant /\ [SettlementNext]_settlementVars => SettlementInvariant'
  BY SettlementInvariantKept
<1> QED
  BY <1>1, <1>2, PTL DEF SettlementSpec

\* No source is used, no invoice settled, no application released and no remitted tax
\* accounted for twice.
THEOREM NothingOverApplied == SettlementSpec => []NoOverApplication
<1>1. SettlementInvariant => NoOverApplication
  BY DEF SettlementInvariant
<1> QED
  BY <1>1, SettlementInvariance, PTL

\* A reversed receipt or withholding settles nothing.
THEOREM ReversedSettleNothing == SettlementSpec => []ReversedSettlesNothing
<1>1. SettlementInvariant => ReversedSettlesNothing
  BY DEF SettlementInvariant
<1> QED
  BY <1>1, SettlementInvariance, PTL

-----------------------------------------------------------------------------
(* The balance of the client, once more: what the posted records are       *)
(* worth, put together from the invoices, the sources and the refunds.     *)

Standing == [r \in FinancialRecords |-> IF status[r] = "POSTED" THEN Value(r) ELSE 0]
AppliedTo == [i \in Invoices |-> Total(allocations, Amounts, ByInvoice(allocations, i))]
AppliedFrom == [s \in Sources |-> Total(allocations, Amounts, BySource(allocations, s))]
RefundedOf == [s \in Sources |-> TakenIn(status, refunds, s)]

\* The balance is what the standing invoices and refunds are worth less the sources.
LEMMA BalanceStanding ==
    SettlementInvariant =>
        /\ SumFunctionOnSet(Standing, Invoices) \in Int
        /\ SumFunctionOnSet(Standing, Sources) \in Int
        /\ SumFunctionOnSet(Standing, Refunds) \in Int
        /\ Balance = SumFunctionOnSet(Standing, Invoices) - SumFunctionOnSet(Standing, Sources)
                         + SumFunctionOnSet(Standing, Refunds)
<1> SUFFICES ASSUME SettlementInvariant
             PROVE  /\ SumFunctionOnSet(Standing, Invoices) \in Int
                    /\ SumFunctionOnSet(Standing, Sources) \in Int
                    /\ SumFunctionOnSet(Standing, Refunds) \in Int
                    /\ Balance = SumFunctionOnSet(Standing, Invoices)
                                     - SumFunctionOnSet(Standing, Sources)
                                     + SumFunctionOnSet(Standing, Refunds)
  OBVIOUS
<1> DEFINE net == [r \in FinancialRecords |-> Net(r)]
           f == Standing
<1>1. Balance = SumFunctionOnSet(net, FinancialRecords)
  BY DEF SettlementInvariant, MovementsFit
<1>2. /\ \A r \in FinancialRecords : f[r] = IF status[r] = "POSTED" THEN Value(r) ELSE 0
      /\ \A r \in FinancialRecords : f[r] \in Nat
  BY Values DEF Standing
<1>3. /\ \A r \in Invoices \cup Refunds : net[r] = f[r] /\ net[r] \in Int /\ f[r] \in Int
      /\ \A r \in Sources : net[r] = -f[r] /\ net[r] \in Int /\ f[r] \in Int
  <2>1. /\ \A r \in Invoices \cup Refunds : r \in FinancialRecords /\ r \notin Sources
        /\ \A r \in Sources : r \in FinancialRecords
    BY Kinds
  <2>2. ASSUME NEW r \in Invoices \cup Refunds
        PROVE  net[r] = f[r] /\ net[r] \in Int /\ f[r] \in Int
    <3>1. net[r] = IF status[r] # "POSTED" THEN 0 ELSE Value(r)
      BY <2>1 DEF Net
    <3> HIDE DEF net, f
    <3> QED
      BY <1>2, <2>1, <3>1
  <2>3. ASSUME NEW r \in Sources
        PROVE  net[r] = -f[r] /\ net[r] \in Int /\ f[r] \in Int
    <3>1. net[r] = IF status[r] # "POSTED" THEN 0 ELSE -Value(r)
      BY <2>1 DEF Net
    <3> HIDE DEF net, f
    <3> QED
      BY <1>2, <2>1, <3>1
  <2> QED
    BY <2>2, <2>3
<1>4. /\ FinancialRecords = (Invoices \cup Sources) \cup Refunds
      /\ (Invoices \cup Sources) \cap Refunds = {} /\ Invoices \cap Sources = {}
      /\ IsFiniteSet(Invoices) /\ IsFiniteSet(Sources) /\ IsFiniteSet(Refunds)
      /\ IsFiniteSet(Invoices \cup Sources)
  <2>1. FinancialRecords = (Invoices \cup Sources) \cup Refunds
    BY DEF FinancialRecords
  <2> QED
    BY <2>1, SettlementConstants, FS_Union
<1> HIDE DEF net, f
<1>5. SumFunctionOnSet(net, (Invoices \cup Sources) \cup Refunds)
          = SumFunctionOnSet(net, Invoices \cup Sources) + SumFunctionOnSet(net, Refunds)
  BY <1>3, <1>4, SumSplit
<1>6. SumFunctionOnSet(net, Invoices \cup Sources)
          = SumFunctionOnSet(net, Invoices) + SumFunctionOnSet(net, Sources)
  BY <1>3, <1>4, SumSplit
<1>7. /\ SumFunctionOnSet(net, Invoices) = SumFunctionOnSet(f, Invoices)
      /\ SumFunctionOnSet(net, Refunds) = SumFunctionOnSet(f, Refunds)
  BY <1>3, <1>4, SumSame
<1>8. SumFunctionOnSet(net, Sources) = -SumFunctionOnSet(f, Sources)
  BY <1>3, <1>4, SumNegated
<1>9. /\ SumFunctionOnSet(f, Invoices) \in Int /\ SumFunctionOnSet(f, Sources) \in Int
      /\ SumFunctionOnSet(f, Refunds) \in Int
  BY <1>3, <1>4, SumInt
<1>10. Balance = SumFunctionOnSet(net, (Invoices \cup Sources) \cup Refunds)
  BY <1>1, <1>4
<1>11. Balance = SumFunctionOnSet(f, Invoices) - SumFunctionOnSet(f, Sources)
                     + SumFunctionOnSet(f, Refunds)
  BY <1>5, <1>6, <1>7, <1>8, <1>9, <1>10
<1> QED
  BY <1>9, <1>11 DEF f

\* What the invoices are due is what they are worth less what is applied to them.
LEMMA DueTotal ==
    SettlementInvariant =>
        /\ SumFunctionOnSet(AppliedTo, Invoices) \in Int
        /\ SumFunctionOnSet([i \in Invoices |-> invoice_due(i, Today)],
                            {i \in Invoices : status[i] = "POSTED"})
               = SumFunctionOnSet(Standing, Invoices) - SumFunctionOnSet(AppliedTo, Invoices)
<1> SUFFICES ASSUME SettlementInvariant
             PROVE  /\ SumFunctionOnSet(AppliedTo, Invoices) \in Int
                    /\ SumFunctionOnSet([i \in Invoices |-> invoice_due(i, Today)],
                                        {i \in Invoices : status[i] = "POSTED"})
                           = SumFunctionOnSet(Standing, Invoices)
                                 - SumFunctionOnSet(AppliedTo, Invoices)
  OBVIOUS
<1> DEFINE due == [i \in Invoices |-> invoice_due(i, Today)]
           posted == {i \in Invoices : status[i] = "POSTED"}
           f == Standing
           t == AppliedTo
           d == [i \in Invoices |-> f[i] - t[i]]
<1>1. SettlementTypeOK /\ EntriesFit /\ Linked(allocations, status)
  BY AllocationParts DEF SettlementInvariant
<1>2. ASSUME NEW i \in Invoices
      PROVE  /\ f[i] \in Int /\ t[i] \in Int /\ d[i] = f[i] - t[i]
             /\ i \in posted => due[i] = d[i]
             /\ i \notin posted => d[i] = 0
  <2>1. /\ f[i] = IF status[i] = "POSTED" THEN Value(i) ELSE 0
        /\ Value(i) \in Nat /\ i \in FinancialRecords
    BY Kinds, Values DEF Standing
  <2>2. t[i] = Total(allocations, Amounts, ByInvoice(allocations, i)) /\ t[i] \in Int
    BY <1>1, AppliedInt DEF AppliedTo, SettlementTypeOK
  <2>3. due[i] = Value(i) - t[i]
    BY <1>1, <2>2, CurrentFigures DEF DueIn
  <2>4. i \notin posted => t[i] = 0
    <3>1. i \notin posted => ByInvoice(allocations, i) = {}
      BY <1>1 DEF Linked, ByInvoice
    <3> QED
      BY <2>2, <3>1, SumOfNone DEF Total
  <2>5. d[i] = f[i] - t[i]
    OBVIOUS
  <2>6. i \in posted <=> status[i] = "POSTED"
    OBVIOUS
  <2> HIDE DEF due, posted, f, t, d
  <2> QED
    BY <2>1, <2>2, <2>3, <2>4, <2>5, <2>6
<1>3. IsFiniteSet(Invoices) /\ posted \in SUBSET Invoices /\ IsFiniteSet(posted)
  BY SettlementConstants, FS_Subset
<1> HIDE DEF due, posted, f, t, d
<1>4. SumFunctionOnSet(due, posted) = SumFunctionOnSet(d, posted)
  BY <1>2, <1>3, SumSame
<1>5. SumFunctionOnSet(d, Invoices) = SumFunctionOnSet(d, posted)
  <2>1. (\A i \in Invoices : d[i] \in Int) /\ \A i \in Invoices \ posted : d[i] = 0
    BY <1>2
  <2> QED
    BY <1>3, <2>1, SumSupport
<1>6. SumFunctionOnSet(f, Invoices) = SumFunctionOnSet(d, Invoices) + SumFunctionOnSet(t, Invoices)
  <2>1. \A i \in Invoices : d[i] \in Int /\ t[i] \in Int /\ f[i] = d[i] + t[i]
    BY <1>2
  <2> QED
    BY <1>3, <2>1, SumPlus
<1>7. SumFunctionOnSet(t, Invoices) \in Int /\ SumFunctionOnSet(d, Invoices) \in Int
  <2>1. \A i \in Invoices : d[i] \in Int /\ t[i] \in Int
    BY <1>2
  <2> QED
    BY <1>3, <2>1, SumInt
<1>8. SumFunctionOnSet(due, posted) = SumFunctionOnSet(f, Invoices) - SumFunctionOnSet(t, Invoices)
  BY <1>4, <1>5, <1>6, <1>7
<1> QED
  BY <1>7, <1>8 DEF due, posted, f, t

\* What the sources hold is what they are worth less what is applied and refunded of them.
LEMMA AvailableTotal ==
    SettlementInvariant =>
        /\ SumFunctionOnSet(AppliedFrom, Sources) \in Int
        /\ SumFunctionOnSet(RefundedOf, Sources) \in Int
        /\ SumFunctionOnSet([s \in Sources |-> source_available(s, Today)], Range(sources))
               = SumFunctionOnSet(Standing, Sources) - SumFunctionOnSet(AppliedFrom, Sources)
                     - SumFunctionOnSet(RefundedOf, Sources)
<1> SUFFICES ASSUME SettlementInvariant
             PROVE  /\ SumFunctionOnSet(AppliedFrom, Sources) \in Int
                    /\ SumFunctionOnSet(RefundedOf, Sources) \in Int
                    /\ SumFunctionOnSet([s \in Sources |-> source_available(s, Today)],
                                        Range(sources))
                           = SumFunctionOnSet(Standing, Sources)
                                 - SumFunctionOnSet(AppliedFrom, Sources)
                                 - SumFunctionOnSet(RefundedOf, Sources)
  OBVIOUS
<1> DEFINE held == [s \in Sources |-> source_available(s, Today)]
           f == Standing
           t == AppliedFrom
           k == RefundedOf
           u == [s \in Sources |-> t[s] + k[s]]
           d == [s \in Sources |-> f[s] - u[s]]
<1>1. /\ SettlementTypeOK /\ EntriesFit /\ SourcesFit /\ RefundsFit
      /\ Structure(allocations) /\ Linked(allocations, status)
  BY AllocationParts DEF SettlementInvariant
<1>2. /\ allocations \in Seq(AllocationRows) /\ refunds \in [Refunds -> [Sources -> Nat]]
      /\ status \in [FinancialRecords -> {"APPROVED", "POSTED", "REVERSED"}]
  BY <1>1 DEF SettlementTypeOK
<1>3. Range(sources) = {s \in Sources : status[s] # "APPROVED"}
  BY <1>1 DEF SourcesFit
<1>4. ASSUME NEW s \in Sources
      PROVE  /\ f[s] \in Int /\ t[s] \in Int /\ k[s] \in Int /\ held[s] \in Int
             /\ s \in Range(sources) => held[s] = f[s] - (t[s] + k[s])
             /\ s \notin Range(sources) => f[s] - (t[s] + k[s]) = 0
  <2>1. /\ f[s] = IF status[s] = "POSTED" THEN Value(s) ELSE 0
        /\ Value(s) \in Nat /\ s \in FinancialRecords
    BY Kinds, Values DEF Standing
  <2>2. /\ t[s] = Total(allocations, Amounts, BySource(allocations, s)) /\ t[s] \in Int
        /\ k[s] = TakenIn(status, refunds, s) /\ k[s] \in Int
    BY <1>1, AvailableInt DEF AppliedFrom, RefundedOf
  <2>3. held[s] = IF status[s] = "REVERSED" THEN 0 ELSE Value(s) - t[s] - k[s]
    BY <1>1, <2>1, <2>2, CurrentFigures DEF AvailableIn
  <2>4. status[s] # "POSTED" => t[s] = 0
    <3>1. CASE status[s] = "APPROVED"
      <4>1. BySource(allocations, s) = {}
        BY <1>1, <3>1 DEF Linked, BySource
      <4> QED
        BY <2>2, <4>1, SumOfNone DEF Total
    <3>2. CASE status[s] = "REVERSED"
      <4>1. \A n \in BySource(allocations, s) :
                allocations[n].release_of = 0 => ActiveIn(allocations, n) = 0
        BY <3>2, LeftFigures DEF SettlementInvariant, ReversedSettlesNothing, BySource
      <4> QED
        BY <1>1, <1>2, <2>2, <4>1, NothingApplied
    <3> QED
      BY <1>2, <2>1, <3>1, <3>2
  <2>5. status[s] # "POSTED" => k[s] = 0
    <3> SUFFICES ASSUME status[s] # "POSTED" PROVE k[s] = 0
      OBVIOUS
    <3> DEFINE g == [p \in Refunds |-> refunds[p][s]]
               P == PostedRefunds(status)
    <3>1. \A p \in P : refunds[p][s] = 0
      <4> TAKE p \in P
      <4>1. p \in Refunds /\ status[p] = "POSTED" /\ refunds[p][s] \in Nat
        BY <1>2 DEF PostedRefunds
      <4>2. refunds[p][s] > 0 => s \in Range(sources) /\ status[s] # "REVERSED"
        BY <1>1, <4>1 DEF RefundsFit
      <4> QED
        BY <1>2, <1>3, <2>1, <4>1, <4>2
    <3>2. IsFiniteSet(P) /\ \A p \in P : g[p] = 0
      BY <3>1, SettlementConstants, FS_Subset DEF PostedRefunds
    <3>3. k[s] = SumFunctionOnSet(g, P)
      BY <2>2 DEF TakenIn
    <3> HIDE DEF g, P
    <3> QED
      BY <3>2, <3>3, SumZero
  <2>6. s \in Range(sources) <=> status[s] # "APPROVED"
    BY <1>3
  <2>7. status[s] \in {"APPROVED", "POSTED", "REVERSED"}
    BY <1>2, <2>1
  <2> HIDE DEF held, f, t, k
  <2> QED
    BY <2>1, <2>2, <2>3, <2>4, <2>5, <2>6, <2>7
<1>5. IsFiniteSet(Sources) /\ Range(sources) \in SUBSET Sources /\ IsFiniteSet(Range(sources))
  BY <1>3, SettlementConstants, FS_Subset
<1>6. \A s \in Sources : u[s] = t[s] + k[s] /\ d[s] = f[s] - u[s]
  OBVIOUS
<1> HIDE DEF held, f, t, k, u, d
<1>7. SumFunctionOnSet(held, Range(sources)) = SumFunctionOnSet(d, Range(sources))
  <2>1. \A s \in Range(sources) : held[s] = d[s]
    BY <1>4, <1>5, <1>6
  <2> QED
    BY <1>5, <2>1, SumSame
<1>8. SumFunctionOnSet(d, Sources) = SumFunctionOnSet(d, Range(sources))
  <2>1. (\A s \in Sources : d[s] \in Int) /\ \A s \in Sources \ Range(sources) : d[s] = 0
    BY <1>4, <1>6
  <2> QED
    BY <1>5, <2>1, SumSupport
<1>9. SumFunctionOnSet(f, Sources) = SumFunctionOnSet(d, Sources) + SumFunctionOnSet(u, Sources)
  <2>1. \A s \in Sources : d[s] \in Int /\ u[s] \in Int /\ f[s] = d[s] + u[s]
    BY <1>4, <1>6
  <2> QED
    BY <1>5, <2>1, SumPlus
<1>10. SumFunctionOnSet(u, Sources) = SumFunctionOnSet(t, Sources) + SumFunctionOnSet(k, Sources)
  <2>1. \A s \in Sources : t[s] \in Int /\ k[s] \in Int /\ u[s] = t[s] + k[s]
    BY <1>4, <1>6
  <2> QED
    BY <1>5, <2>1, SumPlus
<1>11. /\ SumFunctionOnSet(t, Sources) \in Int /\ SumFunctionOnSet(k, Sources) \in Int
       /\ SumFunctionOnSet(d, Sources) \in Int
  <2>1. \A s \in Sources : t[s] \in Int /\ k[s] \in Int /\ d[s] \in Int
    BY <1>4, <1>6
  <2> QED
    BY <1>5, <2>1, SumInt
<1>12. SumFunctionOnSet(held, Range(sources))
           = SumFunctionOnSet(f, Sources) - SumFunctionOnSet(t, Sources) - SumFunctionOnSet(k, Sources)
  BY <1>7, <1>8, <1>9, <1>10, <1>11
<1> QED
  BY <1>11, <1>12 DEF held, f, t, k

\* What the standing refunds are worth is what they take from the sources.
LEMMA RefundTotal ==
    SettlementInvariant =>
        SumFunctionOnSet(RefundedOf, Sources) = SumFunctionOnSet(Standing, Refunds)
<1> SUFFICES ASSUME SettlementInvariant
             PROVE  SumFunctionOnSet(RefundedOf, Sources) = SumFunctionOnSet(Standing, Refunds)
  OBVIOUS
<1> DEFINE P == PostedRefunds(status)
           f == Standing
           k == RefundedOf
<1>1. SettlementTypeOK /\ RefundsFit
  BY DEF SettlementInvariant
<1>2. /\ IsFiniteSet(P) /\ IsFiniteSet(Sources) /\ IsFiniteSet(Refunds) /\ P \in SUBSET Refunds
      /\ \A p \in P : p \in Refunds /\ status[p] = "POSTED"
  BY SettlementConstants, FS_Subset DEF PostedRefunds
<1>3. \A p \in P, s \in Sources : refunds[p][s] \in Int
  BY <1>1, <1>2 DEF SettlementTypeOK
<1>4. \A p \in P : f[p] = SumFunctionOnSet(refunds[p], Sources)
  <2> TAKE p \in P
  <2>1. SumFunctionOnSet(refunds[p], Sources) = Value(p)
    BY <1>1, <1>2 DEF RefundsFit
  <2> QED
    BY <1>2, <2>1, Kinds DEF Standing
<1>5. \A s \in Sources : k[s] = SumFunctionOnSet(Column(refunds, P, s), P)
  <2> TAKE s \in Sources
  <2> DEFINE g == [p \in Refunds |-> refunds[p][s]]
             h == Column(refunds, P, s)
  <2>1. k[s] = SumFunctionOnSet(g, P)
    BY DEF RefundedOf, TakenIn
  <2>2. \A p \in P : g[p] = h[p]
    BY <1>2 DEF Column
  <2> HIDE DEF g, h, P, k
  <2>3. SumFunctionOnSet(g, P) = SumFunctionOnSet(h, P)
    BY <1>2, <2>2, SumSame
  <2> QED
    BY <2>1, <2>3 DEF h
<1>6. \A p \in Refunds : f[p] \in Int /\ (p \notin P => f[p] = 0)
  <2>1. \A p \in Refunds : p \in FinancialRecords /\ Value(p) \in Nat
    BY Kinds, Values
  <2> QED
    BY <2>1 DEF Standing, PostedRefunds
<1> HIDE DEF P, f, k
<1>7. SumFunctionOnSet(f, P) = SumFunctionOnSet(k, Sources)
  BY <1>2, <1>3, <1>4, <1>5, SumExchange
<1>8. SumFunctionOnSet(f, Refunds) = SumFunctionOnSet(f, P)
  BY <1>2, <1>6, SumSupport
<1> QED
  BY <1>7, <1>8 DEF f, k

\* The balance of the client's movements is what the invoices are due less what the
\* sources hold.
THEOREM BooksReconciled == SettlementSpec => []Reconciled
<1>1. SettlementInvariant => Reconciled
  <2> SUFFICES ASSUME SettlementInvariant PROVE Reconciled
    OBVIOUS
  <2>1. SumFunctionOnSet(AppliedTo, Invoices) = SumFunctionOnSet(AppliedFrom, Sources)
    <3>1. allocations \in Seq(AllocationRows)
      BY DEF SettlementInvariant, SettlementTypeOK
    <3>2. \A n \in DOMAIN allocations :
              allocations[n].invoice \in Invoices /\ allocations[n].source \in Sources
      BY <3>1, AllocationFields
    <3>3. IsFiniteSet(Invoices) /\ IsFiniteSet(Sources)
      BY SettlementConstants
    <3>4. /\ Total(allocations, Amounts, DOMAIN allocations) = SumFunctionOnSet(AppliedTo, Invoices)
          /\ Total(allocations, Amounts, DOMAIN allocations) = SumFunctionOnSet(AppliedFrom, Sources)
      BY <3>1, <3>2, <3>3, TotalBy DEF AppliedTo, AppliedFrom
    <3> QED
      BY <3>4
  <2> DEFINE I == SumFunctionOnSet(Standing, Invoices)
             S == SumFunctionOnSet(Standing, Sources)
             R == SumFunctionOnSet(Standing, Refunds)
             A == SumFunctionOnSet(AppliedTo, Invoices)
             K == SumFunctionOnSet(RefundedOf, Sources)
             D == SumFunctionOnSet([i \in Invoices |-> invoice_due(i, Today)],
                                   {i \in Invoices : status[i] = "POSTED"})
             H == SumFunctionOnSet([s \in Sources |-> source_available(s, Today)], Range(sources))
  <2>2. I \in Int /\ S \in Int /\ R \in Int /\ Balance = I - S + R
    BY BalanceStanding
  <2>3. A \in Int /\ D = I - A
    BY DueTotal
  <2>4. K \in Int /\ H = S - A - K
    BY <2>1, AvailableTotal
  <2>5. K = R
    BY RefundTotal
  <2>6. Reconciled <=> Balance = D - H
    BY DEF Reconciled
  <2> HIDE DEF I, S, R, A, K, D, H
  <2> QED
    BY <2>2, <2>3, <2>4, <2>5, <2>6
<1> QED
  BY <1>1, SettlementInvariance, PTL

-----------------------------------------------------------------------------
(* History: what is dated in a closed period stays as it is.               *)

\* A date that is not closed comes after the frozen ones.
LEMMA AfterFrozen ==
    ASSUME NEW day \in AccountingDates, Frozen(day), NEW d \in AccountingDates, d \notin closed
    PROVE  ~(d <= day)
  BY SettlementConstants DEF Frozen, AccountingDates

PostEntry(r, d) == [record |-> r, event |-> "POST", date |-> d]
DatesFit ==
    /\ \A r \in FinancialRecords : status[r] # "APPROVED" =>
           \E d \in AccountingDates : PostEntry(r, d) \in entries
    /\ \A r \in FinancialRecords, d \in AccountingDates :
           PostEntry(r, d) \in entries => DateOf(r) = d

\* The entry of its posting says the date of a record.
LEMMA EntryDates == SettlementTypeOK /\ EntriesFit => DatesFit
<1> SUFFICES ASSUME SettlementTypeOK, EntriesFit PROVE DatesFit
  OBVIOUS
<1>1. entries \subseteq [record : FinancialRecords, event : {"POST", "REVERSE"},
                         date : AccountingDates]
  BY DEF SettlementTypeOK
<1>2. ASSUME NEW r \in FinancialRecords, status[r] # "APPROVED"
      PROVE  \E d \in AccountingDates : PostEntry(r, d) \in entries
  <2>1. PICK e \in entries : e.record = r /\ e.event = "POST" /\ e.date = DateOf(r)
    BY <1>2, PostingDates
  <2>2. e.date \in AccountingDates /\ e = PostEntry(r, e.date)
    BY <1>1, <2>1 DEF PostEntry
  <2> QED
    BY <2>1, <2>2
<1>3. ASSUME NEW r \in FinancialRecords, NEW d \in AccountingDates, PostEntry(r, d) \in entries
      PROVE  DateOf(r) = d
  <2> DEFINE e == PostEntry(r, d)
  <2>1. e \in entries /\ e.record = r /\ e.event = "POST" /\ e.date = d
    BY <1>3 DEF PostEntry
  <2> HIDE DEF e
  <2>2. DateOf(e.record) = e.date
    BY <2>1, PostingDates
  <2> QED
    BY <2>1, <2>2
<1> QED
  BY <1>2, <1>3 DEF DatesFit

\* A step leaves alone what the entries say as of a frozen date.
LEMMA EntriesHistory ==
    ASSUME SettlementTypeOK, EntriesFit, SettlementTypeOK', EntriesFit', BookStep,
           NEW day \in AccountingDates, Frozen(day)
    PROVE  /\ \A r : ReversedBy(r, day)' <=> ReversedBy(r, day)
           /\ \A r \in FinancialRecords :
                  (status'[r] # "APPROVED" /\ DateOf(r)' <= day)
                      <=> (status[r] # "APPROVED" /\ DateOf(r) <= day)
<1>1. DatesFit /\ DatesFit'
  BY EntryDates, PTL
<1>2. ASSUME NEW r \in FinancialRecords, NEW d \in AccountingDates, PostEntry(r, d) \in entries'
      PROVE  DateOf(r)' = d
  BY <1>1, <1>2 DEF DatesFit
<1>3. /\ status \in [FinancialRecords -> {"APPROVED", "POSTED", "REVERSED"}]
      /\ \A r \in FinancialRecords : status[r] # "APPROVED" => status'[r] # "APPROVED"
  BY StatusForward DEF SettlementTypeOK, Forward
<1>4. entries \subseteq entries'
  BY DEF BookStep, PostingStep, ReversingStep, Journal
<1>5. ASSUME NEW e \in entries', e \notin entries
      PROVE  ~(e.date <= day)
  <2>1. PICK r \in FinancialRecords, d \in AccountingDates, m \in MovementRows :
            PostingStep(r, d, m) \/ ReversingStep(r, d, m)
    BY <1>5 DEF BookStep
  <2>2. e.date = d /\ d \notin closed
    BY <1>5, <2>1 DEF PostingStep, ReversingStep, Journal
  <2> QED
    BY <2>2, AfterFrozen
<1>6. ASSUME NEW r
      PROVE  ReversedBy(r, day)' <=> ReversedBy(r, day)
  BY <1>4, <1>5 DEF ReversedBy
<1>7. ASSUME NEW r \in FinancialRecords, status[r] # "APPROVED"
      PROVE  DateOf(r)' = DateOf(r)
  <2>1. PICK d \in AccountingDates : PostEntry(r, d) \in entries
    BY <1>1, <1>7 DEF DatesFit
  <2>2. DateOf(r) = d
    BY <1>1, <2>1 DEF DatesFit
  <2>3. DateOf(r)' = d
    BY <1>2, <1>4, <2>1
  <2> QED
    BY <2>2, <2>3
<1>8. ASSUME NEW r \in FinancialRecords, status[r] = "APPROVED", status'[r] # "APPROVED"
      PROVE  ~(DateOf(r)' <= day)
  <2>1. PICK x \in FinancialRecords, d \in AccountingDates, m \in MovementRows :
            PostingStep(x, d, m) \/ ReversingStep(x, d, m)
    BY <1>8 DEF BookStep
  <2>2. x = r /\ PostingStep(x, d, m)
    BY <1>3, <1>8, <2>1 DEF PostingStep, ReversingStep
  <2>3. PostEntry(r, d) \in entries' /\ d \notin closed
    BY <2>2 DEF PostingStep, Journal, PostEntry
  <2>4. DateOf(r)' = d
    BY <1>2, <2>3
  <2> QED
    BY <2>3, <2>4, AfterFrozen
<1>9. ASSUME NEW r \in FinancialRecords
      PROVE  (status'[r] # "APPROVED" /\ DateOf(r)' <= day)
                 <=> (status[r] # "APPROVED" /\ DateOf(r) <= day)
  BY <1>3, <1>7, <1>8
<1> QED
  BY <1>6, <1>9

\* Nor does it change the balance as of a frozen date.
LEMMA BalanceHistory ==
    ASSUME MovementsFit, MovementsFit', BookStep, NEW day \in AccountingDates, Frozen(day)
    PROVE  BalanceAsOf(day)' = BalanceAsOf(day)
<1> DEFINE S == {m \in movements : m.date <= day}
           T == {m \in movements' : m.date <= day}
           f == [m \in movements |-> m.debit - m.credit]
           g == [m \in movements' |-> m.debit - m.credit]
<1>1. BalanceAsOf(day) = SumFunctionOnSet(f, S) /\ BalanceAsOf(day)' = SumFunctionOnSet(g, T)
  BY DEF BalanceAsOf
<1>2. movements \subseteq movements' /\ \A m \in movements' \ movements : ~(m.date <= day)
  <2>1. CASE movements' = movements
    BY <2>1
  <2>2. CASE movements' # movements
    <3>1. PICK r \in FinancialRecords, d \in AccountingDates, m \in MovementRows :
              PostingStep(r, d, m) \/ ReversingStep(r, d, m)
      BY <2>2 DEF BookStep
    <3>2. movements' = movements \cup {m} /\ m.date = d /\ d \notin closed
      BY <3>1 DEF PostingStep, ReversingStep
    <3> QED
      BY <3>2, AfterFrozen
  <2> QED
    BY <2>1, <2>2
<1>3. S = T /\ \A m \in S : f[m] = g[m]
  BY <1>2
<1>4. IsFiniteSet(S)
  <2>1. IsFiniteSet(movements) /\ S \subseteq movements
    BY DEF MovementsFit
  <2> QED
    BY <2>1, FS_Subset
<1> HIDE DEF S, T, f, g
<1>5. SumFunctionOnSet(f, S) = SumFunctionOnSet(g, S)
  BY <1>3, <1>4, SumSame
<1> QED
  BY <1>1, <1>3, <1>5

\* A sequence of allocations that goes on with later ones.
Later(a, b, day) ==
    /\ DOMAIN a \subseteq DOMAIN b /\ \A n \in DOMAIN a : b[n] = a[n]
    /\ \A n \in DOMAIN b \ DOMAIN a : ~(b[n].date <= day)

\* What it applies as of a date is what was applied.
LEMMA LaterTotals ==
    ASSUME NEW a \in Seq(AllocationRows), NEW b \in Seq(AllocationRows), NEW day, Later(a, b, day)
    PROVE  /\ \A i : Total(b, Amounts, UpTo(b, ByInvoice(b, i), day))
                         = Total(a, Amounts, UpTo(a, ByInvoice(a, i), day))
           /\ \A s : Total(b, Amounts, UpTo(b, BySource(b, s), day))
                         = Total(a, Amounts, UpTo(a, BySource(a, s), day))
<1>1. ASSUME NEW S, S \subseteq DOMAIN a
      PROVE  Total(b, Amounts, S) = Total(a, Amounts, S)
  <2> DEFINE f == Each(a, Amounts)
             g == Each(b, Amounts)
  <2>1. IsFiniteSet(DOMAIN a) /\ \A n \in DOMAIN a : f[n] = Amounts[a[n]]
    BY EachRow, CountedRows
  <2>2. \A n \in DOMAIN b : g[n] = Amounts[b[n]]
    BY EachRow, CountedRows
  <2>3. IsFiniteSet(S)
    BY <1>1, <2>1, FS_Subset
  <2>4. \A n \in S : g[n] = f[n]
    BY <1>1, <2>1, <2>2 DEF Later
  <2>5. Total(b, Amounts, S) = SumFunctionOnSet(g, S) /\ Total(a, Amounts, S) = SumFunctionOnSet(f, S)
    BY DEF Total
  <2> HIDE DEF f, g
  <2> QED
    BY <2>3, <2>4, <2>5, SumSame
<1>2. ASSUME NEW i
      PROVE  Total(b, Amounts, UpTo(b, ByInvoice(b, i), day))
                 = Total(a, Amounts, UpTo(a, ByInvoice(a, i), day))
  <2>1. /\ UpTo(b, ByInvoice(b, i), day) = UpTo(a, ByInvoice(a, i), day)
        /\ UpTo(a, ByInvoice(a, i), day) \subseteq DOMAIN a
    BY DEF UpTo, ByInvoice, Later
  <2> QED
    BY <1>1, <2>1
<1>3. ASSUME NEW s
      PROVE  Total(b, Amounts, UpTo(b, BySource(b, s), day))
                 = Total(a, Amounts, UpTo(a, BySource(a, s), day))
  <2>1. /\ UpTo(b, BySource(b, s), day) = UpTo(a, BySource(a, s), day)
        /\ UpTo(a, BySource(a, s), day) \subseteq DOMAIN a
    BY DEF UpTo, BySource, Later
  <2> QED
    BY <1>1, <2>1
<1> QED
  BY <1>2, <1>3

\* A step goes on with allocations dated after the frozen dates.
LEMMA AllocationsLater ==
    ASSUME SettlementInvariant, [SettlementNext]_settlementVars,
           NEW day \in AccountingDates, Frozen(day)
    PROVE  Later(allocations, allocations', day)
<1>1. allocations \in Seq(AllocationRows)
  BY DEF SettlementInvariant, SettlementTypeOK
<1>2. CASE allocations' = allocations
  BY <1>2 DEF Later
<1>3. ASSUME NEW row, Applying(row)
      PROVE  Later(allocations, allocations', day)
  <2> DEFINE b == allocations'
             R == AllocationRows
  <2>1. row \in AllocationRows /\ b = Append(allocations, row) /\ row.date \notin closed
    BY <1>3 DEF Applying
  <2>2. ~(row.date <= day)
    BY <2>1, AllocationFields, AfterFrozen
  <2>3. allocations \in Seq(R) /\ row \in R
    BY <1>1, <2>1
  <2> HIDE DEF b, R
  <2>4. /\ DOMAIN b = DOMAIN allocations \cup {Len(b)} /\ b[Len(b)] = row
        /\ \A n \in DOMAIN allocations : b[n] = allocations[n]
    BY <2>1, <2>3, AppendedOne
  <2>5. Later(allocations, b, day)
    BY <2>2, <2>4 DEF Later
  <2> QED
    BY <2>5 DEF b
<1>4. ASSUME NEW rows, ReleaseStep(rows)
      PROVE  Later(allocations, allocations', day)
  <2> DEFINE b == allocations'
             R == AllocationRows
  <2>1. /\ rows \in Seq(AllocationRows) /\ b = allocations \o rows
        /\ \A k \in DOMAIN rows : rows[k].date \notin closed
    BY <1>4 DEF ReleaseStep
  <2>2. \A k \in DOMAIN rows : ~(rows[k].date <= day)
    <3> TAKE k \in DOMAIN rows
    <3>1. rows[k] \in AllocationRows
      BY <2>1
    <3>2. rows[k].date \in AccountingDates /\ rows[k].date \notin closed
      BY <2>1, <3>1, AllocationFields
    <3> QED
      BY <3>2, AfterFrozen
  <2>3. allocations \in Seq(R) /\ rows \in Seq(R)
    BY <1>1, <2>1
  <2> HIDE DEF b, R
  <2>4. /\ DOMAIN allocations \subseteq DOMAIN b
        /\ \A n \in DOMAIN allocations : b[n] = allocations[n]
        /\ \A n \in DOMAIN b \ DOMAIN allocations :
               n - Len(allocations) \in DOMAIN rows /\ b[n] = rows[n - Len(allocations)]
    BY <2>1, <2>3, Appended
  <2>5. Later(allocations, b, day)
    BY <2>2, <2>4 DEF Later
  <2> QED
    BY <2>5 DEF b
<1>5. ASSUME NEW r \in FinancialRecords, NEW d, ReverseRecord(r, d)
      PROVE  Later(allocations, allocations', day)
  BY <1>4, <1>5, ReversalReleases
<1>6. ASSUME NEW p, NEW d, PostRefund(p, d)
      PROVE  allocations' = allocations
  BY <1>6 DEF PostRefund
<1> QED
  BY <1>2, <1>3, <1>4, <1>5, <1>6, MoneySteps DEF MoneyStep

\* What is due and available as of a date, as sums.
Readings ==
    /\ \A i, day : invoice_due(i, day)
           = Value(i) - Total(allocations, Amounts, UpTo(allocations, ByInvoice(allocations, i), day))
    /\ \A s, day : source_available(s, day)
           = IF ReversedBy(s, day) THEN 0
             ELSE Value(s)
                      - Total(allocations, Amounts, UpTo(allocations, BySource(allocations, s), day))
                      - SumFunctionOnSet(Shares(refunds, s), Refunding(day))

LEMMA ReadingsAre == SettlementTypeOK => Readings
<1> SUFFICES ASSUME SettlementTypeOK PROVE Readings
  OBVIOUS
<1>1. /\ \A i : OfInvoice(i) = ByInvoice(allocations, i)
      /\ \A i : ByInvoice(allocations, i) \in SUBSET DOMAIN allocations
      /\ \A s : OfSource(s) = BySource(allocations, s)
      /\ \A s : BySource(allocations, s) \in SUBSET DOMAIN allocations
  BY DEF OfInvoice, ByInvoice, OfSource, BySource
<1>2. \A s, P : Taken(s, P) = SumFunctionOnSet(Shares(refunds, s), P)
  BY DEF Taken, Shares
<1>3. \A events \in SUBSET DOMAIN allocations : \A day :
          applied(events, day) = Total(allocations, Amounts, UpTo(allocations, events, day))
  BY AppliedIs
<1>4. ASSUME NEW i, NEW day
      PROVE  invoice_due(i, day)
                 = Value(i) - Total(allocations, Amounts,
                                    UpTo(allocations, ByInvoice(allocations, i), day))
  BY <1>1, <1>3 DEF invoice_due
<1>5. ASSUME NEW s, NEW day
      PROVE  source_available(s, day)
                 = IF ReversedBy(s, day) THEN 0
                   ELSE Value(s)
                            - Total(allocations, Amounts,
                                    UpTo(allocations, BySource(allocations, s), day))
                            - SumFunctionOnSet(Shares(refunds, s), Refunding(day))
  <2>1. applied(OfSource(s), day)
            = Total(allocations, Amounts, UpTo(allocations, BySource(allocations, s), day))
    BY <1>1, <1>3
  <2> QED
    BY <1>2, <2>1 DEF source_available
<1> QED
  BY <1>4, <1>5 DEF Readings

\* The refunds that count as of a frozen date, and what they take, stay the same.
LEMMA RefundsHistory ==
    ASSUME SettlementInvariant, SettlementInvariant', [SettlementNext]_settlementVars,
           NEW day \in AccountingDates, Frozen(day), NEW s \in Sources
    PROVE  SumFunctionOnSet(Shares(refunds', s), Refunding(day)')
               = SumFunctionOnSet(Shares(refunds, s), Refunding(day))
<1>1. /\ SettlementTypeOK /\ EntriesFit /\ SettlementTypeOK' /\ EntriesFit' /\ BookStep /\ MoneyStep
      /\ refunds \in [Refunds -> [Sources -> Nat]]
      /\ status \in [FinancialRecords -> {"APPROVED", "POSTED", "REVERSED"}]
  BY BookSteps, MoneySteps DEF SettlementInvariant, SettlementTypeOK
<1>2. /\ \A r : ReversedBy(r, day)' <=> ReversedBy(r, day)
      /\ \A r \in FinancialRecords :
             (status'[r] # "APPROVED" /\ DateOf(r)' <= day)
                 <=> (status[r] # "APPROVED" /\ DateOf(r) <= day)
  BY <1>1, EntriesHistory
<1>3. /\ Refunding(day) = {p \in Refunds : /\ status[p] # "APPROVED" /\ DateOf(p) <= day
                                          /\ ~ReversedBy(p, day)}
      /\ Refunding(day)' = {p \in Refunds : /\ status'[p] # "APPROVED" /\ DateOf(p)' <= day
                                           /\ ~ReversedBy(p, day)'}
  BY DEF Refunding, Paid
<1>4. \A p \in Refunds : p \in FinancialRecords
  BY Kinds
<1>5. Refunding(day)' = Refunding(day)
  BY <1>2, <1>3, <1>4
<1>6. \A p \in Refunds : status[p] # "APPROVED" => refunds'[p] = refunds[p]
  <2>1. ASSUME NEW x \in Refunds, NEW d, PostRefund(x, d), NEW p \in Refunds, status[p] # "APPROVED"
        PROVE  refunds'[p] = refunds[p]
    <3>1. status[x] = "APPROVED" /\ \E parts : refunds' = [refunds EXCEPT ![x] = parts]
      BY <2>1 DEF PostRefund, MarkPosted
    <3> QED
      BY <1>1, <2>1, <3>1
  <2>2. ASSUME NEW r, NEW d, ReverseRecord(r, d)
        PROVE  refunds' = refunds
    BY <2>2 DEF ReverseRecord
  <2> QED
    BY <1>1, <2>1, <2>2 DEF MoneyStep, SameRefunds
<1> DEFINE P == Refunding(day)
           f == Shares(refunds, s)
           g == Shares(refunds', s)
<1>7. IsFiniteSet(P) /\ \A p \in P : g[p] = f[p]
  <2>1. P \subseteq Refunds /\ \A p \in P : status[p] # "APPROVED"
    BY <1>3
  <2>2. \A p \in P : g[p] = f[p]
    BY <1>6, <2>1 DEF Shares
  <2> QED
    BY <2>1, <2>2, SettlementConstants, FS_Subset
<1> HIDE DEF P, f, g
<1>8. SumFunctionOnSet(g, P) = SumFunctionOnSet(f, P)
  BY <1>7, SumSame
<1> QED
  BY <1>5, <1>8 DEF P, f, g

\* Once every period up to a date is closed, what the statement says as of it is final.
THEOREM ClosedHistory == SettlementSpec => ClosedHistoryFixed
<1>1. SettlementInvariant /\ SettlementInvariant' /\ [SettlementNext]_settlementVars =>
          \A day \in AccountingDates : Frozen(day) =>
              /\ BalanceAsOf(day)' = BalanceAsOf(day)
              /\ \A i \in Invoices : invoice_due(i, day)' = invoice_due(i, day)
              /\ \A s \in Range(sources) : source_available(s, day)' = source_available(s, day)
  <2> SUFFICES ASSUME SettlementInvariant, SettlementInvariant', [SettlementNext]_settlementVars,
                      NEW day \in AccountingDates, Frozen(day)
               PROVE  /\ BalanceAsOf(day)' = BalanceAsOf(day)
                      /\ \A i \in Invoices : invoice_due(i, day)' = invoice_due(i, day)
                      /\ \A s \in Range(sources) :
                             source_available(s, day)' = source_available(s, day)
    OBVIOUS
  <2>1. /\ SettlementTypeOK /\ SettlementTypeOK' /\ EntriesFit /\ EntriesFit'
        /\ MovementsFit /\ MovementsFit' /\ BookStep
    BY BookSteps DEF SettlementInvariant
  <2>2. Readings /\ Readings'
    BY <2>1, ReadingsAre, PTL
  <2>3. allocations \in Seq(AllocationRows) /\ allocations' \in Seq(AllocationRows)
    BY <2>1 DEF SettlementTypeOK
  <2>4. /\ \A i : Total(allocations', Amounts, UpTo(allocations', ByInvoice(allocations', i), day))
              = Total(allocations, Amounts, UpTo(allocations, ByInvoice(allocations, i), day))
        /\ \A s : Total(allocations', Amounts, UpTo(allocations', BySource(allocations', s), day))
              = Total(allocations, Amounts, UpTo(allocations, BySource(allocations, s), day))
    BY <2>3, AllocationsLater, LaterTotals
  <2>5. BalanceAsOf(day)' = BalanceAsOf(day)
    BY <2>1, BalanceHistory
  <2>6. ASSUME NEW i \in Invoices
        PROVE  invoice_due(i, day)' = invoice_due(i, day)
    BY <2>2, <2>4 DEF Readings
  <2>7. ASSUME NEW s \in Range(sources)
        PROVE  source_available(s, day)' = source_available(s, day)
    <3>1. s \in Sources
      BY <2>1, SettlementRows DEF SettlementTypeOK, Range
    <3>2. SumFunctionOnSet(Shares(refunds', s), Refunding(day)')
              = SumFunctionOnSet(Shares(refunds, s), Refunding(day))
      BY <3>1, RefundsHistory
    <3>3. ReversedBy(s, day)' <=> ReversedBy(s, day)
      BY <2>1, EntriesHistory
    <3>4. source_available(s, day)
              = IF ReversedBy(s, day) THEN 0
                ELSE Value(s)
                       - Total(allocations, Amounts, UpTo(allocations, BySource(allocations, s), day))
                       - SumFunctionOnSet(Shares(refunds, s), Refunding(day))
      BY <2>2 DEF Readings
    <3>5. source_available(s, day)'
              = IF ReversedBy(s, day)' THEN 0
                ELSE Value(s)
                       - Total(allocations', Amounts,
                               UpTo(allocations', BySource(allocations', s), day))
                       - SumFunctionOnSet(Shares(refunds', s), Refunding(day)')
      BY <2>2 DEF Readings
    <3> QED
      BY <2>4, <3>2, <3>3, <3>4, <3>5
  <2> QED
    BY <2>5, <2>6, <2>7
<1> QED
  BY <1>1, SettlementInvariance, PTL DEF SettlementSpec, ClosedHistoryFixed

=============================================================================
