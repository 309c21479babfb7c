------------------------- MODULE FulfilmentProofs -------------------------
(***************************************************************************)
(* Proofs about Fulfilment, for any quantities and any number of           *)
(* purchases, receipts, deliveries, outcomes, resolutions, credits and     *)
(* recognitions.                                                           *)
(*                                                                         *)
(* The tables only grow, so each action adds a row and every sum over rows *)
(* is the old sum, or the old sum and the new quantity (Sums).  The guard  *)
(* of the action bounds the new row by what the row it names had left;     *)
(* FulfilmentInvariant says so of every row.  What the properties say of   *)
(* whole orders follows by exchanging the order of summation: the rejected *)
(* goods of all outcomes are those of all attempts, and each is answered   *)
(* by a closure or by an attempt.  The last part maps the rows to the      *)
(* account OrderBalance, step by step.                                     *)
(***************************************************************************)
EXTENDS Fulfilment, Sums, TLAPS

\* The conjuncts of the assumption.
LEMMA Bounds ==
    /\ ItemQuantity \in Nat \ {0}
    /\ Quantities \subseteq Nat \ {0} /\ BillQuantities \subseteq Nat \ {0}
BY FulfilmentAssumption DEF FulfilmentAssumption

\* A table is a sequence, and its rows are finitely many.
LEMMA FiniteRows ==
    ASSUME NEW R, NEW t \in Seq(R)
    PROVE  /\ Len(t) \in Nat /\ DOMAIN t = 1..Len(t) /\ IsFiniteSet(DOMAIN t)
           /\ \A i \in DOMAIN t : t[i] \in R
<1>1. Len(t) \in Nat /\ DOMAIN t = 1..Len(t) /\ \A i \in DOMAIN t : t[i] \in R
  OBVIOUS
<1>2. IsFiniteSet(1..Len(t))
  BY <1>1, FS_Interval
<1> QED
  BY <1>1, <1>2

\* The types of the rows, field by field.
LEMMA Fields ==
    ASSUME TypeOK
    PROVE  /\ \A a \in DOMAIN attempts :
                 attempts[a] \in Attempt /\ attempts[a].quantity \in Nat \ {0}
                 /\ attempts[a].replaces \in Nat /\ attempts[a].po \in Nat
           /\ \A p \in DOMAIN purchases :
                 purchases[p] \in PurchaseLine /\ purchases[p].quantity \in Nat \ {0}
           /\ \A r \in DOMAIN receipts :
                 receipts[r] \in ReceiptLine /\ receipts[r].quantity \in Nat \ {0}
           /\ \A d \in DOMAIN deliveries :
                 deliveries[d] \in DeliveryLine /\ deliveries[d].quantity \in Nat \ {0}
           /\ \A o \in DOMAIN outcomes :
                 outcomes[o] \in OutcomeLine
                 /\ outcomes[o].accepted \in Nat /\ outcomes[o].rejected \in Nat
           /\ \A x \in DOMAIN actions :
                 actions[x] \in RejectionAction /\ actions[x].quantity \in Nat \ {0}
           /\ \A l \in DOMAIN invoices :
                 invoices[l] \in InvoiceLine /\ invoices[l].quantity \in Nat \ {0}
           /\ \A c \in DOMAIN credits :
                 credits[c] \in QuantityOfLine /\ credits[c].quantity \in Nat \ {0}
           /\ \A r \in DOMAIN recognitions :
                 recognitions[r] \in QuantityOfLine /\ recognitions[r].quantity \in Nat \ {0}
<1>0. /\ \A a \in DOMAIN attempts : attempts[a] \in Attempt
      /\ \A p \in DOMAIN purchases : purchases[p] \in PurchaseLine
      /\ \A r \in DOMAIN receipts : receipts[r] \in ReceiptLine
      /\ \A d \in DOMAIN deliveries : deliveries[d] \in DeliveryLine
      /\ \A o \in DOMAIN outcomes : outcomes[o] \in OutcomeLine
      /\ \A x \in DOMAIN actions : actions[x] \in RejectionAction
      /\ \A l \in DOMAIN invoices : invoices[l] \in InvoiceLine
      /\ \A c \in DOMAIN credits : credits[c] \in QuantityOfLine
      /\ \A r \in DOMAIN recognitions : recognitions[r] \in QuantityOfLine
  BY DEF TypeOK
<1>1. \A a \in DOMAIN attempts :
         attempts[a] \in Attempt /\ attempts[a].quantity \in Nat \ {0}
         /\ attempts[a].replaces \in Nat /\ attempts[a].po \in Nat
  BY <1>0, Bounds DEF Attempt
<1>2. \A p \in DOMAIN purchases :
         purchases[p] \in PurchaseLine /\ purchases[p].quantity \in Nat \ {0}
  BY <1>0, Bounds DEF PurchaseLine
<1>3. \A r \in DOMAIN receipts :
         receipts[r] \in ReceiptLine /\ receipts[r].quantity \in Nat \ {0}
  BY <1>0, Bounds DEF ReceiptLine
<1>4. \A d \in DOMAIN deliveries :
         deliveries[d] \in DeliveryLine /\ deliveries[d].quantity \in Nat \ {0}
  BY <1>0, Bounds DEF DeliveryLine
<1>5. \A o \in DOMAIN outcomes :
         outcomes[o] \in OutcomeLine /\ outcomes[o].accepted \in Nat /\ outcomes[o].rejected \in Nat
  BY <1>0 DEF OutcomeLine
<1>6. \A x \in DOMAIN actions :
         actions[x] \in RejectionAction /\ actions[x].quantity \in Nat \ {0}
  BY <1>0, Bounds DEF RejectionAction
<1>7. \A l \in DOMAIN invoices :
         invoices[l] \in InvoiceLine /\ invoices[l].quantity \in Nat \ {0}
  BY <1>0, Bounds DEF InvoiceLine
<1>8. \A c \in DOMAIN credits :
         credits[c] \in QuantityOfLine /\ credits[c].quantity \in Nat \ {0}
  BY <1>0, Bounds DEF QuantityOfLine
<1>9. \A r \in DOMAIN recognitions :
         recognitions[r] \in QuantityOfLine /\ recognitions[r].quantity \in Nat \ {0}
  BY <1>0, Bounds DEF QuantityOfLine
<1> QED
  BY <1>1, <1>2, <1>3, <1>4, <1>5, <1>6, <1>7, <1>8, <1>9

-----------------------------------------------------------------------------
(* Totals of tables.                                                       *)

\* A table: rows with quantities.
IsTable(t) == /\ IsFiniteSet(DOMAIN t)
              /\ \A i \in DOMAIN t : t[i].quantity \in Nat

\* The tables of typed states have quantities that are naturals.
LEMMA Tables ==
    ASSUME TypeOK
    PROVE  /\ IsTable(attempts) /\ IsTable(purchases) /\ IsTable(receipts) /\ IsTable(deliveries)
           /\ IsTable(actions) /\ IsTable(invoices) /\ IsTable(credits) /\ IsTable(recognitions)
           /\ IsFiniteSet(DOMAIN outcomes)
<1>1. /\ IsFiniteSet(DOMAIN attempts) /\ IsFiniteSet(DOMAIN purchases)
      /\ IsFiniteSet(DOMAIN receipts) /\ IsFiniteSet(DOMAIN deliveries)
      /\ IsFiniteSet(DOMAIN outcomes) /\ IsFiniteSet(DOMAIN actions)
      /\ IsFiniteSet(DOMAIN invoices) /\ IsFiniteSet(DOMAIN credits)
      /\ IsFiniteSet(DOMAIN recognitions)
  BY FiniteRows DEF TypeOK
<1> QED
  BY <1>1, Fields DEF IsTable

\* Totals of their rows are naturals.
LEMMA TotalNat ==
    ASSUME NEW t, IsTable(t), NEW S \in SUBSET DOMAIN t
    PROVE  IsFiniteSet(S) /\ total(t, S) \in Nat
<1> DEFINE f == [n \in DOMAIN t |-> t[n].quantity]
<1>1. IsFiniteSet(S) /\ \A i \in S : f[i] \in Nat
  BY FS_Subset DEF IsTable
<1>2. SumFunctionOnSet(f, S) \in Nat
  <2> HIDE DEF f
  <2> QED
    BY <1>1, SumNat
<1> QED
  BY <1>1, <1>2 DEF total

\* Rows that belong to the rows of another table and fit there.
LEMMA TotalFits ==
    ASSUME NEW t, IsTable(t), NEW u, IsTable(u), NEW h, NEW T \in SUBSET DOMAIN u,
           \A a \in T : total(t, {i \in DOMAIN t : h[i] = a}) <= u[a].quantity
    PROVE  total(t, {i \in DOMAIN t : h[i] \in T}) <= total(u, T)
<1> DEFINE
  f == [n \in DOMAIN t |-> t[n].quantity]
  g == [n \in DOMAIN u |-> u[n].quantity]
  S == {i \in DOMAIN t : h[i] \in T}
<1>1. IsFiniteSet(S) /\ IsFiniteSet(T)
  BY FS_Subset DEF IsTable
<1>2. \A x \in S : h[x] \in T /\ f[x] \in Int
  BY DEF IsTable
<1>3. \A a \in T : g[a] \in Int /\ SumFunctionOnSet(f, Group(h, S, a)) <= g[a]
  <2> TAKE a \in T
  <2>1. Group(h, S, a) = {i \in DOMAIN t : h[i] = a}
    BY DEF Group
  <2>2. g[a] = u[a].quantity /\ g[a] \in Int
    BY DEF IsTable
  <2> QED
    BY <2>1, <2>2 DEF total
<1>4. SumFunctionOnSet(f, S) <= SumFunctionOnSet(g, T)
  <2> HIDE DEF f, g, S
  <2> QED
    BY <1>1, <1>2, <1>3, SumFibres
<1> QED
  BY <1>4 DEF total

-----------------------------------------------------------------------------
(* From rows to the rows they belong to.                                   *)

\* A function that is the sum of two others on the outcomes.
Answered == [o \in DOMAIN outcomes |-> outcomes[o].accepted + outcomes[o].rejected]

\* What outcomes answer is what they accept and what they reject.
LEMMA AnsweredIs ==
    ASSUME TypeOK, NEW O \in SUBSET DOMAIN outcomes
    PROVE  /\ Accepted(O) \in Nat /\ Rejected(O) \in Nat /\ IsFiniteSet(O)
           /\ SumFunctionOnSet(Answered, O) = Accepted(O) + Rejected(O)
<1> DEFINE
  f == [o \in DOMAIN outcomes |-> outcomes[o].accepted]
  g == [o \in DOMAIN outcomes |-> outcomes[o].rejected]
  h == Answered
<1>1. IsFiniteSet(O)
  BY Tables, FS_Subset
<1>2. \A o \in O : f[o] \in Nat /\ g[o] \in Nat /\ h[o] = f[o] + g[o]
  BY Fields DEF Answered
<1>3. SumFunctionOnSet(f, O) \in Nat /\ SumFunctionOnSet(g, O) \in Nat
  <2> HIDE DEF f, g, h
  <2> QED
    BY <1>1, <1>2, SumNat
<1>4. SumFunctionOnSet(h, O) = SumFunctionOnSet(f, O) + SumFunctionOnSet(g, O)
  <2>1. \A o \in O : f[o] \in Int /\ g[o] \in Int /\ h[o] = f[o] + g[o]
    BY <1>2
  <2> HIDE DEF f, g, h
  <2> QED
    BY <1>1, <2>1, SumPlus
<1> QED
  BY <1>1, <1>3, <1>4 DEF Accepted, Rejected

\* The outcomes of attempts answer no more than these asked for.
LEMMA AnswersFit ==
    ASSUME FulfilmentInvariant, NEW A \in SUBSET DOMAIN attempts
    PROVE  LET O == {o \in DOMAIN outcomes : AttemptOf(outcomes[o].delivery) \in A}
           IN  Accepted(O) + Rejected(O) <= total(attempts, A)
<1> DEFINE
  hp == [p \in DOMAIN purchases |-> purchases[p].attempt]
  hr == [r \in DOMAIN receipts |-> receipts[r].purchase]
  hd == [d \in DOMAIN deliveries |-> deliveries[d].receipt]
  ho == [o \in DOMAIN outcomes |-> outcomes[o].delivery]
  P == {p \in DOMAIN purchases : hp[p] \in A}
  R == {r \in DOMAIN receipts : hr[r] \in P}
  D == {d \in DOMAIN deliveries : hd[d] \in R}
  O == {o \in DOMAIN outcomes : ho[o] \in D}
<1> USE DEF FulfilmentInvariant
<1>1. total(purchases, P) <= total(attempts, A)
  <2>1. \A a \in A : total(purchases, {i \in DOMAIN purchases : hp[i] = a}) <= attempts[a].quantity
    <3> TAKE a \in A
    <3>1. {i \in DOMAIN purchases : hp[i] = a} = PurchasesOf(a)
      BY DEF PurchasesOf
    <3> QED
      BY <3>1 DEF PurchasesFit
  <2> HIDE DEF hp
  <2> QED
    BY <2>1, Tables, TotalFits
<1>2. total(receipts, R) <= total(purchases, P)
  <2>1. \A p \in P : total(receipts, {i \in DOMAIN receipts : hr[i] = p}) <= purchases[p].quantity
    <3> TAKE p \in P
    <3>1. {i \in DOMAIN receipts : hr[i] = p} = ReceiptsOf(p)
      BY DEF ReceiptsOf
    <3> QED
      BY <3>1 DEF ReceiptsFit
  <2>2. P \in SUBSET DOMAIN purchases
    OBVIOUS
  <2> HIDE DEF hr, P
  <2> QED
    BY <2>1, <2>2, Tables, TotalFits
<1>3. total(deliveries, D) <= total(receipts, R)
  <2>1. \A r \in R : total(deliveries, {i \in DOMAIN deliveries : hd[i] = r}) <= receipts[r].quantity
    <3> TAKE r \in R
    <3>1. {i \in DOMAIN deliveries : hd[i] = r} = DeliveriesOf(r)
      BY DEF DeliveriesOf
    <3> QED
      BY <3>1 DEF DeliveriesFit
  <2>2. R \in SUBSET DOMAIN receipts
    OBVIOUS
  <2> HIDE DEF hd, R
  <2> QED
    BY <2>1, <2>2, Tables, TotalFits
<1>4. SumFunctionOnSet(Answered, O) <= total(deliveries, D)
  <2> DEFINE g == [d \in DOMAIN deliveries |-> deliveries[d].quantity]
  <2>1. \A d \in D : g[d] \in Int /\ SumFunctionOnSet(Answered, Group(ho, O, d)) <= g[d]
    <3> TAKE d \in D
    <3>1. Group(ho, O, d) = OutcomesOf(d)
      BY DEF OutcomesOf, Group
    <3>2. OutcomesOf(d) \in SUBSET DOMAIN outcomes
      BY DEF OutcomesOf
    <3>3. SumFunctionOnSet(Answered, OutcomesOf(d)) = Accepted(OutcomesOf(d)) + Rejected(OutcomesOf(d))
      BY <3>2, AnsweredIs
    <3>4. g[d] = deliveries[d].quantity /\ g[d] \in Int
      BY Fields
    <3> QED
      BY <3>1, <3>3, <3>4 DEF OutcomesFit
  <2>2. \A o \in O : ho[o] \in D /\ Answered[o] \in Int
    BY Fields DEF Answered
  <2>3. IsFiniteSet(O) /\ IsFiniteSet(D)
    <3>1. O \subseteq DOMAIN outcomes /\ D \subseteq DOMAIN deliveries
      OBVIOUS
    <3>2. IsFiniteSet(DOMAIN outcomes) /\ IsFiniteSet(DOMAIN deliveries)
      BY Tables DEF IsTable
    <3> HIDE DEF O, D
    <3> QED
      BY <3>1, <3>2, FS_Subset
  <2>4. SumFunctionOnSet(Answered, O) <= SumFunctionOnSet(g, D)
    <3> HIDE DEF g, ho, O, D
    <3> QED
      BY <2>1, <2>2, <2>3, SumFibres
  <2> QED
    BY <2>4 DEF total
<1>5. O \in SUBSET DOMAIN outcomes
  OBVIOUS
<1>6. O = {o \in DOMAIN outcomes : AttemptOf(outcomes[o].delivery) \in A}
  BY DEF RowsBelong, AttemptOf, PurchaseOf
<1>7. /\ total(attempts, A) \in Nat /\ total(purchases, P) \in Nat
      /\ total(receipts, R) \in Nat /\ total(deliveries, D) \in Nat
  BY Tables, TotalNat
<1>8. /\ Accepted(O) \in Nat /\ Rejected(O) \in Nat
      /\ SumFunctionOnSet(Answered, O) = Accepted(O) + Rejected(O)
  BY <1>5, AnsweredIs
<1> HIDE DEF P, R, D, O
<1>9. Accepted(O) + Rejected(O) <= total(attempts, A)
  BY <1>1, <1>2, <1>3, <1>4, <1>7, <1>8
<1> QED
  BY <1>6, <1>9

\* Replacements and closures of rejections that are within these.
LEMMA ResolutionsFit ==
    ASSUME FulfilmentInvariant, NEW O \in SUBSET DOMAIN outcomes
    PROVE  /\ total(attempts, Replacements(O)) \in Nat /\ total(actions, Closures(O)) \in Nat
           /\ total(attempts, Replacements(O)) + total(actions, Closures(O)) <= Rejected(O)
<1> USE DEF FulfilmentInvariant
<1> DEFINE
  ha == [a \in DOMAIN attempts |-> attempts[a].replaces]
  hx == [x \in DOMAIN actions |-> actions[x].rejection]
  fa == [a \in DOMAIN attempts |-> attempts[a].quantity]
  fx == [x \in DOMAIN actions |-> actions[x].quantity]
  ga == [o \in O |-> Replaced(o)]
  gx == [o \in O |-> Acted(o, {"CLOSED_REJECTED"})]
  sum == [o \in O |-> ga[o] + gx[o]]
  rejected == [o \in DOMAIN outcomes |-> outcomes[o].rejected]
<1>1. IsFiniteSet(O) /\ IsFiniteSet(Replacements(O)) /\ IsFiniteSet(Closures(O))
      /\ total(attempts, Replacements(O)) \in Nat /\ total(actions, Closures(O)) \in Nat
  <2>1. Replacements(O) \in SUBSET DOMAIN attempts /\ Closures(O) \in SUBSET DOMAIN actions
    BY DEF Replacements, Closures
  <2> QED
    BY <2>1, Tables, TotalNat, FS_Subset
<1>2. total(attempts, Replacements(O)) = SumFunctionOnSet(ga, O)
  <2>1. \A a \in Replacements(O) : ha[a] \in O /\ fa[a] \in Int
    BY Fields DEF Replacements
  <2>2. \A o \in O : ga[o] = SumFunctionOnSet(fa, Group(ha, Replacements(O), o))
    <3> TAKE o \in O
    <3>1. Group(ha, Replacements(O), o) = {a \in DOMAIN attempts : attempts[a].replaces = o}
      BY DEF Group, Replacements
    <3> QED
      BY <3>1 DEF Replaced, total
  <2>3. SumFunctionOnSet(fa, Replacements(O)) = SumFunctionOnSet(ga, O)
    <3> HIDE DEF ha, fa, ga
    <3> QED
      BY <1>1, <2>1, <2>2, SumByFibre
  <2> QED
    BY <2>3 DEF total
<1>3. total(actions, Closures(O)) = SumFunctionOnSet(gx, O)
  <2>1. \A x \in Closures(O) : hx[x] \in O /\ fx[x] \in Int
    BY Fields DEF Closures
  <2>2. \A o \in O : gx[o] = SumFunctionOnSet(fx, Group(hx, Closures(O), o))
    <3> TAKE o \in O
    <3>1. Group(hx, Closures(O), o)
             = {x \in DOMAIN actions : actions[x].rejection = o /\ actions[x].kind \in {"CLOSED_REJECTED"}}
      BY DEF Group, Closures
    <3> QED
      BY <3>1 DEF Acted, total
  <2>3. SumFunctionOnSet(fx, Closures(O)) = SumFunctionOnSet(gx, O)
    <3> HIDE DEF hx, fx, gx
    <3> QED
      BY <1>1, <2>1, <2>2, SumByFibre
  <2> QED
    BY <2>3 DEF total
<1>4. \A o \in O : ga[o] \in Int /\ gx[o] \in Int /\ sum[o] = ga[o] + gx[o] /\ sum[o] \in Int
                   /\ rejected[o] \in Int /\ sum[o] <= rejected[o]
  <2> TAKE o \in O
  <2>1. ga[o] \in Nat
    <3>1. {a \in DOMAIN attempts : attempts[a].replaces = o} \in SUBSET DOMAIN attempts
      OBVIOUS
    <3> QED
      BY <3>1, Tables, TotalNat DEF Replaced
  <2>2. gx[o] \in Nat
    <3>1. {x \in DOMAIN actions : actions[x].rejection = o /\ actions[x].kind \in {"CLOSED_REJECTED"}}
             \in SUBSET DOMAIN actions
      OBVIOUS
    <3> QED
      BY <3>1, Tables, TotalNat DEF Acted
  <2>3. rejected[o] \in Nat /\ ga[o] + gx[o] <= rejected[o]
    BY Fields DEF ActionsFit
  <2>4. sum[o] = ga[o] + gx[o]
    OBVIOUS
  <2> HIDE DEF ga, gx, sum, rejected
  <2> QED
    BY <2>1, <2>2, <2>3, <2>4
<1>5. SumFunctionOnSet(sum, O) = SumFunctionOnSet(ga, O) + SumFunctionOnSet(gx, O)
  <2> HIDE DEF ga, gx, sum, rejected
  <2> QED
    BY <1>1, <1>4, SumPlus
<1>6. SumFunctionOnSet(sum, O) <= SumFunctionOnSet(rejected, O)
  <2> HIDE DEF ga, gx, sum, rejected
  <2> QED
    BY <1>1, <1>4, SumMonotone
<1>7. Rejected(O) = SumFunctionOnSet(rejected, O)
  BY DEF Rejected
<1> HIDE DEF ga, gx, sum, rejected
<1> QED
  BY <1>1, <1>2, <1>3, <1>5, <1>6, <1>7

\* The total of two disjoint sets of rows.
LEMMA TotalSplit ==
    ASSUME NEW t, IsTable(t), NEW S \in SUBSET DOMAIN t, NEW T \in SUBSET DOMAIN t, S \cap T = {}
    PROVE  total(t, S \cup T) = total(t, S) + total(t, T)
<1> DEFINE f == [n \in DOMAIN t |-> t[n].quantity]
<1>1. IsFiniteSet(S) /\ IsFiniteSet(T)
  BY TotalNat
<1>2. \A i \in S \cup T : f[i] \in Int
  BY DEF IsTable
<1>3. SumFunctionOnSet(f, S \cup T) = SumFunctionOnSet(f, S) + SumFunctionOnSet(f, T)
  <2> HIDE DEF f
  <2> QED
    BY <1>1, <1>2, SumSplit
<1> QED
  BY <1>3 DEF total

\* The total of one row.
LEMMA TotalOne ==
    ASSUME NEW t, IsTable(t), NEW i \in DOMAIN t
    PROVE  total(t, {i}) = t[i].quantity
<1> DEFINE f == [n \in DOMAIN t |-> t[n].quantity]
<1>1. f[i] \in Int /\ f[i] = t[i].quantity
  BY DEF IsTable
<1>2. SumFunctionOnSet(f, {} \cup {i}) = f[i] + SumFunctionOnSet(f, {})
  <2>1. IsFiniteSet({}) /\ i \notin {} /\ \A x \in {} : f[x] \in Int
    BY FS_EmptySet
  <2> HIDE DEF f
  <2> QED
    BY <1>1, <2>1, SumAdd
<1>3. SumFunctionOnSet(f, {}) = 0 /\ {} \cup {i} = {i}
  BY SumOfNone
<1> QED
  BY <1>1, <1>2, <1>3 DEF total

-----------------------------------------------------------------------------
(* OrderLineKept and the account of the whole item.                        *)

\* An outcome has a delivery, an attempt and an order.
LEMMA OutcomesAreOf ==
    ASSUME FulfilmentInvariant, NEW o \in DOMAIN outcomes
    PROVE  /\ outcomes[o].delivery \in DOMAIN deliveries
           /\ AttemptOf(outcomes[o].delivery) \in DOMAIN attempts
           /\ PoOf(outcomes[o].delivery) \in Orders
BY DEF FulfilmentInvariant, RowsBelong, AttemptOf, PurchaseOf, PoOf

\* Of one order line: the attempts of the line answer its quantity and what was
\* reopened, so what was accepted and closed is within its quantity.
LEMMA LineKept ==
    ASSUME FulfilmentInvariant, NEW po \in Orders
    PROVE  AcceptedOf({po}) + total(actions, Closures(OutcomesFor({po}))) <= attempts[po].quantity
<1> USE DEF FulfilmentInvariant
<1> DEFINE
  A == {a \in DOMAIN attempts : attempts[a].po = po}
  O == OutcomesFor({po})
<1>1. O \in SUBSET DOMAIN outcomes /\ O = {o \in DOMAIN outcomes : AttemptOf(outcomes[o].delivery) \in A}
  BY OutcomesAreOf DEF OutcomesFor, PoOf
<1>2. A = {po} \cup Replacements(O) /\ {po} \cap Replacements(O) = {}
      /\ Replacements(O) \in SUBSET DOMAIN attempts /\ po \in DOMAIN attempts
  <2>1. po \in DOMAIN attempts /\ attempts[po].replaces = 0 /\ attempts[po].po = po
    BY DEF Orders, RowsBelong
  <2>2. 0 \notin DOMAIN outcomes
    BY FiniteRows DEF TypeOK
  <2>3. \A a \in A : attempts[a].replaces = 0 => a = po
    BY DEF RowsBelong
  <2>4. \A a \in A : attempts[a].replaces # 0 => attempts[a].replaces \in O
    BY DEF RowsBelong, OutcomesFor
  <2>5. \A a \in DOMAIN attempts : attempts[a].replaces \in O => a \in A /\ attempts[a].replaces # 0
    BY <2>2 DEF RowsBelong, OutcomesFor
  <2> HIDE DEF O
  <2> QED
    BY <1>1, <2>1, <2>3, <2>4, <2>5 DEF Replacements
<1>3. Accepted(O) + Rejected(O) <= total(attempts, A)
  BY <1>1, AnswersFit
<1>4. total(attempts, A) = attempts[po].quantity + total(attempts, Replacements(O))
  <2>1. {po} \in SUBSET DOMAIN attempts
    BY <1>2
  <2>2. total(attempts, {po} \cup Replacements(O)) = total(attempts, {po}) + total(attempts, Replacements(O))
    <3> HIDE DEF A, O
    <3> QED
      BY <1>2, <2>1, Tables, TotalSplit
  <2>3. total(attempts, {po}) = attempts[po].quantity
    BY <1>2, Tables, TotalOne
  <2>4. A = {po} \cup Replacements(O)
    BY <1>2
  <2> HIDE DEF A, O
  <2> QED
    BY <2>2, <2>3, <2>4
<1>5. /\ total(attempts, Replacements(O)) \in Nat /\ total(actions, Closures(O)) \in Nat
      /\ total(attempts, Replacements(O)) + total(actions, Closures(O)) <= Rejected(O)
  BY <1>1, ResolutionsFit
<1>6. Accepted(O) \in Nat /\ Rejected(O) \in Nat
  BY <1>1, AnsweredIs
<1>7. attempts[po].quantity \in Nat
  BY <1>2, Fields
<1> HIDE DEF A, O
<1>8. Accepted(O) + total(actions, Closures(O)) <= attempts[po].quantity
  BY <1>3, <1>4, <1>5, <1>6, <1>7
<1> QED
  BY <1>8 DEF AcceptedOf, O

\* The account that OrderBalance keeps.
LEMMA Account ==
    ASSUME FulfilmentInvariant
    PROVE  /\ Ordered \in Nat /\ Reopened \in Nat /\ AllClosed \in Nat
           /\ AllAccepted \in Nat /\ AllRejected \in Nat
           /\ Ordered + Reopened = total(attempts, DOMAIN attempts)
           /\ AllAccepted + AllRejected <= Ordered + Reopened
           /\ Reopened + AllClosed <= AllRejected
           /\ Reopened = total(attempts, Replacements(DOMAIN outcomes))
           /\ AllClosed = total(actions, Closures(DOMAIN outcomes))
<1> USE DEF FulfilmentInvariant
<1>1. Replacements(DOMAIN outcomes) = DOMAIN attempts \ Orders
  <2>1. 0 \notin DOMAIN outcomes
    BY FiniteRows DEF TypeOK
  <2>2. \A a \in DOMAIN attempts : attempts[a].replaces # 0 => attempts[a].replaces \in DOMAIN outcomes
    BY DEF RowsBelong
  <2> QED
    BY <2>1, <2>2 DEF Replacements, Orders
<1>2. Closures(DOMAIN outcomes) = {x \in DOMAIN actions : actions[x].kind = "CLOSED_REJECTED"}
  BY DEF Closures, RowsBelong
<1>3. DOMAIN outcomes = {o \in DOMAIN outcomes : AttemptOf(outcomes[o].delivery) \in DOMAIN attempts}
  BY OutcomesAreOf
<1>4. AllAccepted + AllRejected <= total(attempts, DOMAIN attempts)
  BY <1>3, AnswersFit DEF AllAccepted, AllRejected
<1>5. Ordered + Reopened = total(attempts, DOMAIN attempts) /\ Ordered \in Nat
  <2>1. Orders \cup (DOMAIN attempts \ Orders) = DOMAIN attempts /\ Orders \in SUBSET DOMAIN attempts
        /\ DOMAIN attempts \ Orders \in SUBSET DOMAIN attempts
        /\ Orders \cap (DOMAIN attempts \ Orders) = {}
    BY DEF Orders
  <2>2. total(attempts, Orders \cup (DOMAIN attempts \ Orders)) = Ordered + Reopened
    BY <2>1, Tables, TotalSplit DEF Ordered, Reopened
  <2> QED
    BY <2>1, <2>2, Tables, TotalNat DEF Ordered
<1>6. /\ Reopened \in Nat /\ AllClosed \in Nat /\ Reopened + AllClosed <= AllRejected
      /\ Reopened = total(attempts, Replacements(DOMAIN outcomes))
      /\ AllClosed = total(actions, Closures(DOMAIN outcomes))
  BY <1>1, <1>2, ResolutionsFit DEF Reopened, AllClosed, AllRejected
<1>7. AllAccepted \in Nat /\ AllRejected \in Nat
  BY AnsweredIs DEF AllAccepted, AllRejected
<1> QED
  BY <1>4, <1>5, <1>6, <1>7

\* The same of all orders together.
LEMMA AccountBalances ==
    ASSUME FulfilmentInvariant
    PROVE  AllAccepted + AllClosed <= Ordered
<1> DEFINE o == Ordered  r == Reopened  c == AllClosed  a == AllAccepted  j == AllRejected
<1>1. /\ o \in Nat /\ r \in Nat /\ c \in Nat /\ a \in Nat /\ j \in Nat
      /\ a + j <= o + r /\ r + c <= j
  BY Account
<1> HIDE DEF o, r, c, a, j
<1>2. a + c <= o
  BY <1>1
<1> QED
  BY <1>2 DEF o, c, a

-----------------------------------------------------------------------------
(* NothingRemainsNothingOpen: where nothing remains every bound is reached. *)

\* If nothing remains, there is no slack in any of the inequalities: every attempt is
\* answered in full,
LEMMA EveryAttemptAnswered ==
    ASSUME FulfilmentInvariant, Ordered - AllAccepted - AllClosed = 0, NEW a \in DOMAIN attempts
    PROVE  /\ AcceptedBy(a) \in Nat /\ RejectedBy(a) \in Nat
           /\ AcceptedBy(a) + RejectedBy(a) = attempts[a].quantity
<1> USE DEF FulfilmentInvariant
<1> DEFINE
  f == [b \in DOMAIN attempts |-> Accepted(RejectionsOf(b)) + Rejected(RejectionsOf(b))]
  g == [n \in DOMAIN attempts |-> attempts[n].quantity]
  h == [o \in DOMAIN outcomes |-> AttemptOf(outcomes[o].delivery)]
<1>1. AllAccepted + AllRejected = Ordered + Reopened
  <2> DEFINE o == Ordered  r == Reopened  c == AllClosed  p == AllAccepted  j == AllRejected
  <2>1. /\ o \in Nat /\ r \in Nat /\ c \in Nat /\ p \in Nat /\ j \in Nat
        /\ p + j <= o + r /\ r + c <= j /\ o - p - c = 0
    BY Account
  <2> HIDE DEF o, r, c, p, j
  <2>2. p + j = o + r
    BY <2>1
  <2> QED
    BY <2>2 DEF o, r, p, j
<1>2. \A b \in DOMAIN attempts :
         /\ RejectionsOf(b) \in SUBSET DOMAIN outcomes
         /\ f[b] \in Int /\ g[b] \in Int /\ f[b] <= g[b]
  <2> TAKE b \in DOMAIN attempts
  <2>1. RejectionsOf(b) \in SUBSET DOMAIN outcomes
        /\ RejectionsOf(b) = {o \in DOMAIN outcomes : AttemptOf(outcomes[o].delivery) \in {b}}
    BY DEF RejectionsOf
  <2>2. Accepted(RejectionsOf(b)) + Rejected(RejectionsOf(b)) <= total(attempts, {b})
    BY <2>1, AnswersFit
  <2>3. total(attempts, {b}) = attempts[b].quantity
    BY Tables, TotalOne
  <2>4. Accepted(RejectionsOf(b)) \in Nat /\ Rejected(RejectionsOf(b)) \in Nat
    BY <2>1, AnsweredIs
  <2>5. g[b] = attempts[b].quantity /\ attempts[b].quantity \in Nat
    BY Fields
  <2>6. f[b] = Accepted(RejectionsOf(b)) + Rejected(RejectionsOf(b))
    OBVIOUS
  <2> HIDE DEF f, g
  <2> QED
    BY <2>1, <2>2, <2>3, <2>4, <2>5, <2>6
<1>3. SumFunctionOnSet(Answered, DOMAIN outcomes) = SumFunctionOnSet(f, DOMAIN attempts)
  <2>1. \A o \in DOMAIN outcomes : h[o] \in DOMAIN attempts /\ Answered[o] \in Int
    BY OutcomesAreOf, Fields DEF Answered
  <2>2. \A b \in DOMAIN attempts :
           f[b] = SumFunctionOnSet(Answered, Group(h, DOMAIN outcomes, b))
    <3> TAKE b \in DOMAIN attempts
    <3>1. Group(h, DOMAIN outcomes, b) = RejectionsOf(b)
      BY DEF Group, RejectionsOf
    <3>2. RejectionsOf(b) \in SUBSET DOMAIN outcomes
      BY <1>2
    <3> QED
      BY <3>1, <3>2, AnsweredIs
  <2>3. IsFiniteSet(DOMAIN outcomes) /\ IsFiniteSet(DOMAIN attempts)
    BY Tables DEF IsTable
  <2> HIDE DEF f, g, h
  <2> QED
    BY <2>1, <2>2, <2>3, SumByFibre
<1>4. SumFunctionOnSet(g, DOMAIN attempts) = Ordered + Reopened
  BY Account DEF total
<1>5. SumFunctionOnSet(f, DOMAIN attempts) = AllAccepted + AllRejected
  BY <1>3, AnsweredIs DEF AllAccepted, AllRejected
<1>6. SumFunctionOnSet(g, DOMAIN attempts) <= SumFunctionOnSet(f, DOMAIN attempts)
  <2>1. Ordered + Reopened \in Nat
    BY Account
  <2> QED
    BY <1>1, <1>4, <1>5, <2>1
<1>7. f[a] = g[a]
  <2>1. IsFiniteSet(DOMAIN attempts)
    BY Tables DEF IsTable
  <2> HIDE DEF f, g
  <2> QED
    BY <1>2, <1>6, <2>1, SumTight
<1>8. RejectionsOf(a) \in SUBSET DOMAIN outcomes
  BY <1>2
<1>9. Accepted(RejectionsOf(a)) \in Nat /\ Rejected(RejectionsOf(a)) \in Nat
  BY <1>8, AnsweredIs
<1> QED
  BY <1>7, <1>9 DEF AcceptedBy, RejectedBy

\* Disjoint sets of outcomes reject and accept the sum.
LEMMA RejectedSplit ==
    ASSUME TypeOK, NEW O \in SUBSET DOMAIN outcomes, NEW U \in SUBSET DOMAIN outcomes, O \cap U = {}
    PROVE  /\ Rejected(O \cup U) = Rejected(O) + Rejected(U)
           /\ Accepted(O \cup U) = Accepted(O) + Accepted(U)
<1> DEFINE
  f == [o \in DOMAIN outcomes |-> outcomes[o].rejected]
  g == [o \in DOMAIN outcomes |-> outcomes[o].accepted]
<1>1. IsFiniteSet(O) /\ IsFiniteSet(U)
  BY AnsweredIs
<1>2. \A o \in O \cup U : f[o] \in Int /\ g[o] \in Int
  BY Fields
<1>3. /\ SumFunctionOnSet(f, O \cup U) = SumFunctionOnSet(f, O) + SumFunctionOnSet(f, U)
      /\ SumFunctionOnSet(g, O \cup U) = SumFunctionOnSet(g, O) + SumFunctionOnSet(g, U)
  <2> HIDE DEF f, g
  <2> QED
    BY <1>1, <1>2, SumSplit
<1> QED
  BY <1>3 DEF Rejected, Accepted

\* and what it rejected is replaced or closed in full,
LEMMA EveryRejectionResolved ==
    ASSUME FulfilmentInvariant, Ordered - AllAccepted - AllClosed = 0, NEW a \in DOMAIN attempts
    PROVE  /\ ReplacedBy(a) \in Nat /\ ClosedBy(a) \in Nat
           /\ ReplacedBy(a) + ClosedBy(a) = RejectedBy(a)
<1> USE DEF FulfilmentInvariant
<1> DEFINE
  O == RejectionsOf(a)
  U == DOMAIN outcomes \ O
<1>1. /\ O \in SUBSET DOMAIN outcomes /\ U \in SUBSET DOMAIN outcomes
      /\ O \cap U = {} /\ O \cup U = DOMAIN outcomes
  BY DEF RejectionsOf
<1> HIDE DEF O, U
<1>2. Reopened + AllClosed = AllRejected
  <2> DEFINE o == Ordered  r == Reopened  c == AllClosed  p == AllAccepted  j == AllRejected
  <2>1. /\ o \in Nat /\ r \in Nat /\ c \in Nat /\ p \in Nat /\ j \in Nat
        /\ p + j <= o + r /\ r + c <= j /\ o - p - c = 0
    BY Account
  <2> HIDE DEF o, r, c, p, j
  <2>2. r + c = j
    BY <2>1
  <2> QED
    BY <2>2 DEF c, r, j
<1>3. Reopened = total(attempts, Replacements(O)) + total(attempts, Replacements(U))
  <2>1. /\ Replacements(O) \in SUBSET DOMAIN attempts /\ Replacements(U) \in SUBSET DOMAIN attempts
        /\ Replacements(O) \cap Replacements(U) = {}
        /\ Replacements(O) \cup Replacements(U) = Replacements(DOMAIN outcomes)
    BY <1>1 DEF Replacements
  <2>2. total(attempts, Replacements(O) \cup Replacements(U))
           = total(attempts, Replacements(O)) + total(attempts, Replacements(U))
    BY <2>1, Tables, TotalSplit
  <2>3. Reopened = total(attempts, Replacements(DOMAIN outcomes))
    BY Account
  <2> QED
    BY <2>1, <2>2, <2>3
<1>4. AllClosed = total(actions, Closures(O)) + total(actions, Closures(U))
  <2>1. /\ Closures(O) \in SUBSET DOMAIN actions /\ Closures(U) \in SUBSET DOMAIN actions
        /\ Closures(O) \cap Closures(U) = {}
        /\ Closures(O) \cup Closures(U) = Closures(DOMAIN outcomes)
    BY <1>1 DEF Closures
  <2>2. total(actions, Closures(O) \cup Closures(U))
           = total(actions, Closures(O)) + total(actions, Closures(U))
    BY <2>1, Tables, TotalSplit
  <2>3. AllClosed = total(actions, Closures(DOMAIN outcomes))
    BY Account
  <2> QED
    BY <2>1, <2>2, <2>3
<1>5. AllRejected = Rejected(O) + Rejected(U)
  BY <1>1, RejectedSplit DEF AllRejected
<1>6. /\ total(attempts, Replacements(O)) \in Nat /\ total(actions, Closures(O)) \in Nat
      /\ total(attempts, Replacements(O)) + total(actions, Closures(O)) <= Rejected(O)
      /\ total(attempts, Replacements(U)) \in Nat /\ total(actions, Closures(U)) \in Nat
      /\ total(attempts, Replacements(U)) + total(actions, Closures(U)) <= Rejected(U)
  BY <1>1, ResolutionsFit
<1>7. Rejected(O) \in Nat /\ Rejected(U) \in Nat
  BY <1>1, AnsweredIs
<1>8. total(attempts, Replacements(O)) + total(actions, Closures(O)) = Rejected(O)
  BY <1>2, <1>3, <1>4, <1>5, <1>6, <1>7
<1> QED
  BY <1>6, <1>8 DEF ReplacedBy, ClosedBy, RejectedBy, O

\* so the tracker shows no attempt as open.
LEMMA NothingOpen ==
    ASSUME FulfilmentInvariant
    PROVE  NothingRemainsNothingOpen
<1> SUFFICES ASSUME Ordered - AllAccepted - AllClosed = 0, NEW a \in DOMAIN attempts
             PROVE  attempt_summary(a) \in {"ACCEPTED", "CLOSED_WITH_REJECTION", "REPLACEMENT_LINKED"}
  BY DEF NothingRemainsNothingOpen, remaining_quantity
<1> DEFINE q == attempts[a].quantity  p == AcceptedBy(a)  j == RejectedBy(a)
           r == ReplacedBy(a)  c == ClosedBy(a)
<1>1. q \in Nat /\ p \in Nat /\ j \in Nat /\ r \in Nat /\ c \in Nat /\ p + j = q /\ r + c = j
  BY EveryAttemptAnswered, EveryRejectionResolved, Fields DEF FulfilmentInvariant
<1>2. attempt_summary(a) =
         CASE p = q -> "ACCEPTED"
           [] p # q /\ j - c - r # 0 -> "REJECTED_AWAITING_RESOLUTION"
           [] j - c - r = 0 /\ c > 0 /\ c + p + r = q -> "CLOSED_WITH_REJECTION"
           [] OTHER -> IF r > 0 THEN "REPLACEMENT_LINKED" ELSE "OPEN"
  BY DEF attempt_summary
<1> HIDE DEF q, p, j, r, c
<1>3. j - c - r = 0 /\ c + p + r = q
  BY <1>1
<1>4. CASE p = q
  <2>1. c = 0
    BY <1>1, <1>4
  <2> QED
    BY <1>2, <1>3, <1>4, <2>1
<1>5. CASE p # q /\ c > 0
  BY <1>2, <1>3, <1>5
<1>6. CASE p # q /\ ~ (c > 0)
  <2>1. r > 0
    BY <1>1, <1>6
  <2> QED
    BY <1>2, <1>3, <1>6, <2>1
<1> QED
  BY <1>4, <1>5, <1>6

\* No order line is overfulfilled.
LEMMA LinesKept ==
    ASSUME FulfilmentInvariant
    PROVE  OrderLineKept
BY LineKept DEF OrderLineKept

-----------------------------------------------------------------------------
(* How the tables grow.                                                    *)

\* A table with a row appended.
LEMMA AppendRow ==
    ASSUME NEW R, NEW t \in Seq(R), NEW row \in R
    PROVE  LET u == Append(t, row) IN
           /\ u \in Seq(R) /\ Len(t) \in Nat /\ Len(u) = Len(t) + 1
           /\ DOMAIN t = 1..Len(t) /\ DOMAIN u = 1..(Len(t) + 1)
           /\ DOMAIN u = DOMAIN t \cup {Len(t) + 1} /\ Len(t) + 1 \notin DOMAIN t
           /\ \A i \in DOMAIN t : u[i] = t[i]
           /\ u[Len(t) + 1] = row
OBVIOUS

\* A row more, under a name of its own.
Extended(t, u, n) ==
    /\ n \notin DOMAIN t /\ DOMAIN u = DOMAIN t \cup {n}
    /\ \A i \in DOMAIN t : u[i] = t[i]

\* The total of an extended table is the old one and the new row, if it is meant.
LEMMA TotalExtended ==
    ASSUME NEW t, NEW u, NEW n, IsTable(t), IsTable(u), Extended(t, u, n),
           NEW S, NEW T, T \subseteq DOMAIN u, S = T \cap DOMAIN t
    PROVE  total(u, T) = total(t, S) + (IF n \in T THEN u[n].quantity ELSE 0)
<1> DEFINE
  f == [i \in DOMAIN t |-> t[i].quantity]
  g == [i \in DOMAIN u |-> u[i].quantity]
<1>1. IsFiniteSet(DOMAIN t) /\ n \notin DOMAIN t
      /\ T \in SUBSET (DOMAIN t \cup {n}) /\ S \in SUBSET DOMAIN t /\ T \cap DOMAIN t = S
  BY DEF IsTable, Extended
<1>2. (\A i \in DOMAIN t : f[i] \in Int /\ g[i] = f[i]) /\ g[n] = u[n].quantity /\ g[n] \in Int
  BY DEF IsTable, Extended
<1> HIDE DEF f, g
<1>3. SumFunctionOnSet(g, T) = SumFunctionOnSet(f, S) + (IF n \in T THEN g[n] ELSE 0)
  BY <1>1, <1>2, SumExtended
<1> QED
  BY <1>2, <1>3 DEF total, f, g

\* The rows that belong to one row still fit when one more does.
LEMMA FitsExtended ==
    ASSUME NEW t, NEW u, NEW n, IsTable(t), IsTable(u), Extended(t, u, n),
           NEW S, NEW T, T \subseteq DOMAIN u, S = T \cap DOMAIN t, NEW bound \in Nat,
           total(t, S) <= bound, n \in T => total(t, S) + u[n].quantity <= bound
    PROVE  total(u, T) <= bound
<1>1. total(t, S) \in Nat
  BY TotalNat
<1>2. CASE n \in T
  BY <1>2, TotalExtended
<1>3. CASE n \notin T
  <2>1. total(u, T) = total(t, S) + 0
    BY <1>3, TotalExtended
  <2> QED
    BY <1>1, <2>1
<1> QED
  BY <1>2, <1>3

\* Totals over more rows are larger.
LEMMA TotalGrows ==
    ASSUME NEW t, NEW u, IsTable(t), IsTable(u), NEW S \in SUBSET DOMAIN t, NEW T \in SUBSET DOMAIN u,
           S \subseteq T, \A i \in S : u[i].quantity = t[i].quantity
    PROVE  total(t, S) <= total(u, T)
<1> DEFINE
  f == [i \in DOMAIN t |-> t[i].quantity]
  g == [i \in DOMAIN u |-> u[i].quantity]
<1>1. IsFiniteSet(S) /\ IsFiniteSet(T)
  BY TotalNat
<1>2. (\A i \in S : f[i] = g[i]) /\ \A i \in T : g[i] \in Nat
  BY DEF IsTable
<1> HIDE DEF f, g
<1>3. SumFunctionOnSet(f, S) = SumFunctionOnSet(g, S)
  BY <1>1, <1>2, SumSame
<1>4. SumFunctionOnSet(g, S) <= SumFunctionOnSet(g, T)
  BY <1>1, <1>2, SumWithin
<1> QED
  BY <1>3, <1>4 DEF total, f, g

\* The rows of goods stay; only the flags of deliveries change.
Grown ==
    /\ DOMAIN attempts \subseteq DOMAIN attempts' /\ \A a \in DOMAIN attempts : attempts'[a] = attempts[a]
    /\ DOMAIN purchases \subseteq DOMAIN purchases'
    /\ \A p \in DOMAIN purchases : purchases'[p] = purchases[p]
    /\ DOMAIN receipts \subseteq DOMAIN receipts' /\ \A r \in DOMAIN receipts : receipts'[r] = receipts[r]
    /\ DOMAIN deliveries \subseteq DOMAIN deliveries'
    /\ \A d \in DOMAIN deliveries : deliveries'[d].receipt = deliveries[d].receipt
                                    /\ deliveries'[d].quantity = deliveries[d].quantity
    /\ DOMAIN outcomes \subseteq DOMAIN outcomes' /\ \A o \in DOMAIN outcomes : outcomes'[o] = outcomes[o]
    /\ DOMAIN actions \subseteq DOMAIN actions' /\ \A x \in DOMAIN actions : actions'[x] = actions[x]

NewRowsBelong ==
    /\ \A a \in DOMAIN attempts' \ DOMAIN attempts :
          LET o == attempts'[a].replaces IN
          \/ o = 0 /\ attempts'[a].po = a
          \/ o # 0 /\ o \in DOMAIN outcomes /\ attempts'[a].po = PoOf(outcomes[o].delivery)
    /\ \A p \in DOMAIN purchases' \ DOMAIN purchases : purchases'[p].attempt \in DOMAIN attempts
    /\ \A r \in DOMAIN receipts' \ DOMAIN receipts : receipts'[r].purchase \in DOMAIN purchases
    /\ \A d \in DOMAIN deliveries' \ DOMAIN deliveries : deliveries'[d].receipt \in DOMAIN receipts
    /\ \A o \in DOMAIN outcomes' \ DOMAIN outcomes : outcomes'[o].delivery \in DOMAIN deliveries
    /\ \A x \in DOMAIN actions' \ DOMAIN actions : actions'[x].rejection \in DOMAIN outcomes

\* Rows keep their attempts and orders while tables grow.
LEMMA PathsStay ==
    ASSUME FulfilmentInvariant, Grown
    PROVE  /\ \A d \in DOMAIN deliveries :
                 AttemptOf(d)' = AttemptOf(d) /\ PoOf(d)' = PoOf(d)
           /\ Orders \subseteq Orders'
<1>1. ASSUME NEW d \in DOMAIN deliveries
      PROVE  AttemptOf(d)' = AttemptOf(d) /\ PoOf(d)' = PoOf(d)
  <2>1. /\ deliveries[d].receipt \in DOMAIN receipts
        /\ receipts[deliveries[d].receipt].purchase \in DOMAIN purchases
        /\ purchases[receipts[deliveries[d].receipt].purchase].attempt \in DOMAIN attempts
    BY DEF FulfilmentInvariant, RowsBelong
  <2> QED
    BY <2>1 DEF AttemptOf, PoOf, PurchaseOf, Grown
<1> QED
  BY <1>1 DEF Orders, Grown

\* Old rows still belong to theirs.
LEMMA RowsStillBelong ==
    ASSUME FulfilmentInvariant, Grown, NewRowsBelong,
           \A l \in DOMAIN invoices' : Pos(l)' \subseteq Orders',
           \A c \in DOMAIN credits' : credits'[c].line \in DOMAIN invoices',
           \A r \in DOMAIN recognitions' : recognitions'[r].line \in DOMAIN invoices'
    PROVE  RowsBelong'
<1> USE DEF FulfilmentInvariant
<1> DEFINE PoAfter(d) == attempts'[purchases'[receipts'[deliveries'[d].receipt].purchase].attempt].po
<1>0. \A d \in DOMAIN deliveries : PoAfter(d) = PoOf(d)
  <2> TAKE d \in DOMAIN deliveries
  <2>1. PoOf(d)' = PoAfter(d)
    BY DEF PoOf, AttemptOf, PurchaseOf
  <2> QED
    BY <2>1, PathsStay
<1> HIDE DEF PoAfter
<1>1. ASSUME NEW a \in DOMAIN attempts'
      PROVE  LET o == attempts'[a].replaces IN
             /\ attempts'[a].po \in Orders'
             /\ o = 0 => attempts'[a].po = a
             /\ o # 0 => o \in DOMAIN outcomes' /\ attempts'[a].po = PoAfter(outcomes'[o].delivery)
  <2> DEFINE o == attempts'[a].replaces
  <2>1. CASE a \in DOMAIN attempts
    <3>1. attempts'[a] = attempts[a]
      BY <2>1 DEF Grown
    <3>2. attempts[a].po \in Orders /\ (o = 0 => attempts[a].po = a)
          /\ (o # 0 => o \in DOMAIN outcomes /\ attempts[a].po = PoOf(outcomes[o].delivery))
      BY <2>1, <3>1 DEF RowsBelong
    <3>3. o # 0 => outcomes'[o] = outcomes[o] /\ o \in DOMAIN outcomes'
                   /\ outcomes[o].delivery \in DOMAIN deliveries
      BY <3>2, OutcomesAreOf DEF Grown
    <3> HIDE DEF o
    <3> QED
      BY <1>0, <3>1, <3>2, <3>3, PathsStay DEF o
  <2>2. CASE a \notin DOMAIN attempts /\ o = 0
    BY <2>2 DEF NewRowsBelong, Orders
  <2>3. CASE a \notin DOMAIN attempts /\ o # 0
    <3>1. o \in DOMAIN outcomes /\ attempts'[a].po = PoOf(outcomes[o].delivery)
      BY <2>3 DEF NewRowsBelong
    <3>2. outcomes'[o] = outcomes[o] /\ o \in DOMAIN outcomes'
          /\ outcomes[o].delivery \in DOMAIN deliveries /\ PoOf(outcomes[o].delivery) \in Orders
      BY <3>1, OutcomesAreOf DEF Grown
    <3> HIDE DEF o
    <3> QED
      BY <1>0, <2>3, <3>1, <3>2, PathsStay DEF o
  <2> QED
    BY <2>1, <2>2, <2>3
<1>2. \A p \in DOMAIN purchases' : purchases'[p].attempt \in DOMAIN attempts'
  BY DEF RowsBelong, Grown, NewRowsBelong
<1>3. \A r \in DOMAIN receipts' : receipts'[r].purchase \in DOMAIN purchases'
  BY DEF RowsBelong, Grown, NewRowsBelong
<1>4. \A d \in DOMAIN deliveries' : deliveries'[d].receipt \in DOMAIN receipts'
  BY DEF RowsBelong, Grown, NewRowsBelong
<1>5. \A o \in DOMAIN outcomes' : outcomes'[o].delivery \in DOMAIN deliveries'
  BY DEF RowsBelong, Grown, NewRowsBelong
<1>6. \A x \in DOMAIN actions' : actions'[x].rejection \in DOMAIN outcomes'
  BY DEF RowsBelong, Grown, NewRowsBelong
<1> QED
  BY <1>1, <1>2, <1>3, <1>4, <1>5, <1>6 DEF RowsBelong, PoOf, AttemptOf, PurchaseOf,
     PoAfter

-----------------------------------------------------------------------------
(* What stays as it is, and what only grows.                               *)

AllTables ==
    /\ IsTable(attempts) /\ IsTable(purchases) /\ IsTable(receipts) /\ IsTable(deliveries)
    /\ IsTable(actions) /\ IsTable(invoices) /\ IsTable(credits) /\ IsTable(recognitions)
    /\ IsFiniteSet(DOMAIN outcomes)
    /\ \A o \in DOMAIN outcomes : outcomes[o].accepted \in Nat /\ outcomes[o].rejected \in Nat

\* All tables of a typed state, now and after a step.
LEMMA TypedTables == TypeOK => AllTables
BY Tables, Fields DEF AllTables

LEMMA TypedTablesAfter == TypeOK' => AllTables'
BY TypedTables, PTL

\* Totals only depend on the quantities.
LEMMA TotalSame ==
    ASSUME NEW t, NEW u, DOMAIN u = DOMAIN t, \A i \in DOMAIN t : u[i].quantity = t[i].quantity, NEW S
    PROVE  total(u, S) = total(t, S)
<1>1. [i \in DOMAIN u |-> u[i].quantity] = [i \in DOMAIN t |-> t[i].quantity]
  OBVIOUS
<1> QED
  BY <1>1 DEF total

\* The larger and the smaller of two integers.
LEMMA MaxOfTwo ==
    ASSUME NEW a \in Int, NEW b \in Int
    PROVE  Max({a, b}) = IF a >= b THEN a ELSE b
<1>1. \E x \in {a, b} : \A y \in {a, b} : x >= y
  OBVIOUS
<1>2. Max({a, b}) \in {a, b} /\ \A y \in {a, b} : Max({a, b}) >= y
  BY <1>1 DEF Max
<1> QED
  BY <1>2

LEMMA MinOfTwo ==
    ASSUME NEW a \in Int, NEW b \in Int
    PROVE  Min({a, b}) = IF a <= b THEN a ELSE b
<1>1. \E x \in {a, b} : \A y \in {a, b} : x <= y
  OBVIOUS
<1>2. Min({a, b}) \in {a, b} /\ \A y \in {a, b} : Min({a, b}) <= y
  BY <1>1 DEF Min
<1> QED
  BY <1>2

\* Outcomes are for the same orders while tables grow.
LEMMA OutcomesStay ==
    ASSUME FulfilmentInvariant, Grown, NEW pos, NEW o \in DOMAIN outcomes
    PROVE  o \in OutcomesFor(pos) <=> o \in OutcomesFor(pos)'
<1>1. outcomes'[o] = outcomes[o] /\ outcomes[o].delivery \in DOMAIN deliveries /\ o \in DOMAIN outcomes'
  BY OutcomesAreOf DEF Grown
<1>2. PICK d \in DOMAIN deliveries : d = outcomes[o].delivery
  BY <1>1
<1>3. PoOf(d)' = PoOf(d)
  BY PathsStay
<1>4. attempts'[purchases'[receipts'[deliveries'[d].receipt].purchase].attempt].po = PoOf(d)
  BY <1>3 DEF PoOf, AttemptOf, PurchaseOf
<1>5. o \in OutcomesFor(pos) <=> PoOf(d) \in pos
  BY <1>2 DEF OutcomesFor
<1>6. o \in OutcomesFor(pos)' <=> PoOf(d) \in pos
  BY <1>1, <1>2, <1>4 DEF OutcomesFor, PoOf, AttemptOf, PurchaseOf
<1> QED
  BY <1>5, <1>6

\* What was accepted of order lines grows with them.
LEMMA AcceptedGrows ==
    ASSUME FulfilmentInvariant, TypeOK', Grown, NEW pos, NEW wider, pos \subseteq wider
    PROVE  AcceptedOf(pos) \in Nat /\ AcceptedOf(wider)' \in Nat /\ AcceptedOf(pos) <= AcceptedOf(wider)'
<1> DEFINE
  f == [o \in DOMAIN outcomes |-> outcomes[o].accepted]
  g == [o \in DOMAIN outcomes' |-> outcomes'[o].accepted]
  S == OutcomesFor(pos)
  T == OutcomesFor(wider)'
<1>1. AllTables /\ AllTables'
  BY TypedTables, TypedTablesAfter DEF FulfilmentInvariant
<1>2. S \subseteq DOMAIN outcomes /\ T \subseteq DOMAIN outcomes'
  BY DEF OutcomesFor
<1>3. S \subseteq T
  <2> SUFFICES ASSUME NEW o \in S PROVE o \in T
    OBVIOUS
  <2>1. o \in DOMAIN outcomes /\ o \in OutcomesFor(wider)
    BY DEF OutcomesFor
  <2> QED
    BY <2>1, OutcomesStay
<1>4. IsFiniteSet(S) /\ IsFiniteSet(T)
  <2>1. IsFiniteSet(DOMAIN outcomes) /\ IsFiniteSet(DOMAIN outcomes')
    BY <1>1 DEF AllTables
  <2> HIDE DEF S, T
  <2> QED
    BY <1>2, <2>1, FS_Subset
<1>5. (\A o \in S : f[o] = g[o] /\ f[o] \in Nat) /\ \A o \in T : g[o] \in Nat
  BY <1>1, <1>2 DEF AllTables, Grown
<1>6. SumFunctionOnSet(f, S) = SumFunctionOnSet(g, S) /\ SumFunctionOnSet(f, S) \in Nat
      /\ SumFunctionOnSet(g, T) \in Nat
  <2> HIDE DEF f, g, S, T
  <2> QED
    BY <1>4, <1>5, SumSame, SumNat
<1>7. SumFunctionOnSet(g, S) <= SumFunctionOnSet(g, T)
  <2> HIDE DEF f, g, S, T
  <2> QED
    BY <1>3, <1>4, <1>5, SumWithin
<1>8. AcceptedOf(pos) = SumFunctionOnSet(f, S)
  BY DEF AcceptedOf, Accepted
<1>9. AcceptedOf(wider)' = SumFunctionOnSet(g, T)
  BY DEF AcceptedOf, Accepted
<1> QED
  BY <1>6, <1>7, <1>8, <1>9

\* The ordered quantity grows.
LEMMA OrderedGrows ==
    ASSUME FulfilmentInvariant, TypeOK', Grown
    PROVE  Ordered \in Int /\ Ordered' \in Int /\ Ordered <= Ordered'
<1>1. AllTables /\ AllTables'
  BY TypedTables, TypedTablesAfter DEF FulfilmentInvariant
<1>2. Orders \in SUBSET DOMAIN attempts /\ Orders' \in SUBSET DOMAIN attempts' /\ Orders \subseteq Orders'
      /\ \A a \in Orders : attempts'[a].quantity = attempts[a].quantity
  BY PathsStay DEF Orders, Grown
<1>3. Ordered = total(attempts, Orders) /\ Ordered' = total(attempts', Orders')
  BY DEF Ordered, total
<1>4. IsTable(attempts) /\ IsTable(attempts')
  BY <1>1 DEF AllTables, IsTable
<1>5. total(attempts, Orders) \in Nat /\ total(attempts', Orders') \in Nat
  BY <1>2, <1>4, TotalNat
<1>6. total(attempts, Orders) <= total(attempts', Orders')
  BY <1>2, <1>4, TotalGrows
<1> QED
  BY <1>3, <1>5, <1>6

\* Nothing that happens to goods takes revenue back.
LEMMA RevenueKept ==
    ASSUME FulfilmentInvariant, TypeOK', Grown, UNCHANGED <<credits, recognitions>>,
           DOMAIN invoices' = DOMAIN invoices,
           \A l \in DOMAIN invoices : invoices'[l].quantity = invoices[l].quantity /\ Pos(l) \subseteq Pos(l)'
    PROVE  RevenueEarned'
<1> USE DEF FulfilmentInvariant
<1> DEFINE PosAfter(l) == {link.po : link \in invoices'[l].links}
<1>0. \A l \in DOMAIN invoices : Pos(l) \subseteq PosAfter(l)
  <2> TAKE l \in DOMAIN invoices
  <2>1. Pos(l)' = PosAfter(l)
    BY DEF Pos
  <2> QED
    BY <2>1
<1>1. ASSUME NEW pos \in SUBSET (Orders')
      PROVE  RecognizedWithin(pos)' <= AcceptedOf(pos)'
  <2> DEFINE
    before == pos \cap Orders
    S == {r \in DOMAIN recognitions : Pos(recognitions[r].line) \subseteq before}
    T == {r \in DOMAIN recognitions : PosAfter(recognitions[r].line) \subseteq pos}
  <2>1. RecognizedWithin(pos)' = total(recognitions, T)
    BY DEF RecognizedWithin, Pos, total
  <2>2. T \subseteq S
    <3> SUFFICES ASSUME NEW r \in T PROVE Pos(recognitions[r].line) \subseteq before
      OBVIOUS
    <3>1. recognitions[r].line \in DOMAIN invoices
      BY DEF RowsBelong
    <3>2. Pos(recognitions[r].line) \subseteq Orders
      BY <3>1 DEF RowsBelong
    <3> HIDE DEF PosAfter
    <3> QED
      BY <1>0, <3>1, <3>2
  <2>3. total(recognitions, S) = RecognizedWithin(before) /\ before \in SUBSET Orders
    BY DEF RecognizedWithin
  <2>4. T \in SUBSET DOMAIN recognitions /\ S \in SUBSET DOMAIN recognitions
    OBVIOUS
  <2> HIDE DEF S, T
  <2>5. total(recognitions, T) <= total(recognitions, S)
    BY <2>2, <2>4, Tables, TotalGrows
  <2>6. RecognizedWithin(before) <= AcceptedOf(before)
    BY <2>3 DEF RevenueEarned
  <2>7. AcceptedOf(before) \in Nat /\ AcceptedOf(pos)' \in Nat /\ AcceptedOf(before) <= AcceptedOf(pos)'
    BY AcceptedGrows
  <2>9. total(recognitions, T) \in Nat /\ total(recognitions, S) \in Nat
    BY <2>4, Tables, TotalNat
  <2> HIDE DEF before
  <2> QED
    BY <2>1, <2>3, <2>5, <2>6, <2>7, <2>9
<1>2. ASSUME NEW l \in DOMAIN invoices'
      PROVE  Cancelled(l)' + Recognized(l)' <= invoices'[l].quantity
  <2>1. Cancelled(l)' = Cancelled(l) /\ Recognized(l)' = Recognized(l)
    BY DEF Cancelled, Recognized, total
  <2> QED
    BY <2>1 DEF RevenueEarned
<1>3. total(invoices', DOMAIN invoices') - total(credits', DOMAIN credits') <= Max({ItemQuantity, Ordered'})
  <2>1. total(invoices', DOMAIN invoices') = total(invoices, DOMAIN invoices)
    BY TotalSame
  <2>2. total(invoices, DOMAIN invoices) \in Nat /\ total(credits, DOMAIN credits) \in Nat
    BY Tables, TotalNat
  <2>3. Ordered \in Int /\ Ordered' \in Int /\ Ordered <= Ordered'
    BY OrderedGrows
  <2>4. total(invoices, DOMAIN invoices) - total(credits, DOMAIN credits) <= Max({ItemQuantity, Ordered})
    BY DEF RevenueEarned
  <2> QED
    BY <2>1, <2>2, <2>3, <2>4, Bounds, MaxOfTwo
<1> QED
  BY <1>1, <1>2, <1>3 DEF RevenueEarned, total

\* A step on goods.
LEMMA GoodsStep ==
    ASSUME FulfilmentInvariant, TypeOK', Grown, NewRowsBelong,
           UNCHANGED <<invoices, credits, recognitions>>
    PROVE  RowsBelong' /\ RevenueEarned'
<1>1. \A l \in DOMAIN invoices : Pos(l)' = Pos(l)
  BY DEF Pos
<1>2. Orders \subseteq Orders'
  BY PathsStay
<1>3. RowsBelong'
  <2>1. \A l \in DOMAIN invoices' : Pos(l)' \subseteq Orders'
    BY <1>1, <1>2 DEF FulfilmentInvariant, RowsBelong
  <2> QED
    BY <2>1, RowsStillBelong DEF FulfilmentInvariant, RowsBelong
<1>4. RevenueEarned'
  BY <1>1, RevenueKept
<1> QED
  BY <1>3, <1>4

\* Steps that change neither of two tables keep what relates them.
LEMMA PurchasesFitSame ==
    ASSUME PurchasesFit, attempts' = attempts, purchases' = purchases
    PROVE  PurchasesFit'
BY DEF PurchasesFit, PurchasesOf, total

LEMMA ReceiptsFitSame ==
    ASSUME ReceiptsFit, purchases' = purchases, receipts' = receipts
    PROVE  ReceiptsFit'
BY DEF ReceiptsFit, ReceiptsOf, total

LEMMA DeliveriesFitSame ==
    ASSUME DeliveriesFit, receipts' = receipts, deliveries' = deliveries
    PROVE  DeliveriesFit'
BY DEF DeliveriesFit, DeliveriesOf, total

LEMMA OutcomesFitSame ==
    ASSUME OutcomesFit, deliveries' = deliveries, outcomes' = outcomes
    PROVE  OutcomesFit'
BY DEF OutcomesFit, OutcomesOf, Accepted, Rejected

LEMMA ActionsFitSame ==
    ASSUME ActionsFit, attempts' = attempts, outcomes' = outcomes, actions' = actions
    PROVE  ActionsFit'
BY DEF ActionsFit, Replaced, Acted, total

\* No rows have no quantity.
LEMMA NoRowsNoTotal == ASSUME NEW t PROVE total(t, {}) = 0
BY SumOfNone DEF total

-----------------------------------------------------------------------------
(* The steps on goods.                                                     *)

\* A purchase is within what its attempt still lacks (create_purchase).
LEMMA PurchaseKeeps ==
    ASSUME FulfilmentInvariant, NEW a \in DOMAIN attempts, NEW s \in Suppliers, NEW q \in Quantities,
           create_purchase(a, s, q)
    PROVE  FulfilmentInvariant'
<1> USE DEF FulfilmentInvariant
<1> DEFINE
  row == [attempt |-> a, supplier |-> s, quantity |-> q]
  new == Len(purchases) + 1
<1>1. row \in PurchaseLine /\ row.quantity = q /\ row.attempt = a /\ q \in Nat
  <2>1. a \in Nat \ {0}
    BY FiniteRows DEF TypeOK
  <2> QED
    BY <2>1, Bounds DEF PurchaseLine
<1>2. /\ purchases' = Append(purchases, row)
      /\ total(purchases, PurchasesOf(a)) + q <= attempts[a].quantity
      /\ UNCHANGED <<attempts, receipts, deliveries, outcomes, actions, invoices, credits, recognitions>>
  BY DEF create_purchase, bills
<1> HIDE DEF row
<1>3. purchases \in Seq(PurchaseLine)
  BY DEF TypeOK
<1>4. /\ purchases' \in Seq(PurchaseLine)
      /\ DOMAIN purchases' = DOMAIN purchases \cup {new} /\ new \notin DOMAIN purchases
      /\ \A i \in DOMAIN purchases : purchases'[i] = purchases[i]
      /\ purchases'[new] = row
  BY <1>1, <1>2, <1>3, AppendRow
<1> HIDE DEF new
<1>5. TypeOK'
  BY <1>2, <1>4 DEF TypeOK
<1>6. Grown
  BY <1>2, <1>4 DEF Grown
<1>7. NewRowsBelong
  BY <1>1, <1>2, <1>4 DEF NewRowsBelong
<1>8. RowsBelong' /\ RevenueEarned'
  BY <1>2, <1>5, <1>6, <1>7, GoodsStep
<1>9. PurchasesFit'
  <2> SUFFICES ASSUME NEW b \in DOMAIN attempts
               PROVE  total(purchases', PurchasesOf(b)') <= attempts[b].quantity
    BY <1>2 DEF PurchasesFit, total
  <2>1. /\ PurchasesOf(b) \in SUBSET DOMAIN purchases /\ PurchasesOf(b)' \subseteq DOMAIN purchases'
        /\ PurchasesOf(b) = PurchasesOf(b)' \cap DOMAIN purchases
        /\ new \in PurchasesOf(b)' <=> b = a
    BY <1>1, <1>4 DEF PurchasesOf
  <2>2. IsTable(purchases) /\ IsTable(purchases') /\ Extended(purchases, purchases', new)
    BY <1>4, <1>5, TypedTables, TypedTablesAfter DEF Extended, AllTables, IsTable
  <2>3. total(purchases, PurchasesOf(b)) <= attempts[b].quantity /\ attempts[b].quantity \in Nat
    BY Fields DEF PurchasesFit
  <2>4. new \in PurchasesOf(b)'
           => total(purchases,
           PurchasesOf(b)) + purchases'[new].quantity <= attempts[b].quantity
    BY <1>1, <1>2, <1>4, <2>1
  <2> QED
    BY <2>1, <2>2, <2>3, <2>4, FitsExtended
<1>10. ReceiptsFit'
  <2> SUFFICES ASSUME NEW p \in DOMAIN purchases'
               PROVE  total(receipts, ReceiptsOf(p)) <= purchases'[p].quantity
    BY <1>2 DEF ReceiptsFit, ReceiptsOf, total
  <2>1. CASE p \in DOMAIN purchases
    BY <1>4, <2>1 DEF ReceiptsFit
  <2>2. CASE p = new
    <3>1. ReceiptsOf(p) = {}
      BY <1>4, <2>2 DEF ReceiptsOf, RowsBelong
    <3> QED
      BY <1>1, <1>4, <2>2, <3>1, NoRowsNoTotal
  <2> QED
    BY <1>4, <2>1, <2>2
<1> QED
  BY <1>2, <1>5, <1>8, <1>9, <1>10, DeliveriesFitSame, OutcomesFitSame, ActionsFitSame

\* A receipt is within what its purchase still lacks (create_receipt).
LEMMA ReceiptKeeps ==
    ASSUME FulfilmentInvariant, NEW p \in DOMAIN purchases, NEW q \in Quantities, create_receipt(p, q)
    PROVE  FulfilmentInvariant'
<1> USE DEF FulfilmentInvariant
<1> DEFINE
  row == [purchase |-> p, quantity |-> q]
  new == Len(receipts) + 1
<1>1. row \in ReceiptLine /\ row.quantity = q /\ row.purchase = p /\ q \in Nat
  <2>1. p \in Nat \ {0}
    BY FiniteRows DEF TypeOK
  <2> QED
    BY <2>1, Bounds DEF ReceiptLine
<1>2. /\ receipts' = Append(receipts, row)
      /\ total(receipts, ReceiptsOf(p)) + q <= purchases[p].quantity
      /\ UNCHANGED <<attempts, purchases, deliveries, outcomes, actions, invoices, credits, recognitions>>
  BY DEF create_receipt, bills
<1> HIDE DEF row
<1>3. receipts \in Seq(ReceiptLine)
  BY DEF TypeOK
<1>4. /\ receipts' \in Seq(ReceiptLine)
      /\ DOMAIN receipts' = DOMAIN receipts \cup {new} /\ new \notin DOMAIN receipts
      /\ \A i \in DOMAIN receipts : receipts'[i] = receipts[i]
      /\ receipts'[new] = row
  BY <1>1, <1>2, <1>3, AppendRow
<1> HIDE DEF new
<1>5. TypeOK'
  BY <1>2, <1>4 DEF TypeOK
<1>6. Grown
  BY <1>2, <1>4 DEF Grown
<1>7. NewRowsBelong
  BY <1>1, <1>2, <1>4 DEF NewRowsBelong
<1>8. RowsBelong' /\ RevenueEarned'
  BY <1>2, <1>5, <1>6, <1>7, GoodsStep
<1>9. ReceiptsFit'
  <2> SUFFICES ASSUME NEW b \in DOMAIN purchases
               PROVE  total(receipts', ReceiptsOf(b)') <= purchases[b].quantity
    BY <1>2 DEF ReceiptsFit, total
  <2>1. /\ ReceiptsOf(b) \in SUBSET DOMAIN receipts /\ ReceiptsOf(b)' \subseteq DOMAIN receipts'
        /\ ReceiptsOf(b) = ReceiptsOf(b)' \cap DOMAIN receipts
        /\ new \in ReceiptsOf(b)' <=> b = p
    BY <1>1, <1>4 DEF ReceiptsOf
  <2>2. IsTable(receipts) /\ IsTable(receipts') /\ Extended(receipts, receipts', new)
    BY <1>4, <1>5, TypedTables, TypedTablesAfter DEF Extended, AllTables, IsTable
  <2>3. total(receipts, ReceiptsOf(b)) <= purchases[b].quantity /\ purchases[b].quantity \in Nat
    BY Fields DEF ReceiptsFit
  <2>4. new \in ReceiptsOf(b)'
           => total(receipts,
           ReceiptsOf(b)) + receipts'[new].quantity <= purchases[b].quantity
    BY <1>1, <1>2, <1>4, <2>1
  <2> QED
    BY <2>1, <2>2, <2>3, <2>4, FitsExtended
<1>10. DeliveriesFit'
  <2> SUFFICES ASSUME NEW r \in DOMAIN receipts'
               PROVE  total(deliveries, DeliveriesOf(r)) <= receipts'[r].quantity
    BY <1>2 DEF DeliveriesFit, DeliveriesOf, total
  <2>1. CASE r \in DOMAIN receipts
    BY <1>4, <2>1 DEF DeliveriesFit
  <2>2. CASE r = new
    <3>1. DeliveriesOf(r) = {}
      BY <1>4, <2>2 DEF DeliveriesOf, RowsBelong
    <3> QED
      BY <1>1, <1>4, <2>2, <3>1, NoRowsNoTotal
  <2> QED
    BY <1>4, <2>1, <2>2
<1> QED
  BY <1>2, <1>5, <1>8, <1>9, <1>10, PurchasesFitSame, OutcomesFitSame, ActionsFitSame

\* A delivery is within what its receipt still has (create_delivery).
LEMMA DeliveryKeeps ==
    ASSUME FulfilmentInvariant, NEW r \in DOMAIN receipts, NEW q \in Quantities,
           NEW waybill \in Waybills, create_delivery(r, q, waybill)
    PROVE  FulfilmentInvariant'
<1> USE DEF FulfilmentInvariant
<1> DEFINE
  row == [receipt |-> r, quantity |-> q, waybill |-> waybill, dispatched |-> FALSE]
  new == Len(deliveries) + 1
<1>1. row \in DeliveryLine /\ row.quantity = q /\ row.receipt = r /\ q \in Nat
  <2>1. r \in Nat \ {0} /\ waybill \in BOOLEAN
    BY FiniteRows, FulfilmentAssumption DEF TypeOK, FulfilmentAssumption
  <2> QED
    BY <2>1, Bounds DEF DeliveryLine
<1>2. /\ deliveries' = Append(deliveries, row)
      /\ total(deliveries, DeliveriesOf(r)) + q <= receipts[r].quantity
      /\ UNCHANGED <<attempts, purchases, receipts, outcomes, actions, invoices, credits, recognitions>>
  BY DEF create_delivery, bills
<1> HIDE DEF row
<1>3. deliveries \in Seq(DeliveryLine)
  BY DEF TypeOK
<1>4. /\ deliveries' \in Seq(DeliveryLine)
      /\ DOMAIN deliveries' = DOMAIN deliveries \cup {new} /\ new \notin DOMAIN deliveries
      /\ \A i \in DOMAIN deliveries : deliveries'[i] = deliveries[i]
      /\ deliveries'[new] = row
  BY <1>1, <1>2, <1>3, AppendRow
<1> HIDE DEF new
<1>5. TypeOK'
  BY <1>2, <1>4 DEF TypeOK
<1>6. Grown
  BY <1>2, <1>4 DEF Grown
<1>7. NewRowsBelong
  BY <1>1, <1>2, <1>4 DEF NewRowsBelong
<1>8. RowsBelong' /\ RevenueEarned'
  BY <1>2, <1>5, <1>6, <1>7, GoodsStep
<1>9. DeliveriesFit'
  <2> SUFFICES ASSUME NEW b \in DOMAIN receipts
               PROVE  total(deliveries', DeliveriesOf(b)') <= receipts[b].quantity
    BY <1>2 DEF DeliveriesFit, total
  <2>1. /\ DeliveriesOf(b) \in SUBSET DOMAIN deliveries /\ DeliveriesOf(b)' \subseteq DOMAIN deliveries'
        /\ DeliveriesOf(b) = DeliveriesOf(b)' \cap DOMAIN deliveries
        /\ new \in DeliveriesOf(b)' <=> b = r
    BY <1>1, <1>4 DEF DeliveriesOf
  <2>2. IsTable(deliveries) /\ IsTable(deliveries') /\ Extended(deliveries, deliveries', new)
    BY <1>4, <1>5, TypedTables, TypedTablesAfter DEF Extended, AllTables, IsTable
  <2>3. total(deliveries, DeliveriesOf(b)) <= receipts[b].quantity /\ receipts[b].quantity \in Nat
    BY Fields DEF DeliveriesFit
  <2>4. new \in DeliveriesOf(b)'
           => total(deliveries,
           DeliveriesOf(b)) + deliveries'[new].quantity <= receipts[b].quantity
    BY <1>1, <1>2, <1>4, <2>1
  <2> QED
    BY <2>1, <2>2, <2>3, <2>4, FitsExtended
<1>10. OutcomesFit'
  <2> SUFFICES ASSUME NEW d \in DOMAIN deliveries'
               PROVE  Accepted(OutcomesOf(d)) + Rejected(OutcomesOf(d)) <= deliveries'[d].quantity
    BY <1>2 DEF OutcomesFit, OutcomesOf, Accepted, Rejected
  <2>1. CASE d \in DOMAIN deliveries
    BY <1>4, <2>1 DEF OutcomesFit
  <2>2. CASE d = new
    <3>1. OutcomesOf(d) = {}
      BY <1>4, <2>2 DEF OutcomesOf, RowsBelong
    <3>2. Accepted({}) = 0 /\ Rejected({}) = 0
      BY SumOfNone DEF Accepted, Rejected
    <3> QED
      BY <1>1, <1>4, <2>2, <3>1, <3>2
  <2> QED
    BY <1>4, <2>1, <2>2
<1> QED
  BY <1>2, <1>5, <1>8, <1>9, <1>10, PurchasesFitSame, ReceiptsFitSame, ActionsFitSame

\* A waybill or a dispatch changes a flag of a delivery.
LEMMA FlagKeeps ==
    ASSUME FulfilmentInvariant, NEW d \in DOMAIN deliveries, generate(d) \/ dispatch(d)
    PROVE  FulfilmentInvariant'
<1> USE DEF FulfilmentInvariant
<1>1. UNCHANGED <<attempts, purchases, receipts, outcomes, actions, invoices, credits, recognitions>>
  BY DEF generate, dispatch, bills
<1>2. /\ deliveries' \in Seq(DeliveryLine) /\ DOMAIN deliveries' = DOMAIN deliveries
      /\ \A e \in DOMAIN deliveries : deliveries'[e].receipt = deliveries[e].receipt
                                      /\ deliveries'[e].quantity = deliveries[e].quantity
  <2>1. deliveries \in Seq(DeliveryLine) /\ deliveries[d] \in DeliveryLine
    BY DEF TypeOK
  <2>2. PICK row \in DeliveryLine :
           /\ row.receipt = deliveries[d].receipt /\ row.quantity = deliveries[d].quantity
           /\ deliveries' = [deliveries EXCEPT ![d] = row]
    <3>1. CASE generate(d)
      <4>1. /\ [deliveries[d] EXCEPT !.waybill = TRUE] \in DeliveryLine
            /\ [deliveries[d] EXCEPT !.waybill = TRUE].receipt = deliveries[d].receipt
            /\ [deliveries[d] EXCEPT !.waybill = TRUE].quantity = deliveries[d].quantity
        BY <2>1 DEF DeliveryLine
      <4> QED
        BY <3>1, <4>1 DEF generate
    <3>2. CASE dispatch(d)
      <4>1. /\ [deliveries[d] EXCEPT !.dispatched = TRUE] \in DeliveryLine
            /\ [deliveries[d] EXCEPT !.dispatched = TRUE].receipt = deliveries[d].receipt
            /\ [deliveries[d] EXCEPT !.dispatched = TRUE].quantity = deliveries[d].quantity
        BY <2>1 DEF DeliveryLine
      <4> QED
        BY <3>2, <4>1 DEF dispatch
    <3> QED
      BY <3>1, <3>2
  <2> QED
    BY <2>1, <2>2
<1>3. TypeOK'
  BY <1>1, <1>2 DEF TypeOK
<1>4. Grown
  BY <1>1, <1>2 DEF Grown
<1>5. NewRowsBelong
  BY <1>1, <1>2 DEF NewRowsBelong
<1>6. RowsBelong' /\ RevenueEarned'
  BY <1>1, <1>3, <1>4, <1>5, GoodsStep
<1>7. DeliveriesFit'
  <2> SUFFICES ASSUME NEW r \in DOMAIN receipts
               PROVE  total(deliveries', DeliveriesOf(r)') <= receipts[r].quantity
    BY <1>1 DEF DeliveriesFit, total
  <2>1. DeliveriesOf(r)' = DeliveriesOf(r)
    BY <1>2 DEF DeliveriesOf
  <2>2. total(deliveries', DeliveriesOf(r)) = total(deliveries, DeliveriesOf(r))
    BY <1>2, TotalSame
  <2> QED
    BY <2>1, <2>2 DEF DeliveriesFit
<1>8. OutcomesFit'
  BY <1>1, <1>2 DEF OutcomesFit, OutcomesOf, Accepted, Rejected
<1> QED
  BY <1>1, <1>3, <1>6, <1>7, <1>8, PurchasesFitSame, ReceiptsFitSame, ActionsFitSame

AcceptedIn(t, S) == SumFunctionOnSet([o \in DOMAIN t |-> t[o].accepted], S)
RejectedIn(t, S) == SumFunctionOnSet([o \in DOMAIN t |-> t[o].rejected], S)

\* Accepted and rejected quantities of an extended table.
LEMMA AnsweredExtended ==
    ASSUME NEW t, NEW u, NEW n, IsFiniteSet(DOMAIN t), Extended(t, u, n),
           \A o \in DOMAIN u : u[o].accepted \in Nat /\ u[o].rejected \in Nat,
           NEW S, NEW T, T \subseteq DOMAIN u, S = T \cap DOMAIN t
    PROVE  /\ AcceptedIn(u, T) = AcceptedIn(t, S) + (IF n \in T THEN u[n].accepted ELSE 0)
           /\ RejectedIn(u, T) = RejectedIn(t, S) + (IF n \in T THEN u[n].rejected ELSE 0)
           /\ AcceptedIn(t, S) \in Nat /\ RejectedIn(t, S) \in Nat
<1> DEFINE
  f == [o \in DOMAIN t |-> t[o].accepted]
  g == [o \in DOMAIN u |-> u[o].accepted]
  h == [o \in DOMAIN t |-> t[o].rejected]
  k == [o \in DOMAIN u |-> u[o].rejected]
  D == DOMAIN t
<1>1. /\ IsFiniteSet(D) /\ n \notin D /\ S \in SUBSET D /\ T \in SUBSET (D \cup {n}) /\ T \cap D = S
      /\ \A i \in D : f[i] \in Nat /\ h[i] \in Nat /\ g[i] = f[i] /\ k[i] = h[i]
      /\ g[n] = u[n].accepted /\ k[n] = u[n].rejected /\ g[n] \in Int /\ k[n] \in Int
  BY DEF Extended
<1> HIDE DEF f, g, h, k, D
<1>2. SumFunctionOnSet(g, T) = SumFunctionOnSet(f, S) + (IF n \in T THEN g[n] ELSE 0)
  BY <1>1, SumExtended
<1>3. SumFunctionOnSet(k, T) = SumFunctionOnSet(h, S) + (IF n \in T THEN k[n] ELSE 0)
  BY <1>1, SumExtended
<1>4. SumFunctionOnSet(f, S) \in Nat /\ SumFunctionOnSet(h, S) \in Nat
  BY <1>1, SumWithin
<1> QED
  BY <1>1, <1>2, <1>3, <1>4 DEF AcceptedIn, RejectedIn, f, g, h, k

\* An outcome answers a delivery once, in full (record_outcome).
LEMMA OutcomeKeeps ==
    ASSUME FulfilmentInvariant, NEW d \in DOMAIN deliveries,
           NEW accepted \in Quantities \cup {0}, NEW rejected \in Quantities \cup {0},
           record_outcome(d, accepted, rejected)
    PROVE  FulfilmentInvariant'
<1> USE DEF FulfilmentInvariant
<1> DEFINE
  row == [delivery |-> d, accepted |-> accepted, rejected |-> rejected]
  new == Len(outcomes) + 1
<1>1. /\ row \in OutcomeLine /\ row.delivery = d
      /\ row.accepted = accepted /\ row.rejected = rejected /\ accepted \in Nat /\ rejected \in Nat
  <2>1. d \in Nat \ {0}
    BY FiniteRows DEF TypeOK
  <2>2. accepted \in Nat /\ rejected \in Nat
    BY Bounds
  <2> QED
    BY <2>1, <2>2 DEF OutcomeLine
<1>2. /\ outcomes' = Append(outcomes, row)
      /\ Accepted(OutcomesOf(d)) + Rejected(OutcomesOf(d)) + accepted + rejected
            <= deliveries[d].quantity
      /\ UNCHANGED <<attempts, purchases, receipts, deliveries, actions, invoices, credits, recognitions>>
  BY DEF record_outcome, bills
<1> HIDE DEF row
<1>3. outcomes \in Seq(OutcomeLine)
  BY DEF TypeOK
<1>4. /\ outcomes' \in Seq(OutcomeLine)
      /\ DOMAIN outcomes' = DOMAIN outcomes \cup {new} /\ new \notin DOMAIN outcomes
      /\ \A i \in DOMAIN outcomes : outcomes'[i] = outcomes[i]
      /\ outcomes'[new] = row
  BY <1>1, <1>2, <1>3, AppendRow
<1>a. new # 0
  BY FiniteRows, <1>3
<1> HIDE DEF new
<1>5. TypeOK'
  BY <1>2, <1>4 DEF TypeOK
<1>6. Grown
  BY <1>2, <1>4 DEF Grown
<1>7. NewRowsBelong
  BY <1>1, <1>2, <1>4 DEF NewRowsBelong
<1>8. RowsBelong' /\ RevenueEarned'
  BY <1>2, <1>5, <1>6, <1>7, GoodsStep
<1>9. OutcomesFit'
  <2> SUFFICES ASSUME NEW b \in DOMAIN deliveries
               PROVE  AcceptedIn(outcomes', OutcomesOf(b)') + RejectedIn(outcomes', OutcomesOf(b)')
                         <= deliveries[b].quantity
    BY <1>2 DEF OutcomesFit, Accepted, Rejected, AcceptedIn, RejectedIn
  <2>1. /\ OutcomesOf(b)' \subseteq DOMAIN outcomes'
        /\ OutcomesOf(b) = OutcomesOf(b)' \cap DOMAIN outcomes
        /\ new \in OutcomesOf(b)' <=> b = d
    BY <1>1, <1>4 DEF OutcomesOf
  <2>2. /\ Extended(outcomes, outcomes', new) /\ IsFiniteSet(DOMAIN outcomes)
        /\ \A o \in DOMAIN outcomes' : outcomes'[o].accepted \in Nat /\ outcomes'[o].rejected \in Nat
    BY <1>4, <1>5, TypedTables, TypedTablesAfter DEF Extended, AllTables
  <2>3. AcceptedIn(outcomes, OutcomesOf(b)) + RejectedIn(outcomes, OutcomesOf(b))
           <= deliveries[b].quantity
    BY DEF OutcomesFit, AcceptedIn, RejectedIn, Accepted, Rejected
  <2>4. AcceptedIn(outcomes, OutcomesOf(d)) + RejectedIn(outcomes, OutcomesOf(d)) + accepted + rejected
           <= deliveries[d].quantity
    BY <1>2 DEF AcceptedIn, RejectedIn, Accepted, Rejected
  <2>5. /\ AcceptedIn(outcomes', OutcomesOf(b)') = AcceptedIn(outcomes, OutcomesOf(b))
               + (IF new \in OutcomesOf(b)' THEN outcomes'[new].accepted ELSE 0)
        /\ RejectedIn(outcomes', OutcomesOf(b)') = RejectedIn(outcomes, OutcomesOf(b))
               + (IF new \in OutcomesOf(b)' THEN outcomes'[new].rejected ELSE 0)
        /\ AcceptedIn(outcomes, OutcomesOf(b)) \in Nat /\ RejectedIn(outcomes, OutcomesOf(b)) \in Nat
    BY <2>1, <2>2, AnsweredExtended
  <2>6. CASE b = d
    <3>1. /\ AcceptedIn(outcomes', OutcomesOf(b)') = AcceptedIn(outcomes, OutcomesOf(b)) + accepted
          /\ RejectedIn(outcomes', OutcomesOf(b)') = RejectedIn(outcomes, OutcomesOf(b)) + rejected
      BY <1>1, <1>4, <2>1, <2>5, <2>6
    <3> DEFINE p == AcceptedIn(outcomes, OutcomesOf(b))
               j == RejectedIn(outcomes, OutcomesOf(b))
               q == deliveries[b].quantity
    <3>2. p \in Nat /\ j \in Nat /\ q \in Nat /\ p + j + accepted + rejected <= q
      BY <2>4, <2>5, <2>6, Fields
    <3> HIDE DEF p, j, q
    <3>3. (p + accepted) + (j + rejected) <= q
      BY <1>1, <3>2
    <3> QED
      BY <3>1, <3>3 DEF p, j, q
  <2>7. CASE b # d
    <3>1. /\ AcceptedIn(outcomes', OutcomesOf(b)') = AcceptedIn(outcomes, OutcomesOf(b)) + 0
          /\ RejectedIn(outcomes', OutcomesOf(b)') = RejectedIn(outcomes, OutcomesOf(b)) + 0
      BY <2>1, <2>5, <2>7
    <3> QED
      BY <2>3, <2>5, <3>1
  <2> QED
    BY <2>6, <2>7
<1>10. ActionsFit'
  <2> SUFFICES ASSUME NEW o \in DOMAIN outcomes'
               PROVE  Replaced(o) + Acted(o, {"CLOSED_REJECTED"}) <= outcomes'[o].rejected
    BY <1>2 DEF ActionsFit, Replaced, Acted, total
  <2>1. CASE o \in DOMAIN outcomes
    BY <1>4, <2>1 DEF ActionsFit
  <2>2. CASE o = new
    <3>1. {a \in DOMAIN attempts : attempts[a].replaces = o} = {}
      BY <1>4, <1>a, <2>2 DEF RowsBelong
    <3>2. {x \in DOMAIN actions : actions[x].rejection = o /\ actions[x].kind \in {"CLOSED_REJECTED"}} = {}
      BY <1>4, <2>2 DEF RowsBelong
    <3>3. Replaced(o) = 0 /\ Acted(o, {"CLOSED_REJECTED"}) = 0
      BY <3>1, <3>2, NoRowsNoTotal DEF Replaced, Acted
    <3> QED
      BY <1>1, <1>4, <2>2, <3>3
  <2> QED
    BY <1>4, <2>1, <2>2
<1> QED
  BY <1>2, <1>5, <1>8, <1>9, <1>10, PurchasesFitSame, ReceiptsFitSame, DeliveriesFitSame


\* What answers a rejection is a natural.
LEMMA UsedNat ==
    ASSUME TypeOK, NEW o
    PROVE  Replaced(o) \in Nat /\ \A kinds : Acted(o, kinds) \in Nat
<1>1. Replaced(o) \in Nat
  BY Tables, TotalNat DEF Replaced
<1>2. ASSUME NEW kinds PROVE Acted(o, kinds) \in Nat
  BY Tables, TotalNat DEF Acted
<1> QED
  BY <1>1, <1>2

\* What a new action adds to the rejection it answers.
LEMMA ActionAppended ==
    ASSUME TypeOK, TypeOK', NEW o, NEW kind, NEW q, NEW new,
           Extended(actions, actions', new),
           actions'[new] = [rejection |-> o, kind |-> kind, quantity |-> q], NEW b
    PROVE  Acted(b, {"CLOSED_REJECTED"})'
              = Acted(b,
              {"CLOSED_REJECTED"}) + (IF b = o /\ kind = "CLOSED_REJECTED" THEN q ELSE 0)
<1> DEFINE
  S == {x \in DOMAIN actions : actions[x].rejection = b /\ actions[x].kind \in {"CLOSED_REJECTED"}}
  T == {x \in DOMAIN actions' : actions'[x].rejection = b /\ actions'[x].kind \in {"CLOSED_REJECTED"}}
<1>1. /\ T \subseteq DOMAIN actions' /\ S = T \cap DOMAIN actions
      /\ new \in T <=> b = o /\ kind = "CLOSED_REJECTED"
      /\ actions'[new].quantity = q
  BY DEF Extended
<1>2. IsTable(actions) /\ IsTable(actions')
  BY TypedTables, TypedTablesAfter DEF AllTables
<1>3. total(actions', T) = total(actions, S) + (IF new \in T THEN actions'[new].quantity ELSE 0)
  <2> HIDE DEF S, T
  <2> QED
    BY <1>1, <1>2, TotalExtended
<1>4. total(actions', T) = total(actions, S) + (IF b = o /\ kind = "CLOSED_REJECTED" THEN q ELSE 0)
  <2> HIDE DEF S, T
  <2> QED
    BY <1>1, <1>3
<1>5. /\ Acted(b, {"CLOSED_REJECTED"})' = total(actions', T)
      /\ Acted(b, {"CLOSED_REJECTED"}) = total(actions, S)
  BY DEF Acted, total
<1> HIDE DEF S, T
<1> QED
  BY <1>4, <1>5

\* An action is within what its rejection still lacks (resolve_rejection).
LEMMA ResolveKeeps ==
    ASSUME FulfilmentInvariant, NEW o \in DOMAIN outcomes, NEW kind \in Kinds, NEW q \in Quantities,
           resolve_rejection(o, kind, q)
    PROVE  FulfilmentInvariant'
<1> USE DEF FulfilmentInvariant
<1> DEFINE
  row == [rejection |-> o, kind |-> kind, quantity |-> q]
  new == Len(actions) + 1
<1>1. row \in RejectionAction /\ row.rejection = o /\ q \in Nat
  <2>1. o \in Nat \ {0}
    BY FiniteRows DEF TypeOK
  <2> QED
    BY <2>1, Bounds DEF RejectionAction
<1>2. /\ actions' = Append(actions, row) /\ Allowed(o, kind, q)
      /\ UNCHANGED <<attempts, purchases, receipts, deliveries, outcomes, invoices, credits, recognitions>>
  BY DEF resolve_rejection, Resolve, bills
<1>3. actions \in Seq(RejectionAction)
  BY DEF TypeOK
<1>4. /\ actions' \in Seq(RejectionAction)
      /\ DOMAIN actions' = DOMAIN actions \cup {new} /\ new \notin DOMAIN actions
      /\ \A i \in DOMAIN actions : actions'[i] = actions[i]
      /\ actions'[new] = row
  <2> HIDE DEF row
  <2> QED
    BY <1>1, <1>2, <1>3, AppendRow
<1> HIDE DEF new
<1>5. TypeOK'
  BY <1>2, <1>4 DEF TypeOK
<1>6. Grown
  BY <1>2, <1>4 DEF Grown
<1>7. NewRowsBelong
  BY <1>1, <1>2, <1>4 DEF NewRowsBelong
<1>8. RowsBelong' /\ RevenueEarned'
  BY <1>2, <1>5, <1>6, <1>7, GoodsStep
<1>9. ActionsFit'
  <2> SUFFICES ASSUME NEW b \in DOMAIN outcomes
               PROVE  Replaced(b) + Acted(b, {"CLOSED_REJECTED"})' <= outcomes[b].rejected
    BY <1>2 DEF ActionsFit, Replaced, Acted, total
  <2>1. Acted(b, {"CLOSED_REJECTED"})'
           = Acted(b,
           {"CLOSED_REJECTED"}) + (IF b = o /\ kind = "CLOSED_REJECTED" THEN q ELSE 0)
    BY <1>4, <1>5, ActionAppended DEF Extended
  <2>2. Replaced(b) \in Nat /\ Acted(b, {"CLOSED_REJECTED"}) \in Nat /\ outcomes[b].rejected \in Nat
    BY UsedNat, Fields
  <2>3. CASE b = o /\ kind = "CLOSED_REJECTED"
    <3>1. Replaced(o) + Acted(o, {"CLOSED_REJECTED"}) + q <= outcomes[o].rejected
      BY <1>2, <2>3 DEF Allowed
    <3> QED
      BY <1>1, <2>1, <2>2, <2>3, <3>1
  <2>4. CASE ~(b = o /\ kind = "CLOSED_REJECTED")
    BY <2>1, <2>2, <2>4 DEF ActionsFit
  <2> QED
    BY <2>3, <2>4
<1> QED
  BY <1>2, <1>5, <1>8, <1>9, PurchasesFitSame, ReceiptsFitSame, DeliveriesFitSame,
     OutcomesFitSame

\* A new attempt has no purchases yet.
LEMMA AttemptAppended ==
    ASSUME FulfilmentInvariant, TypeOK', NEW new, Extended(attempts, attempts', new),
           purchases' = purchases
    PROVE  PurchasesFit'
<1> USE DEF FulfilmentInvariant
<1> SUFFICES ASSUME NEW a \in DOMAIN attempts'
             PROVE  total(purchases, PurchasesOf(a)) <= attempts'[a].quantity
  BY DEF PurchasesFit, PurchasesOf, total
<1>1. CASE a \in DOMAIN attempts
  BY <1>1 DEF Extended, PurchasesFit
<1>2. CASE a = new
  <2>1. PurchasesOf(a) = {}
    BY <1>2 DEF PurchasesOf, RowsBelong, Extended
  <2>2. attempts'[a].quantity \in Nat
    BY TypedTablesAfter DEF AllTables, IsTable
  <2> QED
    BY <2>1, <2>2, NoRowsNoTotal
<1> QED
  BY <1>1, <1>2 DEF Extended

\* What a new attempt adds to the rejection it replaces.
LEMMA ReplacedAppended ==
    ASSUME TypeOK, TypeOK', NEW new, Extended(attempts, attempts', new), NEW b
    PROVE  Replaced(b)' = Replaced(b)
              + (IF attempts'[new].replaces = b THEN attempts'[new].quantity ELSE 0)
<1> DEFINE
  S == {a \in DOMAIN attempts : attempts[a].replaces = b}
  T == {a \in DOMAIN attempts' : attempts'[a].replaces = b}
<1>1. /\ T \subseteq DOMAIN attempts' /\ S = T \cap DOMAIN attempts
      /\ new \in T <=> attempts'[new].replaces = b
  BY DEF Extended
<1>2. IsTable(attempts) /\ IsTable(attempts')
  BY TypedTables, TypedTablesAfter DEF AllTables
<1>3. total(attempts', T) = total(attempts, S) + (IF new \in T THEN attempts'[new].quantity ELSE 0)
  <2> HIDE DEF S, T
  <2> QED
    BY <1>1, <1>2, TotalExtended
<1>4. total(attempts', T) = total(attempts, S)
         + (IF attempts'[new].replaces = b THEN attempts'[new].quantity ELSE 0)
  <2> HIDE DEF S, T
  <2> QED
    BY <1>1, <1>3
<1>5. Replaced(b)' = total(attempts', T) /\ Replaced(b) = total(attempts, S)
  BY DEF Replaced, total
<1> HIDE DEF S, T
<1> QED
  BY <1>4, <1>5

\* A replacement is within what its rejection still lacks (resolve_rejection).
LEMMA ReopenKeeps ==
    ASSUME FulfilmentInvariant, NEW o \in DOMAIN outcomes, NEW kind \in Kinds, NEW q \in Quantities,
           reopen(o, kind, q)
    PROVE  FulfilmentInvariant'
<1> USE DEF FulfilmentInvariant
<1> DEFINE
  row == [rejection |-> o, kind |-> kind, quantity |-> q]
  new == Len(actions) + 1
  att == [po |-> PoOf(outcomes[o].delivery), quantity |-> q, replaces |-> o,
          strategy |-> IF kind = "SAME_SUPPLIER_REPLACEMENT" THEN "SAME_SUPPLIER"
                       ELSE "DIFFERENT_SUPPLIER"]
  next == Len(attempts) + 1
<1>0. o \in Nat \ {0} /\ PoOf(outcomes[o].delivery) \in Nat \ {0}
  <2>1. PoOf(outcomes[o].delivery) \in DOMAIN attempts
    BY OutcomesAreOf DEF Orders
  <2> QED
    BY <2>1, FiniteRows DEF TypeOK
<1>1. row \in RejectionAction /\ row.rejection = o /\ q \in Nat
  BY <1>0, Bounds DEF RejectionAction
<1>2. /\ actions' = Append(actions, row) /\ Allowed(o, kind, q) /\ kind \in Replacing
      /\ attempts' = Append(attempts, att)
      /\ UNCHANGED <<purchases, receipts, deliveries, outcomes, invoices, credits, recognitions>>
  BY DEF reopen, Resolve, bills
<1>3. actions \in Seq(RejectionAction) /\ attempts \in Seq(Attempt)
  BY DEF TypeOK
<1>b. /\ att \in Attempt /\ att.replaces = o /\ att.quantity = q
      /\ att.po = PoOf(outcomes[o].delivery)
  BY <1>0 DEF Attempt, Strategies
<1>4. /\ actions' \in Seq(RejectionAction)
      /\ DOMAIN actions' = DOMAIN actions \cup {new} /\ new \notin DOMAIN actions
      /\ \A i \in DOMAIN actions : actions'[i] = actions[i]
      /\ actions'[new] = row
  <2> HIDE DEF row
  <2> QED
    BY <1>1, <1>2, <1>3, AppendRow
<1>c. /\ attempts' \in Seq(Attempt)
      /\ DOMAIN attempts' = DOMAIN attempts \cup {next} /\ next \notin DOMAIN attempts
      /\ \A i \in DOMAIN attempts : attempts'[i] = attempts[i]
      /\ attempts'[next] = att
  <2> HIDE DEF att
  <2> QED
    BY <1>2, <1>3, <1>b, AppendRow
<1> HIDE DEF new, next, att
<1>5. TypeOK'
  BY <1>2, <1>4, <1>c DEF TypeOK
<1>6. Grown
  BY <1>2, <1>4, <1>c DEF Grown
<1>7. NewRowsBelong
  BY <1>0, <1>1, <1>2, <1>4, <1>b, <1>c DEF NewRowsBelong
<1>8. RowsBelong' /\ RevenueEarned'
  BY <1>2, <1>5, <1>6, <1>7, GoodsStep
<1>9. PurchasesFit'
  BY <1>2, <1>5, <1>c, AttemptAppended DEF Extended
<1>10. ActionsFit'
  <2> SUFFICES ASSUME NEW b \in DOMAIN outcomes
               PROVE  Replaced(b)' + Acted(b, {"CLOSED_REJECTED"})' <= outcomes[b].rejected
    BY <1>2 DEF ActionsFit
  <2>1. Acted(b, {"CLOSED_REJECTED"})'
           = Acted(b,
           {"CLOSED_REJECTED"}) + (IF b = o /\ kind = "CLOSED_REJECTED" THEN q ELSE 0)
    BY <1>4, <1>5, ActionAppended DEF Extended
  <2>2. Replaced(b)' = Replaced(b) + (IF attempts'[next].replaces = b THEN attempts'[next].quantity ELSE 0)
    BY <1>5, <1>c, ReplacedAppended DEF Extended
  <2>3. Replaced(b) \in Nat /\ Acted(b, {"CLOSED_REJECTED"}) \in Nat /\ outcomes[b].rejected \in Nat
    BY UsedNat, Fields
  <2>4. kind # "CLOSED_REJECTED"
    BY <1>2 DEF Replacing
  <2>5. Acted(b, {"CLOSED_REJECTED"})' = Acted(b, {"CLOSED_REJECTED"})
    BY <2>1, <2>3, <2>4
  <2>6. CASE b = o
    <3>1. Replaced(o) + Acted(o, {"CLOSED_REJECTED"}) + q <= outcomes[o].rejected
      BY <1>2 DEF Allowed
    <3>2. Replaced(b)' = Replaced(b) + q
      BY <1>b, <1>c, <2>2, <2>6
    <3> QED
      BY <1>1, <2>3, <2>5, <2>6, <3>1, <3>2
  <2>7. CASE b # o
    <3>1. Replaced(b)' = Replaced(b)
      BY <1>b, <1>c, <2>2, <2>3, <2>7
    <3> QED
      BY <2>5, <3>1 DEF ActionsFit
  <2> QED
    BY <2>6, <2>7
<1> QED
  BY <1>2, <1>5, <1>8, <1>9, <1>10, ReceiptsFitSame, DeliveriesFitSame, OutcomesFitSame


\* A new order starts with its own attempt; it may be linked to an invoice line that
\* has nothing recognized (create_po).
LEMMA CreatePoKeeps ==
    ASSUME FulfilmentInvariant, NEW q \in BillQuantities, NEW l \in DOMAIN invoices \cup {0},
           create_po(q, l)
    PROVE  FulfilmentInvariant'
<1> USE DEF FulfilmentInvariant
<1> DEFINE
  next == Len(attempts) + 1
  att == [po |-> next, quantity |-> q, replaces |-> 0, strategy |-> "ORIGINAL"]
  link == [po |-> next, quantity |-> q]
<1>0. next \in Nat \ {0} /\ 0 \notin DOMAIN invoices /\ 0 \notin DOMAIN outcomes /\ 0 \notin DOMAIN attempts
  BY FiniteRows DEF TypeOK
<1>1. /\ attempts' = Append(attempts, att)
      /\ invoices' = IF l = 0 THEN invoices
                     ELSE [invoices EXCEPT ![l].links = @ \cup {link}]
      /\ UNCHANGED <<purchases, receipts, deliveries, outcomes, actions, credits, recognitions>>
  BY DEF create_po
<1>2. attempts \in Seq(Attempt) /\ invoices \in Seq(InvoiceLine)
  BY DEF TypeOK
<1>3. att \in Attempt /\ att.replaces = 0 /\ att.po = next /\ link \in [po : Nat \ {0}, quantity : BillQuantities]
      /\ link.po = next
  BY <1>0 DEF Attempt, Strategies
<1>4. /\ attempts' \in Seq(Attempt)
      /\ DOMAIN attempts' = DOMAIN attempts \cup {next} /\ next \notin DOMAIN attempts
      /\ \A i \in DOMAIN attempts : attempts'[i] = attempts[i]
      /\ attempts'[next] = att
  <2> HIDE DEF att
  <2> QED
    BY <1>1, <1>2, <1>3, AppendRow
<1> HIDE DEF next, att, link
<1>5. /\ invoices' \in Seq(InvoiceLine) /\ DOMAIN invoices' = DOMAIN invoices
      /\ \A k \in DOMAIN invoices : /\ invoices'[k].quantity = invoices[k].quantity
                                    /\ invoices[k].links \subseteq invoices'[k].links
                                    /\ invoices'[k].links \subseteq invoices[k].links \cup {link}
  <2>1. CASE l = 0
    BY <1>1, <1>2, <2>1
  <2>2. CASE l # 0
    <3>1. invoices' = [invoices EXCEPT ![l] = [invoices[l] EXCEPT !.links = @ \cup {link}]]
      BY <1>1, <2>2
    <3>2. l \in DOMAIN invoices /\ invoices[l] \in InvoiceLine
      BY <2>2, <1>2, FiniteRows
    <3>3. /\ [invoices[l] EXCEPT !.links = @ \cup {link}] \in InvoiceLine
          /\ [invoices[l] EXCEPT !.links = @ \cup {link}].quantity = invoices[l].quantity
          /\ [invoices[l] EXCEPT !.links = @ \cup {link}].links = invoices[l].links \cup {link}
      BY <1>3, <3>2 DEF InvoiceLine
    <3>4. /\ \A k \in DOMAIN invoices : invoices'[k] =
                IF k = l THEN [invoices[l] EXCEPT !.links = @ \cup {link}] ELSE invoices[k]
          /\ DOMAIN invoices' = DOMAIN invoices
      BY <3>1
    <3>5. invoices' \in Seq(InvoiceLine)
      <4> DEFINE changed == [invoices[l] EXCEPT !.links = @ \cup {link}]
      <4>1. changed \in InvoiceLine /\ invoices' = [invoices EXCEPT ![l] = changed]
        BY <3>1, <3>3
      <4> HIDE DEF changed
      <4> QED
        BY <1>2, <3>2, <4>1
    <3> QED
      BY <3>3, <3>4, <3>5
  <2> QED
    BY <2>1, <2>2
<1>6. TypeOK'
  BY <1>1, <1>4, <1>5 DEF TypeOK
<1>7. Grown
  BY <1>1, <1>4 DEF Grown
<1>8. NewRowsBelong
  BY <1>1, <1>3, <1>4 DEF NewRowsBelong
<1>9. Orders' = Orders \cup {next}
  BY <1>3, <1>4 DEF Orders
<1>10. \A k \in DOMAIN invoices : Pos(k) \subseteq Pos(k)' /\ Pos(k)' \subseteq Pos(k) \cup {next}
  BY <1>3, <1>5 DEF Pos
<1>11. RowsBelong'
  <2>1. \A k \in DOMAIN invoices' : Pos(k)' \subseteq Orders'
    BY <1>5, <1>9, <1>10 DEF RowsBelong
  <2>2. /\ \A c \in DOMAIN credits' : credits'[c].line \in DOMAIN invoices'
        /\ \A r \in DOMAIN recognitions' : recognitions'[r].line \in DOMAIN invoices'
    BY <1>1, <1>5 DEF RowsBelong
  <2> QED
    BY <1>7, <1>8, <2>1, <2>2, RowsStillBelong
<1>12. RevenueEarned'
  BY <1>1, <1>5, <1>6, <1>7, <1>10, RevenueKept
<1>13. PurchasesFit'
  BY <1>1, <1>4, <1>6, AttemptAppended DEF Extended
<1>14. ActionsFit'
  <2> SUFFICES ASSUME NEW b \in DOMAIN outcomes
               PROVE  Replaced(b)' + Acted(b, {"CLOSED_REJECTED"}) <= outcomes[b].rejected
    BY <1>1 DEF ActionsFit, Acted, total
  <2>1. Replaced(b)' = Replaced(b)
      + (IF attempts'[next].replaces = b THEN attempts'[next].quantity ELSE 0)
    BY <1>4, <1>6, ReplacedAppended DEF Extended
  <2>2. Replaced(b)' = Replaced(b)
    BY <1>0, <1>3, <1>4, <2>1, UsedNat
  <2> QED
    BY <2>2 DEF ActionsFit
<1> QED
  BY <1>1, <1>6, <1>11, <1>12, <1>13, <1>14, ReceiptsFitSame, DeliveriesFitSame,
     OutcomesFitSame

-----------------------------------------------------------------------------
(* The steps on bills.                                                     *)

\* A bill leaves the goods alone.
LEMMA BillStep ==
    ASSUME FulfilmentInvariant, UNCHANGED goods
    PROVE  /\ PurchasesFit' /\ ReceiptsFit' /\ DeliveriesFit' /\ OutcomesFit' /\ ActionsFit'
           /\ Ordered' = Ordered /\ Orders' = Orders
           /\ \A pos : AcceptedOf(pos)' = AcceptedOf(pos)
           /\ Grown /\ NewRowsBelong
<1> USE DEF FulfilmentInvariant, goods
<1>1. PurchasesFit' /\ ReceiptsFit' /\ DeliveriesFit' /\ OutcomesFit' /\ ActionsFit'
  BY PurchasesFitSame, ReceiptsFitSame, DeliveriesFitSame, OutcomesFitSame, ActionsFitSame
<1>2. Ordered' = Ordered /\ Orders' = Orders
  BY DEF Ordered, Orders, total
<1>3. ASSUME NEW pos PROVE AcceptedOf(pos)' = AcceptedOf(pos)
  BY DEF AcceptedOf, Accepted, OutcomesFor, PoOf, AttemptOf, PurchaseOf
<1>4. Grown /\ NewRowsBelong
  BY DEF Grown, NewRowsBelong
<1> QED
  BY <1>1, <1>2, <1>3, <1>4

\* A new invoice line has no credits and no recognitions (post).
LEMMA InvoiceKeeps ==
    ASSUME FulfilmentInvariant, NEW q \in BillQuantities, NEW po \in Orders \cup {0},
           post_invoice(q, po)
    PROVE  FulfilmentInvariant'
<1> USE DEF FulfilmentInvariant
<1> DEFINE
  row == [quantity |-> q, links |-> IF po = 0 THEN {} ELSE {[po |-> po, quantity |-> q]}]
  new == Len(invoices) + 1
<1>1. row \in InvoiceLine /\ row.quantity = q /\ q \in Nat /\ {link.po : link \in row.links} \subseteq Orders
  <2>1. po # 0 => po \in Nat \ {0} /\ po \in Orders
    BY FiniteRows DEF TypeOK, Orders
  <2> QED
    BY <2>1, Bounds DEF InvoiceLine
<1>2. /\ invoices' = Append(invoices, row)
      /\ q <= Capacity - total(invoices, DOMAIN invoices) + total(credits, DOMAIN credits)
      /\ UNCHANGED goods /\ UNCHANGED <<attempts, purchases, receipts, deliveries, outcomes, actions>>
      /\ credits' = credits /\ recognitions' = recognitions
  BY DEF post_invoice, goods
<1> HIDE DEF row
<1>3. invoices \in Seq(InvoiceLine)
  BY DEF TypeOK
<1>4. /\ invoices' \in Seq(InvoiceLine)
      /\ DOMAIN invoices' = DOMAIN invoices \cup {new} /\ new \notin DOMAIN invoices
      /\ \A i \in DOMAIN invoices : invoices'[i] = invoices[i]
      /\ invoices'[new] = row
  BY <1>1, <1>2, <1>3, AppendRow
<1> HIDE DEF new
<1>5. TypeOK'
  BY <1>2, <1>4 DEF TypeOK
<1>6. /\ PurchasesFit' /\ ReceiptsFit' /\ DeliveriesFit' /\ OutcomesFit' /\ ActionsFit'
      /\ Ordered' = Ordered /\ Orders' = Orders
      /\ \A pos : AcceptedOf(pos)' = AcceptedOf(pos)
      /\ Grown /\ NewRowsBelong
  BY <1>2, BillStep
<1>7. \A k \in DOMAIN invoices : Pos(k)' = Pos(k)
  BY <1>4 DEF Pos
<1>8. ASSUME NEW k \in DOMAIN invoices', k \notin DOMAIN invoices
      PROVE  Pos(k)' \subseteq Orders
  <2>1. Pos(k)' = {link.po : link \in invoices'[k].links}
    BY DEF Pos
  <2> QED
    BY <1>1, <1>4, <1>8, <2>1
<1>9. RowsBelong'
  <2>1. \A k \in DOMAIN invoices' : Pos(k)' \subseteq Orders'
    BY <1>4, <1>6, <1>7, <1>8 DEF RowsBelong
  <2>2. /\ \A c \in DOMAIN credits' : credits'[c].line \in DOMAIN invoices'
        /\ \A r \in DOMAIN recognitions' : recognitions'[r].line \in DOMAIN invoices'
    BY <1>2, <1>4 DEF RowsBelong
  <2> QED
    BY <1>6, <2>1, <2>2, RowsStillBelong
<1>10. ASSUME NEW pos \in SUBSET Orders'
       PROVE  RecognizedWithin(pos)' <= AcceptedOf(pos)'
  <2>2. RecognizedWithin(pos)' = RecognizedWithin(pos)
    <3>1. RecognizedWithin(pos)' =
            total(recognitions,
            {r \in DOMAIN recognitions : {link.po : link \in invoices'[recognitions[r].line].links} \subseteq pos})
      BY <1>2 DEF RecognizedWithin, Pos, total
    <3>2. \A r \in DOMAIN recognitions :
             {link.po : link \in invoices'[recognitions[r].line].links} = Pos(recognitions[r].line)
      BY <1>4 DEF RowsBelong, Pos
    <3> QED
      BY <3>1, <3>2 DEF RecognizedWithin
  <2> QED
    BY <1>6, <2>2 DEF RevenueEarned
<1>11. ASSUME NEW k \in DOMAIN invoices'
       PROVE  Cancelled(k)' + Recognized(k)' <= invoices'[k].quantity
  <2>1. Cancelled(k)' = Cancelled(k) /\ Recognized(k)' = Recognized(k)
    BY <1>2 DEF Cancelled, Recognized, total
  <2>2. CASE k \in DOMAIN invoices
    BY <1>4, <2>1, <2>2 DEF RevenueEarned
  <2>3. CASE k = new
    <3>1. {c \in DOMAIN credits : credits[c].line = k} = {} /\ {r \in DOMAIN recognitions : recognitions[r].line = k} = {}
      BY <1>4, <2>3 DEF RowsBelong
    <3>2. Cancelled(k) = 0 /\ Recognized(k) = 0
      BY <3>1, NoRowsNoTotal DEF Cancelled, Recognized
    <3> QED
      BY <1>1, <1>4, <2>1, <2>3, <3>2
  <2> QED
    BY <1>4, <2>2, <2>3
<1>12. total(invoices', DOMAIN invoices') - total(credits, DOMAIN credits) <= Max({ItemQuantity, Ordered})
  <2>1. IsTable(invoices) /\ IsTable(invoices') /\ IsTable(credits) /\ IsTable(attempts)
    BY <1>5, TypedTables, TypedTablesAfter DEF AllTables
  <2>2. total(invoices', DOMAIN invoices') = total(invoices, DOMAIN invoices) + q
    <3>1. total(invoices', DOMAIN invoices') = total(invoices, DOMAIN invoices)
             + (IF new \in DOMAIN invoices' THEN invoices'[new].quantity ELSE 0)
      <4> DEFINE S == DOMAIN invoices
                 T == DOMAIN invoices'
      <4>1. T \subseteq DOMAIN invoices' /\ S = T \cap DOMAIN invoices /\ Extended(invoices, invoices', new)
        BY <1>4 DEF Extended
      <4> HIDE DEF S, T
      <4>2. total(invoices', T) = total(invoices,
      S) + (IF new \in T THEN invoices'[new].quantity ELSE 0)
        BY <2>1, <4>1, TotalExtended
      <4> QED
        BY <4>2 DEF S, T
    <3> QED
      BY <1>1, <1>4, <3>1
  <2>3. total(invoices, DOMAIN invoices) \in Nat /\ total(credits, DOMAIN credits) \in Nat /\ Ordered \in Nat
    BY <2>1, TotalNat, Account
  <2>4. Capacity \in Nat /\ Capacity <= Max({ItemQuantity, Ordered})
    BY <2>3, Bounds, MaxOfTwo DEF Capacity
  <2>5. Max({ItemQuantity, Ordered}) \in Int
    BY <2>3, Bounds, MaxOfTwo
  <2> QED
    BY <1>1, <1>2, <2>2, <2>3, <2>4, <2>5
<1>13. RevenueEarned'
  <2>1. total(invoices, DOMAIN invoices)' - total(credits, DOMAIN credits)' <= Max({ItemQuantity, Ordered'})
    BY <1>2, <1>6, <1>12 DEF total
  <2> QED
    BY <1>10, <1>11, <2>1 DEF RevenueEarned
<1> QED
  BY <1>5, <1>6, <1>9, <1>13


\* What the orders of an invoice line have accepted and left open.
LEMMA AnswersNat ==
    ASSUME TypeOK, NEW pos
    PROVE  AcceptedOf(pos) \in Nat /\ Rejected(OutcomesFor(pos)) \in Nat /\ Unresolved(pos) \in Int
<1>1. \A O \in SUBSET DOMAIN outcomes : Accepted(O) \in Nat /\ Rejected(O) \in Nat
  <2> TAKE O \in SUBSET DOMAIN outcomes
  <2> DEFINE f == [o \in DOMAIN outcomes |-> outcomes[o].accepted]
             g == [o \in DOMAIN outcomes |-> outcomes[o].rejected]
             D == DOMAIN outcomes
  <2>1. IsFiniteSet(D) /\ O \in SUBSET D /\ \A o \in D : f[o] \in Nat /\ g[o] \in Nat
    BY TypedTables DEF AllTables
  <2>2. SumFunctionOnSet(f, O) \in Nat /\ SumFunctionOnSet(g, O) \in Nat
    <3> HIDE DEF f, g, D
    <3> QED
      BY <2>1, SumWithin
  <2> QED
    BY <2>2 DEF Accepted, Rejected
<1>2. OutcomesFor(pos) \in SUBSET DOMAIN outcomes
  BY DEF OutcomesFor
<1>3. AcceptedOf(pos) \in Nat /\ Rejected(OutcomesFor(pos)) \in Nat
  BY <1>1, <1>2 DEF AcceptedOf
<1>4. total(deliveries, {d \in DOMAIN deliveries : deliveries[d].dispatched /\ PoOf(d) \in pos}) \in Nat
  BY Tables, TotalNat
<1> QED
  BY <1>3, <1>4 DEF Unresolved

\* What is posted for an invoice line.
LEMMA BilledNat ==
    ASSUME TypeOK, NEW l
    PROVE  Cancelled(l) \in Nat /\ Recognized(l) \in Nat /\ Committed(l) \in Nat
<1>1. Cancelled(l) \in Nat
  BY Tables, TotalNat DEF Cancelled
<1>2. Recognized(l) \in Nat
  BY Tables, TotalNat DEF Recognized
<1>3. Committed(l) \in Nat
  BY Tables, TotalNat DEF Committed
<1> QED
  BY <1>1, <1>2, <1>3

\* The credits, or the recognitions, of a line.
Posted(t, l) == {i \in DOMAIN t : t[i].line = l}

\* What a new credit or recognition adds to its line.
LEMMA PostingAppended ==
    ASSUME NEW t, NEW u, NEW new, IsTable(t), IsTable(u), Extended(t, u, new),
           NEW l, NEW q \in Nat, u[new].line = l, u[new].quantity = q, NEW k
    PROVE  total(u, Posted(u, k)) = total(t, Posted(t, k)) + (IF k = l THEN q ELSE 0)
<1> DEFINE
  S == {i \in DOMAIN t : t[i].line = k}
  T == {i \in DOMAIN u : u[i].line = k}
<1>1. /\ T \subseteq DOMAIN u /\ S = T \cap DOMAIN t
      /\ new \in T <=> k = l
      /\ u[new].quantity = q
  BY DEF Extended
<1>2. total(u, T) = total(t, S) + (IF new \in T THEN u[new].quantity ELSE 0)
  <2> HIDE DEF S, T
  <2> QED
    BY <1>1, TotalExtended
<1> HIDE DEF S, T
<1>3. total(u, T) = total(t, S) + (IF k = l THEN q ELSE 0)
  BY <1>1, <1>2
<1> QED
  BY <1>3 DEF S, T, Posted

\* A credit leaves what is recognized within what is accepted (guard_credit, post).
LEMMA CreditKeeps ==
    ASSUME FulfilmentInvariant, NEW q \in BillQuantities, NEW l \in DOMAIN invoices, post_credit(l, q)
    PROVE  FulfilmentInvariant'
<1> USE DEF FulfilmentInvariant
<1> DEFINE
  row == [line |-> l, quantity |-> q]
  new == Len(credits) + 1
<1>1. row \in QuantityOfLine /\ row.quantity = q /\ row.line = l /\ q \in Nat
  <2>1. l \in Nat \ {0}
    BY FiniteRows DEF TypeOK
  <2> QED
    BY <2>1, Bounds DEF QuantityOfLine
<1>2. /\ credits' = Append(credits, row)
      /\ q <= guard_credit(l)
      /\ UNCHANGED goods /\ UNCHANGED <<attempts, purchases, receipts, deliveries, outcomes, actions>>
      /\ invoices' = invoices /\ recognitions' = recognitions
  BY DEF post_credit, goods
<1>3. credits \in Seq(QuantityOfLine)
  BY DEF TypeOK
<1>4. /\ credits' \in Seq(QuantityOfLine)
      /\ DOMAIN credits' = DOMAIN credits \cup {new} /\ new \notin DOMAIN credits
      /\ \A i \in DOMAIN credits : credits'[i] = credits[i]
      /\ credits'[new] = row
  <2> HIDE DEF row
  <2> QED
    BY <1>1, <1>2, <1>3, AppendRow
<1> HIDE DEF new
<1>5. TypeOK'
  BY <1>2, <1>4 DEF TypeOK
<1>6. /\ PurchasesFit' /\ ReceiptsFit' /\ DeliveriesFit' /\ OutcomesFit' /\ ActionsFit'
      /\ Ordered' = Ordered /\ Orders' = Orders
      /\ \A pos : AcceptedOf(pos)' = AcceptedOf(pos)
      /\ Grown /\ NewRowsBelong
  BY <1>2, BillStep
<1>7. RowsBelong'
  <2>1. \A k \in DOMAIN invoices' : Pos(k)' \subseteq Orders'
    BY <1>2, <1>6 DEF RowsBelong, Pos
  <2>2. /\ \A c \in DOMAIN credits' : credits'[c].line \in DOMAIN invoices'
        /\ \A r \in DOMAIN recognitions' : recognitions'[r].line \in DOMAIN invoices'
    BY <1>1, <1>2, <1>4 DEF RowsBelong
  <2> QED
    BY <1>6, <2>1, <2>2, RowsStillBelong
<1>8. ASSUME NEW pos \in SUBSET Orders'
      PROVE  RecognizedWithin(pos)' <= AcceptedOf(pos)'
  <2>1. RecognizedWithin(pos)' = RecognizedWithin(pos)
    BY <1>2 DEF RecognizedWithin, Pos, total
  <2> QED
    BY <1>6, <2>1 DEF RevenueEarned
<1>9. /\ IsTable(credits) /\ IsTable(credits') /\ IsTable(invoices) /\ Extended(credits, credits', new)
  BY <1>4, <1>5, TypedTables, TypedTablesAfter DEF AllTables, Extended
<1>10. ASSUME NEW k \in DOMAIN invoices
       PROVE  Cancelled(k)' + Recognized(k)' <= invoices[k].quantity
  <2>1. Recognized(k)' = Recognized(k)
    BY <1>2 DEF Recognized, total
  <2>2. Cancelled(k)' = Cancelled(k) + (IF k = l THEN q ELSE 0)
    <3>0. credits'[new].line = l /\ credits'[new].quantity = q
      BY <1>4
    <3>1. total(credits', Posted(credits', k))
             = total(credits, Posted(credits, k)) + (IF k = l THEN q ELSE 0)
      BY <1>1, <1>9, <3>0, PostingAppended
    <3> QED
      BY <3>1 DEF Cancelled, total, Posted
  <2>3. /\ Cancelled(k) \in Nat /\ Recognized(k) \in Nat /\ invoices[k].quantity \in Nat
        /\ Cancelled(k) + Recognized(k) <= invoices[k].quantity
    BY BilledNat, Fields DEF RevenueEarned
  <2>4. CASE k = l
    <3> DEFINE a == invoices[l].quantity - AcceptedOf(CreditPos(l)) - Unresolved(CreditPos(l))
                        - Cancelled(l)
               b == invoices[l].quantity - Recognized(l) - Cancelled(l)
    <3>1. a \in Int /\ b \in Int
      BY <2>3, <2>4, AnswersNat
    <3>2. q <= Min({a, b})
      BY <1>2 DEF guard_credit
    <3>3. q <= b
      <4> HIDE DEF a, b
      <4> QED
        BY <1>1, <3>1, <3>2, MinOfTwo
    <3> QED
      BY <1>1, <2>1, <2>2, <2>3, <2>4, <3>3
  <2>5. CASE k # l
    BY <2>1, <2>2, <2>3, <2>5
  <2> QED
    BY <2>4, <2>5
<1>11. total(invoices, DOMAIN invoices) - total(credits', DOMAIN credits') <= Max({ItemQuantity, Ordered})
  <2>1. total(credits, DOMAIN credits) <= total(credits', DOMAIN credits')
    <3>1. DOMAIN credits \in SUBSET DOMAIN credits /\ DOMAIN credits' \in SUBSET DOMAIN credits'
          /\ DOMAIN credits \subseteq DOMAIN credits'
          /\ \A i \in DOMAIN credits : credits'[i].quantity = credits[i].quantity
      BY <1>4
    <3> QED
      BY <1>9, <3>1, TotalGrows
  <2>2. /\ total(credits, DOMAIN credits) \in Nat /\ total(credits', DOMAIN credits') \in Nat
        /\ total(invoices, DOMAIN invoices) \in Nat /\ Ordered \in Nat
    BY <1>9, TotalNat, Account
  <2>3. total(invoices, DOMAIN invoices) - total(credits, DOMAIN credits) <= Max({ItemQuantity, Ordered})
    BY DEF RevenueEarned
  <2>4. Max({ItemQuantity, Ordered}) \in Int
    BY <2>2, Bounds, MaxOfTwo
  <2> QED
    BY <2>1, <2>2, <2>3, <2>4
<1>12. RevenueEarned'
  <2>1. total(invoices, DOMAIN invoices)' - total(credits, DOMAIN credits)' <= Max({ItemQuantity, Ordered'})
    BY <1>2, <1>6, <1>11 DEF total
  <2> QED
    BY <1>2, <1>8, <1>10, <2>1 DEF RevenueEarned
<1> QED
  BY <1>5, <1>6, <1>7, <1>12

\* What is accepted of two sets of order lines is accepted of one of them.
LEMMA AcceptedApart ==
    ASSUME FulfilmentInvariant, NEW pos, NEW apart, apart \subseteq pos
    PROVE  AcceptedOf(pos) = AcceptedOf(apart) + AcceptedOf(pos \ apart)
<1>1. /\ OutcomesFor(apart) \in SUBSET DOMAIN outcomes
      /\ OutcomesFor(pos \ apart) \in SUBSET DOMAIN outcomes
      /\ OutcomesFor(apart) \cap OutcomesFor(pos \ apart) = {}
      /\ OutcomesFor(apart) \cup OutcomesFor(pos \ apart) = OutcomesFor(pos)
  BY DEF OutcomesFor
<1>2. TypeOK
  BY DEF FulfilmentInvariant
<1> QED
  BY <1>1, <1>2, RejectedSplit DEF AcceptedOf

\* The step that a recognition of q on line l leaves room for: what lines within
\* pos have recognised is recognised by lines that share an order line with l, or
\* by lines within the rest.
LEMMA RoomForRecognition ==
    ASSUME FulfilmentInvariant, NEW l \in DOMAIN invoices, NEW q \in Nat,
           q <= AcceptedOf(Pos(l)) - Committed(l),
           NEW pos \in SUBSET Orders, Pos(l) \subseteq pos
    PROVE  RecognizedWithin(pos) + q <= AcceptedOf(pos)
<1> USE DEF FulfilmentInvariant
<1> DEFINE
  R == {r \in DOMAIN recognitions : Pos(recognitions[r].line) \subseteq pos}
  C == {r \in DOMAIN recognitions : Pos(recognitions[r].line) \cap Pos(l) # {}}
  W == {r \in DOMAIN recognitions : Pos(recognitions[r].line) \subseteq pos \ Pos(l)}
<1>1. RecognizedWithin(pos) = total(recognitions, R) /\ Committed(l) = total(recognitions, C)
      /\ RecognizedWithin(pos \ Pos(l)) = total(recognitions, W)
  BY DEF RecognizedWithin, Committed
<1>2. /\ R \in SUBSET DOMAIN recognitions /\ C \in SUBSET DOMAIN recognitions
      /\ W \in SUBSET DOMAIN recognitions /\ R \ W \subseteq C
  OBVIOUS
<1> HIDE DEF R, C, W
<1>3. /\ R \cap W \in SUBSET DOMAIN recognitions /\ R \ W \in SUBSET DOMAIN recognitions
      /\ (R \cap W) \cap (R \ W) = {} /\ (R \cap W) \cup (R \ W) = R
  BY <1>2
<1>4. IsTable(recognitions)
  BY Tables
<1>5. total(recognitions, R) = total(recognitions, R \cap W) + total(recognitions, R \ W)
  <2> DEFINE S == R \cap W
             T == R \ W
  <2>1. S \in SUBSET DOMAIN recognitions /\ T \in SUBSET DOMAIN recognitions /\ S \cap T = {} /\ S \cup T = R
    BY <1>3
  <2> HIDE DEF S, T
  <2>2. total(recognitions, R) = total(recognitions, S) + total(recognitions, T)
    BY <1>4, <2>1, TotalSplit
  <2> QED
    BY <2>2 DEF S, T
<1>6. /\ total(recognitions, R \ W) <= total(recognitions, C)
      /\ total(recognitions, R \cap W) <= total(recognitions, W)
  <2>1. total(recognitions, R \ W) <= total(recognitions, C)
    BY <1>2, <1>3, <1>4, TotalGrows
  <2>2. R \cap W \subseteq W
    OBVIOUS
  <2>3. total(recognitions, R \cap W) <= total(recognitions, W)
    BY <1>2, <1>3, <1>4, <2>2, TotalGrows
  <2> QED
    BY <2>1, <2>3
<1>7. RecognizedWithin(pos \ Pos(l)) <= AcceptedOf(pos \ Pos(l))
  BY DEF RevenueEarned
<1>8. AcceptedOf(pos) = AcceptedOf(Pos(l)) + AcceptedOf(pos \ Pos(l))
  BY AcceptedApart
<1>9. /\ AcceptedOf(pos) \in Nat /\ AcceptedOf(Pos(l)) \in Nat /\ AcceptedOf(pos \ Pos(l)) \in Nat
      /\ Committed(l) \in Nat
  BY AnswersNat, BilledNat
<1>10. /\ total(recognitions, R) \in Nat /\ total(recognitions, C) \in Nat
       /\ total(recognitions, W) \in Nat /\ total(recognitions, R \cap W) \in Nat
       /\ total(recognitions, R \ W) \in Nat
  BY <1>2, <1>3, <1>4, TotalNat
<1> DEFINE
  tr == total(recognitions, R)
  tc == total(recognitions, C)
  tw == total(recognitions, W)
  ti == total(recognitions, R \cap W)
  td == total(recognitions, R \ W)
  aa == AcceptedOf(pos)
  ap == AcceptedOf(Pos(l))
  ar == AcceptedOf(pos \ Pos(l))
<1>11. /\ tr \in Nat /\ tc \in Nat /\ tw \in Nat /\ ti \in Nat /\ td \in Nat
       /\ aa \in Nat /\ ap \in Nat /\ ar \in Nat
       /\ tr = ti + td /\ td <= tc /\ ti <= tw /\ tw <= ar /\ aa = ap + ar /\ q <= ap - tc
  BY <1>1, <1>5, <1>6, <1>7, <1>8, <1>9, <1>10
<1>12. tr = RecognizedWithin(pos)
  BY <1>1
<1> HIDE DEF tr, tc, tw, ti, td, aa, ap, ar
<1>13. tr + q <= aa
  BY <1>11
<1> QED
  BY <1>12, <1>13 DEF aa

\* A recognition is within what was accepted and not yet recognized, for its line
\* and for the lines that share its orders (recognize).
LEMMA RecognizeKeeps ==
    ASSUME FulfilmentInvariant, NEW q \in BillQuantities, NEW l \in DOMAIN invoices, recognize(l, q)
    PROVE  FulfilmentInvariant'
<1> USE DEF FulfilmentInvariant
<1> DEFINE
  row == [line |-> l, quantity |-> q]
  new == Len(recognitions) + 1
<1>1. row \in QuantityOfLine /\ row.quantity = q /\ row.line = l /\ q \in Nat
  <2>1. l \in Nat \ {0}
    BY FiniteRows DEF TypeOK
  <2> QED
    BY <2>1, Bounds DEF QuantityOfLine
<1>2. /\ recognitions' = Append(recognitions, row)
      /\ q <= AcceptedOf(Pos(l)) - Committed(l)
      /\ q <= invoices[l].quantity - Cancelled(l) - Recognized(l)
      /\ UNCHANGED goods /\ UNCHANGED <<attempts, purchases, receipts, deliveries, outcomes, actions>>
      /\ invoices' = invoices /\ credits' = credits
  BY DEF recognize, goods
<1>3. recognitions \in Seq(QuantityOfLine)
  BY DEF TypeOK
<1>4. /\ recognitions' \in Seq(QuantityOfLine)
      /\ DOMAIN recognitions' = DOMAIN recognitions \cup {new} /\ new \notin DOMAIN recognitions
      /\ \A i \in DOMAIN recognitions : recognitions'[i] = recognitions[i]
      /\ recognitions'[new] = row
  <2> HIDE DEF row
  <2> QED
    BY <1>1, <1>2, <1>3, AppendRow
<1> HIDE DEF new
<1>5. TypeOK'
  BY <1>2, <1>4 DEF TypeOK
<1>6. /\ PurchasesFit' /\ ReceiptsFit' /\ DeliveriesFit' /\ OutcomesFit' /\ ActionsFit'
      /\ Ordered' = Ordered /\ Orders' = Orders
      /\ \A pos : AcceptedOf(pos)' = AcceptedOf(pos)
      /\ Grown /\ NewRowsBelong
  BY <1>2, BillStep
<1>7. RowsBelong'
  <2>1. \A k \in DOMAIN invoices' : Pos(k)' \subseteq Orders'
    BY <1>2, <1>6 DEF RowsBelong, Pos
  <2>2. /\ \A c \in DOMAIN credits' : credits'[c].line \in DOMAIN invoices'
        /\ \A r \in DOMAIN recognitions' : recognitions'[r].line \in DOMAIN invoices'
    BY <1>1, <1>2, <1>4 DEF RowsBelong
  <2> QED
    BY <1>6, <2>1, <2>2, RowsStillBelong
<1>8. /\ IsTable(recognitions) /\ IsTable(recognitions')
      /\ Extended(recognitions, recognitions', new)
  BY <1>4, <1>5, TypedTables, TypedTablesAfter DEF AllTables, Extended
<1>9. ASSUME NEW pos \in SUBSET Orders'
      PROVE  RecognizedWithin(pos)' <= AcceptedOf(pos)'
  <2> DEFINE
    S == {r \in DOMAIN recognitions : Pos(recognitions[r].line) \subseteq pos}
    T == {r \in DOMAIN recognitions' : Pos(recognitions'[r].line) \subseteq pos}
  <2>1. RecognizedWithin(pos)' = total(recognitions', T) /\ RecognizedWithin(pos) = total(recognitions, S)
    BY <1>2 DEF RecognizedWithin, Pos, total
  <2>2. /\ T \subseteq DOMAIN recognitions' /\ S = T \cap DOMAIN recognitions
        /\ new \in T <=> Pos(l) \subseteq pos
        /\ recognitions'[new].quantity = q
    BY <1>1, <1>4
  <2> HIDE DEF S, T
  <2>3. total(recognitions', T)
           = total(recognitions,
           S) + (IF new \in T THEN recognitions'[new].quantity ELSE 0)
    BY <1>8, <2>2, TotalExtended
  <2>4. /\ AcceptedOf(pos) \in Nat /\ RecognizedWithin(pos) \in Nat
        /\ RecognizedWithin(pos) <= AcceptedOf(pos)
    <3>1. RecognizedWithin(pos) \in Nat
      BY <1>8, <2>1, TotalNat DEF S
    <3> QED
      BY <1>6, <3>1, AnswersNat DEF RevenueEarned
  <2>5. CASE Pos(l) \subseteq pos
    <3>1. RecognizedWithin(pos)' = RecognizedWithin(pos) + q
      BY <2>1, <2>2, <2>3, <2>5
    <3>2. RecognizedWithin(pos) + q <= AcceptedOf(pos)
      BY <1>1, <1>2, <1>6, <2>5, RoomForRecognition
    <3> QED
      BY <1>6, <3>1, <3>2
  <2>6. CASE ~(Pos(l) \subseteq pos)
    <3>1. RecognizedWithin(pos)' = RecognizedWithin(pos)
      BY <2>1, <2>2, <2>3, <2>4, <2>6
    <3> QED
      BY <1>6, <2>4, <3>1
  <2> QED
    BY <2>5, <2>6
<1>10. ASSUME NEW k \in DOMAIN invoices
       PROVE  Cancelled(k)' + Recognized(k)' <= invoices[k].quantity
  <2>1. Cancelled(k)' = Cancelled(k)
    BY <1>2 DEF Cancelled, total
  <2>2. Recognized(k)' = Recognized(k) + (IF k = l THEN q ELSE 0)
    <3>0. recognitions'[new].line = l /\ recognitions'[new].quantity = q
      BY <1>4
    <3>1. total(recognitions', Posted(recognitions', k))
             = total(recognitions, Posted(recognitions, k)) + (IF k = l THEN q ELSE 0)
      BY <1>1, <1>8, <3>0, PostingAppended
    <3> QED
      BY <3>1 DEF Recognized, total, Posted
  <2>3. /\ Cancelled(k) \in Nat /\ Recognized(k) \in Nat /\ invoices[k].quantity \in Nat
        /\ Cancelled(k) + Recognized(k) <= invoices[k].quantity
    BY BilledNat, Fields DEF RevenueEarned
  <2>4. CASE k = l
    BY <1>1, <1>2, <2>1, <2>2, <2>3, <2>4
  <2>5. CASE k # l
    BY <2>1, <2>2, <2>3, <2>5
  <2> QED
    BY <2>4, <2>5
<1>11. RevenueEarned'
  <2>1. total(invoices, DOMAIN invoices)' - total(credits, DOMAIN credits)' <= Max({ItemQuantity, Ordered'})
    BY <1>2, <1>6 DEF total, RevenueEarned
  <2> QED
    BY <1>2, <1>9, <1>10, <2>1 DEF RevenueEarned
<1> QED
  BY <1>5, <1>6, <1>7, <1>11

-----------------------------------------------------------------------------
(* The invariant.                                                          *)

\* Every step keeps the invariant, and the empty tables satisfy it.
LEMMA FulfilmentStep == FulfilmentInvariant /\ [Next]_vars => FulfilmentInvariant'
<1> SUFFICES ASSUME FulfilmentInvariant, [Next]_vars PROVE FulfilmentInvariant'
  OBVIOUS
<1>1. ASSUME NEW q \in BillQuantities, NEW l \in DOMAIN invoices \cup {0}, create_po(q, l)
      PROVE  FulfilmentInvariant'
  BY <1>1, CreatePoKeeps
<1>2. ASSUME NEW q \in BillQuantities, NEW po \in Orders \cup {0}, post_invoice(q, po)
      PROVE  FulfilmentInvariant'
  BY <1>2, InvoiceKeeps
<1>3. ASSUME NEW q \in BillQuantities, NEW l \in DOMAIN invoices, post_credit(l, q)
      PROVE  FulfilmentInvariant'
  BY <1>3, CreditKeeps
<1>4. ASSUME NEW q \in BillQuantities, NEW l \in DOMAIN invoices, recognize(l, q)
      PROVE  FulfilmentInvariant'
  BY <1>4, RecognizeKeeps
<1>5. ASSUME NEW q \in Quantities, NEW a \in DOMAIN attempts, NEW s \in Suppliers, create_purchase(a, s, q)
      PROVE  FulfilmentInvariant'
  BY <1>5, PurchaseKeeps
<1>6. ASSUME NEW q \in Quantities, NEW p \in DOMAIN purchases, create_receipt(p, q)
      PROVE  FulfilmentInvariant'
  BY <1>6, ReceiptKeeps
<1>7. ASSUME NEW q \in Quantities, NEW r \in DOMAIN receipts, NEW waybill \in Waybills,
             create_delivery(r, q, waybill)
      PROVE  FulfilmentInvariant'
  BY <1>7, DeliveryKeeps
<1>8. ASSUME NEW q \in Quantities, NEW o \in DOMAIN outcomes, NEW kind \in Kinds,
             resolve_rejection(o, kind, q)
      PROVE  FulfilmentInvariant'
  BY <1>8, ResolveKeeps
<1>9. ASSUME NEW q \in Quantities, NEW o \in DOMAIN outcomes, NEW kind \in Kinds, reopen(o, kind, q)
      PROVE  FulfilmentInvariant'
  BY <1>9, ReopenKeeps
<1>10. ASSUME NEW d \in DOMAIN deliveries, generate(d) \/ dispatch(d)
       PROVE  FulfilmentInvariant'
  BY <1>10, FlagKeeps
<1>11. ASSUME NEW d \in DOMAIN deliveries, NEW accepted \in Quantities \cup {0},
              NEW rejected \in Quantities \cup {0}, record_outcome(d, accepted, rejected)
       PROVE  FulfilmentInvariant'
  BY <1>11, OutcomeKeeps
<1>12. CASE UNCHANGED vars
  <2>1. UNCHANGED <<attempts, purchases, receipts, deliveries, outcomes, actions,
                    invoices, credits, recognitions>>
    BY <1>12 DEF vars, goods, bills
  <2>2. UNCHANGED goods /\ TypeOK'
    BY <2>1 DEF goods, TypeOK, FulfilmentInvariant
  <2>3. /\ PurchasesFit' /\ ReceiptsFit' /\ DeliveriesFit' /\ OutcomesFit' /\ ActionsFit'
        /\ Grown /\ NewRowsBelong
    BY <2>2, BillStep
  <2> QED
    BY <2>1, <2>2, <2>3, GoodsStep DEF FulfilmentInvariant
<1> QED
  BY <1>1, <1>2, <1>3, <1>4, <1>5, <1>6, <1>7, <1>8, <1>9, <1>10, <1>11, <1>12 DEF Next

LEMMA EmptyTables == Init => FulfilmentInvariant
<1> SUFFICES ASSUME Init PROVE FulfilmentInvariant
  OBVIOUS
<1> USE DEF Init
<1>1. TypeOK
  BY DEF TypeOK
<1>2. RowsBelong /\ PurchasesFit /\ ReceiptsFit /\ DeliveriesFit /\ OutcomesFit /\ ActionsFit
  BY DEF RowsBelong, PurchasesFit, ReceiptsFit, DeliveriesFit, OutcomesFit, ActionsFit
<1>3. \A t : DOMAIN t = {} => total(t, DOMAIN t) = 0
  BY NoRowsNoTotal
<1>4. ASSUME NEW pos \in SUBSET Orders PROVE RecognizedWithin(pos) <= AcceptedOf(pos)
  <2>1. RecognizedWithin(pos) = total(recognitions, {})
    BY DEF RecognizedWithin
  <2> QED
    BY <1>1, <2>1, NoRowsNoTotal, AnswersNat
<1>5. total(invoices, DOMAIN invoices) = 0 /\ total(credits, DOMAIN credits) = 0
  BY <1>3
<1>6. Ordered = 0
  <2>1. Ordered = total(attempts, {})
    BY DEF Ordered, Orders
  <2> QED
    BY <2>1, NoRowsNoTotal
<1>7. Max({ItemQuantity, Ordered}) \in Nat
  BY <1>6, Bounds, MaxOfTwo
<1>8. RevenueEarned
  BY <1>4, <1>5, <1>7 DEF RevenueEarned
<1> QED
  BY <1>1, <1>2, <1>8 DEF FulfilmentInvariant

\* Every row of the procurement belongs to the rows it names, and the rows that
\* belong to one row stay within its quantity, whatever the quantities.
THEOREM FulfilmentInvariance == Spec => []FulfilmentInvariant
  BY EmptyTables, FulfilmentStep, PTL DEF Spec

\* No order line is overfulfilled, through any chain of replacements.
THEOREM OrderLinesKept == Spec => []OrderLineKept
<1>1. FulfilmentInvariant => OrderLineKept
  BY LinesKept
<1> QED
  BY <1>1, FulfilmentInvariance, PTL

\* When nothing remains of the orders, the tracker shows no open attempt.
THEOREM NothingIsLeftOpen == Spec => []NothingRemainsNothingOpen
<1>1. FulfilmentInvariant => NothingRemainsNothingOpen
  BY NothingOpen
<1> QED
  BY <1>1, FulfilmentInvariance, PTL

\* Revenue is recognised only for accepted goods, credits and recognitions of a
\* line exclude one another, and the item is not billed beyond its quantity.
THEOREM RevenueIsEarned == Spec => []RevenueEarned
<1>1. FulfilmentInvariant => RevenueEarned
  BY DEF FulfilmentInvariant
<1> QED
  BY <1>1, FulfilmentInvariance, PTL

-----------------------------------------------------------------------------
(* The rows implement the account of the quantities.                       *)

AllRecognized == total(recognitions, DOMAIN recognitions)

Balanced ==
    /\ Ordered \in Nat /\ Reopened \in Nat /\ AllAccepted \in Nat
    /\ AllRejected \in Nat /\ AllClosed \in Nat /\ AllRecognized \in Nat
    /\ AllAccepted + AllRejected <= Ordered + Reopened
    /\ Reopened + AllClosed <= AllRejected
    /\ AllRecognized <= AllAccepted

\* The quantities of the rows are those of an account that balances.
LEMMA RowsBalance == FulfilmentInvariant => Balanced
<1> SUFFICES ASSUME FulfilmentInvariant PROVE Balanced
  OBVIOUS
<1>1. {r \in DOMAIN recognitions : Pos(recognitions[r].line) \subseteq Orders} = DOMAIN recognitions
  BY DEF FulfilmentInvariant, RowsBelong
<1>2. RecognizedWithin(Orders) = AllRecognized
  BY <1>1 DEF RecognizedWithin, AllRecognized
<1>3. OutcomesFor(Orders) = DOMAIN outcomes
  BY OutcomesAreOf DEF OutcomesFor
<1>4. AcceptedOf(Orders) = AllAccepted
  BY <1>3 DEF AcceptedOf, AllAccepted
<1>5. RecognizedWithin(Orders) <= AcceptedOf(Orders)
  BY DEF FulfilmentInvariant, RevenueEarned
<1>6. AllRecognized \in Nat
  BY Tables, TotalNat DEF AllRecognized, FulfilmentInvariant
<1> QED
  BY <1>2, <1>4, <1>5, <1>6, Account DEF Balanced

LEMMA RowsBalanceAfter == FulfilmentInvariant' => Balanced'
BY RowsBalance, PTL

\* Quantities that only depend on tables left alone.
LEMMA SameAnswers ==
    ASSUME outcomes' = outcomes
    PROVE  AllAccepted' = AllAccepted /\ AllRejected' = AllRejected
BY DEF AllAccepted, AllRejected, Accepted, Rejected

\* Steps that leave the rows of a quantity alone leave the quantity.
LEMMA SameOrders ==
    ASSUME attempts' = attempts
    PROVE  Ordered' = Ordered /\ Reopened' = Reopened
BY DEF Ordered, Reopened, Orders, total

LEMMA SameClosures ==
    ASSUME actions' = actions
    PROVE  AllClosed' = AllClosed
BY DEF AllClosed, total

LEMMA SameRecognitions ==
    ASSUME recognitions' = recognitions
    PROVE  AllRecognized' = AllRecognized
BY DEF AllRecognized, total

\* A step that changes none of the quantities is a stutter of the account.
LEMMA BalanceSame ==
    ASSUME attempts' = attempts, outcomes' = outcomes, actions' = actions,
           recognitions' = recognitions
    PROVE  UNCHANGED Balance!quantities
BY SameAnswers, SameOrders, SameClosures, SameRecognitions DEF Balance!quantities, AllRecognized

\* One attempt more is one order more or one replacement more.
LEMMA AttemptGrows ==
    ASSUME TypeOK, TypeOK', NEW new, Extended(attempts, attempts', new)
    PROVE  /\ Ordered <= Ordered' /\ Reopened <= Reopened'
           /\ attempts'[new].replaces = 0 => Reopened' = Reopened
           /\ attempts'[new].replaces # 0 => Ordered' = Ordered
<1> DEFINE
  S == {a \in DOMAIN attempts : attempts[a].replaces = 0}
  T == {a \in DOMAIN attempts' : attempts'[a].replaces = 0}
  U == DOMAIN attempts \ S
  V == DOMAIN attempts' \ T
<1>1. /\ T \subseteq DOMAIN attempts' /\ S = T \cap DOMAIN attempts
      /\ V \subseteq DOMAIN attempts' /\ U = V \cap DOMAIN attempts
      /\ new \in T <=> attempts'[new].replaces = 0
      /\ new \in V <=> attempts'[new].replaces # 0
      /\ new \in DOMAIN attempts'
  BY DEF Extended
<1>2. IsTable(attempts) /\ IsTable(attempts')
  BY TypedTables, TypedTablesAfter DEF AllTables
<1>3. /\ Ordered = total(attempts, S) /\ Ordered' = total(attempts', T)
      /\ Reopened = total(attempts, U) /\ Reopened' = total(attempts', V)
  BY DEF Ordered, Reopened, Orders, total
<1> HIDE DEF S, T, U, V
<1>4. /\ total(attempts', T) = total(attempts, S) + (IF new \in T THEN attempts'[new].quantity ELSE 0)
      /\ total(attempts', V) = total(attempts, U) + (IF new \in V THEN attempts'[new].quantity ELSE 0)
  BY <1>1, <1>2, TotalExtended
<1>5. total(attempts, S) \in Nat /\ total(attempts, U) \in Nat /\ attempts'[new].quantity \in Nat
  BY <1>1, <1>2, TotalNat DEF IsTable
<1>6. CASE new \in T
  BY <1>1, <1>3, <1>4, <1>5, <1>6
<1>7. CASE new \in V
  BY <1>1, <1>3, <1>4, <1>5, <1>7
<1> QED
  BY <1>1, <1>6, <1>7

\* One action more closes a quantity or leaves the closures alone.
LEMMA ActionGrows ==
    ASSUME TypeOK, TypeOK', NEW new, Extended(actions, actions', new)
    PROVE  /\ AllClosed <= AllClosed'
           /\ actions'[new].kind # "CLOSED_REJECTED" => AllClosed' = AllClosed
<1> DEFINE
  S == {x \in DOMAIN actions : actions[x].kind = "CLOSED_REJECTED"}
  T == {x \in DOMAIN actions' : actions'[x].kind = "CLOSED_REJECTED"}
<1>1. /\ T \subseteq DOMAIN actions' /\ S = T \cap DOMAIN actions
      /\ new \in T <=> actions'[new].kind = "CLOSED_REJECTED"
      /\ new \in DOMAIN actions'
  BY DEF Extended
<1>2. IsTable(actions) /\ IsTable(actions')
  BY TypedTables, TypedTablesAfter DEF AllTables
<1>3. AllClosed = total(actions, S) /\ AllClosed' = total(actions', T)
  BY DEF AllClosed, total
<1> HIDE DEF S, T
<1>4. total(actions', T) = total(actions, S) + (IF new \in T THEN actions'[new].quantity ELSE 0)
  BY <1>1, <1>2, TotalExtended
<1>5. total(actions, S) \in Nat /\ actions'[new].quantity \in Nat
  BY <1>1, <1>2, TotalNat DEF IsTable
<1>6. CASE new \in T
  BY <1>1, <1>3, <1>4, <1>5, <1>6
<1>7. CASE new \notin T
  BY <1>1, <1>3, <1>4, <1>5, <1>7
<1> QED
  BY <1>6, <1>7

\* Every step is one of the account, or a stutter.
LEMMA BalanceStep ==
    ASSUME FulfilmentInvariant, FulfilmentInvariant', [Next]_vars
    PROVE  [Balance!Next]_(Balance!quantities)
<1>1. TypeOK /\ TypeOK' /\ Balanced /\ Balanced'
  BY RowsBalance, RowsBalanceAfter DEF FulfilmentInvariant
<1>2. ASSUME NEW R, NEW t \in Seq(R), NEW row PROVE Extended(t, Append(t, row), Len(t) + 1)
                                        /\ Append(t, row)[Len(t) + 1] = row
  BY DEF Extended
<1>3. ASSUME NEW q \in BillQuantities, NEW l \in DOMAIN invoices \cup {0}, create_po(q, l)
      PROVE  Balance!Next
  <2>1. PICK att : att.replaces = 0 /\ attempts' = Append(attempts, att)
    <3> DEFINE att == [po |-> Len(attempts) + 1, quantity |-> q, replaces |-> 0, strategy |-> "ORIGINAL"]
    <3>1. att.replaces = 0 /\ attempts' = Append(attempts, att)
      BY <1>3 DEF create_po
    <3> HIDE DEF att
    <3> QED
      BY <3>1
  <2>2. /\ Extended(attempts, attempts', Len(attempts) + 1)
        /\ attempts'[Len(attempts) + 1] = att
    BY <1>1, <1>2, <2>1 DEF TypeOK
  <2>3. Ordered <= Ordered' /\ Reopened' = Reopened
    BY <1>1, <2>1, <2>2, AttemptGrows
  <2>4. outcomes' = outcomes /\ actions' = actions /\ recognitions' = recognitions
    BY <1>3 DEF create_po
  <2>5. Balance!Order
    BY <1>1, <2>3, <2>4, SameAnswers, SameClosures, SameRecognitions
    DEF Balance!Order, Balanced, AllRecognized
  <2> QED
    BY <2>5 DEF Balance!Next
<1>4. ASSUME NEW o \in DOMAIN outcomes, NEW kind \in Kinds, NEW q \in Quantities, reopen(o, kind, q)
      PROVE  Balance!Next
  <2>0. o # 0
    <3>1. outcomes \in Seq(OutcomeLine)
      BY <1>1 DEF TypeOK
    <3> QED
      BY <3>1, FiniteRows
  <2>1. PICK att : att.replaces = o /\ attempts' = Append(attempts, att)
    <3> DEFINE att == [po |-> PoOf(outcomes[o].delivery), quantity |-> q, replaces |-> o,
            strategy |-> IF kind = "SAME_SUPPLIER_REPLACEMENT" THEN "SAME_SUPPLIER"
                         ELSE "DIFFERENT_SUPPLIER"]
    <3>1. att.replaces = o /\ attempts' = Append(attempts, att)
      BY <1>4 DEF reopen
    <3> HIDE DEF att
    <3> QED
      BY <3>1
  <2>2. /\ Extended(attempts, attempts', Len(attempts) + 1)
        /\ attempts'[Len(attempts) + 1] = att
    BY <1>1, <1>2, <2>1 DEF TypeOK
  <2>3. Reopened <= Reopened' /\ Ordered' = Ordered
    BY <1>1, <2>0, <2>1, <2>2, AttemptGrows
  <2>4. outcomes' = outcomes /\ recognitions' = recognitions
    BY <1>4 DEF reopen, Resolve, bills
  <2>5. PICK row : row.kind = kind /\ actions' = Append(actions, row)
    <3> DEFINE row == [rejection |-> o, kind |-> kind, quantity |-> q]
    <3>1. row.kind = kind /\ actions' = Append(actions, row)
      BY <1>4 DEF reopen, Resolve
    <3> HIDE DEF row
    <3> QED
      BY <3>1
  <2>6. /\ Extended(actions, actions', Len(actions) + 1)
        /\ actions'[Len(actions) + 1] = row
    BY <1>1, <1>2, <2>5 DEF TypeOK
  <2>7. kind # "CLOSED_REJECTED"
    BY <1>4 DEF reopen, Replacing
  <2>8. AllClosed' = AllClosed
    BY <1>1, <2>5, <2>6, <2>7, ActionGrows
  <2>9. Balance!Reopen
    BY <1>1, <2>3, <2>4, <2>8, SameAnswers, SameRecognitions
    DEF Balance!Reopen, Balanced, AllRecognized
  <2> QED
    BY <2>9 DEF Balance!Next
<1>5. ASSUME NEW o \in DOMAIN outcomes, NEW kind \in Kinds, NEW q \in Quantities,
             resolve_rejection(o, kind, q)
      PROVE  Balance!Next
  <2>1. /\ attempts' = attempts /\ outcomes' = outcomes /\ recognitions' = recognitions
    BY <1>5 DEF resolve_rejection, Resolve, bills
  <2>2. Extended(actions, actions', Len(actions) + 1)
    BY <1>1, <1>2, <1>5 DEF TypeOK, resolve_rejection, Resolve
  <2>3. AllClosed <= AllClosed'
    BY <1>1, <2>2, ActionGrows
  <2>4. Balance!Close
    BY <1>1, <2>1, <2>3, SameAnswers, SameOrders, SameRecognitions
    DEF Balance!Close, Balanced, AllRecognized
  <2> QED
    BY <2>4 DEF Balance!Next
<1>6. ASSUME NEW d \in DOMAIN deliveries, NEW accepted \in Quantities \cup {0},
             NEW rejected \in Quantities \cup {0}, record_outcome(d, accepted, rejected)
      PROVE  Balance!Next
  <2>1. attempts' = attempts /\ actions' = actions /\ recognitions' = recognitions
    BY <1>6 DEF record_outcome, bills
  <2>2. Extended(outcomes, outcomes', Len(outcomes) + 1)
    BY <1>1, <1>2, <1>6 DEF TypeOK, record_outcome
  <2>3. /\ IsFiniteSet(DOMAIN outcomes)
        /\ \A o \in DOMAIN outcomes' : outcomes'[o].accepted \in Nat /\ outcomes'[o].rejected \in Nat
    BY <1>1, TypedTables, TypedTablesAfter DEF AllTables
  <2>4. AllAccepted <= AllAccepted' /\ AllRejected <= AllRejected'
    <3> DEFINE new == Len(outcomes) + 1
               S == DOMAIN outcomes
               T == DOMAIN outcomes'
    <3>1. T \subseteq DOMAIN outcomes' /\ S = T \cap DOMAIN outcomes /\ new \in T
      BY <2>2 DEF Extended
    <3>2. AllAccepted = AcceptedIn(outcomes, S) /\ AllAccepted' = AcceptedIn(outcomes', T)
          /\ AllRejected = RejectedIn(outcomes, S) /\ AllRejected' = RejectedIn(outcomes', T)
      BY DEF AllAccepted, AllRejected, Accepted, Rejected, AcceptedIn, RejectedIn
    <3>3. outcomes'[new].accepted \in Nat /\ outcomes'[new].rejected \in Nat
      BY <2>3, <3>1
    <3> HIDE DEF new, S, T
    <3>4. /\ AcceptedIn(outcomes', T) = AcceptedIn(outcomes, S) + (IF new \in T THEN outcomes'[new].accepted ELSE 0)
          /\ RejectedIn(outcomes', T) = RejectedIn(outcomes, S) + (IF new \in T THEN outcomes'[new].rejected ELSE 0)
          /\ AcceptedIn(outcomes, S) \in Nat /\ RejectedIn(outcomes, S) \in Nat
      <4>1. Extended(outcomes, outcomes', new)
        BY <2>2 DEF new
      <4> QED
        BY <2>3, <3>1, <4>1, AnsweredExtended
    <3> QED
      BY <3>1, <3>2, <3>3, <3>4
  <2>5. Balance!Answer
    BY <1>1, <2>1, <2>4, SameOrders, SameClosures, SameRecognitions
    DEF Balance!Answer, Balanced, AllRecognized
  <2> QED
    BY <2>5 DEF Balance!Next
<1>7. ASSUME NEW q \in BillQuantities, NEW l \in DOMAIN invoices, recognize(l, q)
      PROVE  Balance!Next
  <2>1. attempts' = attempts /\ outcomes' = outcomes /\ actions' = actions
    BY <1>7 DEF recognize, goods
  <2>2. Extended(recognitions, recognitions', Len(recognitions) + 1)
    BY <1>1, <1>2, <1>7 DEF TypeOK, recognize
  <2>3. AllRecognized <= AllRecognized'
    <3>1. IsTable(recognitions) /\ IsTable(recognitions')
      BY <1>1, TypedTables, TypedTablesAfter DEF AllTables
    <3>2. /\ DOMAIN recognitions \in SUBSET DOMAIN recognitions
          /\ DOMAIN recognitions' \in SUBSET DOMAIN recognitions'
          /\ DOMAIN recognitions \subseteq DOMAIN recognitions'
          /\ \A i \in DOMAIN recognitions : recognitions'[i].quantity = recognitions[i].quantity
      BY <2>2 DEF Extended
    <3>3. total(recognitions, DOMAIN recognitions) <= total(recognitions', DOMAIN recognitions')
      BY <3>1, <3>2, TotalGrows
    <3> QED
      BY <3>3 DEF AllRecognized, total
  <2>4. Balance!Recognize
    BY <1>1, <2>1, <2>3, SameAnswers, SameOrders, SameClosures
    DEF Balance!Recognize, Balanced, AllRecognized
  <2> QED
    BY <2>4 DEF Balance!Next
<1>8. ASSUME NEW q \in BillQuantities, NEW po, post_invoice(q, po)
      PROVE  UNCHANGED Balance!quantities
  BY <1>8, BalanceSame DEF post_invoice, goods
<1>9. ASSUME NEW q \in BillQuantities, NEW l, post_credit(l, q)
      PROVE  UNCHANGED Balance!quantities
  BY <1>9, BalanceSame DEF post_credit, goods
<1>10. ASSUME NEW q, NEW a, NEW s, create_purchase(a, s, q)
       PROVE  UNCHANGED Balance!quantities
  BY <1>10, BalanceSame DEF create_purchase, bills
<1>11. ASSUME NEW q, NEW p, create_receipt(p, q)
       PROVE  UNCHANGED Balance!quantities
  BY <1>11, BalanceSame DEF create_receipt, bills
<1>12. ASSUME NEW q, NEW r, NEW waybill, create_delivery(r, q, waybill)
       PROVE  UNCHANGED Balance!quantities
  BY <1>12, BalanceSame DEF create_delivery, bills
<1>13. ASSUME NEW d, generate(d) \/ dispatch(d)
       PROVE  UNCHANGED Balance!quantities
  BY <1>13, BalanceSame DEF generate, dispatch, bills
<1>14. CASE UNCHANGED vars
  BY <1>14, BalanceSame DEF vars, goods, bills
<1> QED
  BY <1>3, <1>4, <1>5, <1>6, <1>7, <1>8, <1>9, <1>10, <1>11, <1>12, <1>13, <1>14 DEF Next

\* The rows implement the account of the quantities: each service orders, answers,
\* reopens, closes or recognises, or leaves the account alone.
THEOREM FulfilmentKeepsBalance == Spec => KeepsBalance
<1>1. Init => Balance!Init
  <2> SUFFICES ASSUME Init PROVE Balance!Init
    OBVIOUS
  <2> USE DEF Init
  <2>1. Ordered = 0 /\ Reopened = 0 /\ AllClosed = 0 /\ total(recognitions, DOMAIN recognitions) = 0
    <3>1. Orders = {} /\ DOMAIN attempts \ Orders = {} /\ DOMAIN recognitions = {}
          /\ {x \in DOMAIN actions : actions[x].kind = "CLOSED_REJECTED"} = {}
      BY DEF Orders
    <3> QED
      BY <3>1, NoRowsNoTotal DEF Ordered, Reopened, AllClosed
  <2>2. AllAccepted = 0 /\ AllRejected = 0
    <3>1. DOMAIN outcomes = {}
      OBVIOUS
    <3> QED
      BY <3>1, SumOfNone DEF AllAccepted, AllRejected, Accepted, Rejected
  <2> QED
    BY <2>1, <2>2 DEF Balance!Init
<1>2. FulfilmentInvariant /\ FulfilmentInvariant' /\ [Next]_vars
         => [Balance!Next]_(Balance!quantities)
  BY BalanceStep
<1> QED
  BY <1>1, <1>2, FulfilmentInvariance, PTL DEF Spec, KeepsBalance, Balance!Spec

-----------------------------------------------------------------------------
(* What every implementation of the account promises.                      *)

\* A bound on a sum stays a bound when either of its terms grows.
LEMMA BoundGrows ==
    \A a, b, c, p, q \in Nat : a <= b =>
        /\ p + q <= a + c => p + q <= b + c
        /\ p + q <= c + a => p + q <= c + b
OBVIOUS

LEMMA AtMost ==
    \A a, b, p, q \in Nat : a <= b => (p <= a => p <= b) /\ (p + q <= a => p + q <= b)
OBVIOUS

\* Every step keeps the account of the quantities.
LEMMA AccountedStep ==
    Balance!Accounted /\ [Balance!Next]_(Balance!quantities) => Balance!Accounted'
<1> DEFINE
  ordered == Ordered
  reopened == Reopened
  accepted == AllAccepted
  rejected == AllRejected
  closed == AllClosed
  recognized == total(recognitions, DOMAIN recognitions)
<1> SUFFICES ASSUME Balance!Accounted, [Balance!Next]_(Balance!quantities)
             PROVE  Balance!Accounted'
  OBVIOUS
<1>0. /\ ordered \in Nat /\ reopened \in Nat /\ accepted \in Nat
      /\ rejected \in Nat /\ closed \in Nat /\ recognized \in Nat
      /\ accepted + rejected <= ordered + reopened
      /\ reopened + closed <= rejected
      /\ recognized <= accepted
  BY DEF Balance!Accounted
<1>1. CASE Balance!Order
  <2>1. ordered' \in Nat /\ ordered <= ordered'
        /\ reopened' = reopened /\ accepted' = accepted /\ rejected' = rejected
        /\ closed' = closed /\ recognized' = recognized
    BY <1>1 DEF Balance!Order
  <2> HIDE DEF ordered, reopened, accepted, rejected, closed, recognized
  <2>2. accepted + rejected <= ordered' + reopened
    BY <1>0, <2>1, BoundGrows
  <2> QED
    BY <1>0, <2>1, <2>2
    DEF Balance!Accounted, ordered, reopened, accepted, rejected, closed, recognized
<1>2. CASE Balance!Reopen
  <2>1. reopened' \in Nat /\ reopened <= reopened' /\ reopened' + closed <= rejected
        /\ ordered' = ordered /\ accepted' = accepted /\ rejected' = rejected
        /\ closed' = closed /\ recognized' = recognized
    BY <1>2 DEF Balance!Reopen
  <2> HIDE DEF ordered, reopened, accepted, rejected, closed, recognized
  <2>2. accepted + rejected <= ordered + reopened'
    BY <1>0, <2>1, BoundGrows
  <2> QED
    BY <1>0, <2>1, <2>2
    DEF Balance!Accounted, ordered, reopened, accepted, rejected, closed, recognized
<1>3. CASE Balance!Close
  BY <1>0, <1>3 DEF Balance!Accounted, Balance!Close
<1>4. CASE Balance!Recognize
  BY <1>0, <1>4 DEF Balance!Accounted, Balance!Recognize
<1>5. CASE Balance!Answer
  <2>1. accepted' \in Nat /\ accepted <= accepted' /\ rejected' \in Nat /\ rejected <= rejected'
        /\ accepted' + rejected' <= ordered + reopened
        /\ ordered' = ordered /\ reopened' = reopened
        /\ closed' = closed /\ recognized' = recognized
    BY <1>5 DEF Balance!Answer
  <2> HIDE DEF ordered, reopened, accepted, rejected, closed, recognized
  <2>2. recognized <= accepted' /\ reopened + closed <= rejected'
    BY <1>0, <2>1, AtMost
  <2> QED
    BY <1>0, <2>1, <2>2
    DEF Balance!Accounted, ordered, reopened, accepted, rejected, closed, recognized
<1>6. CASE UNCHANGED Balance!quantities
  BY <1>0, <1>6 DEF Balance!Accounted, Balance!quantities
<1> QED
  BY <1>1, <1>2, <1>3, <1>4, <1>5, <1>6 DEF Balance!Next

\* However often goods are rejected and replaced, what was accepted and what
\* was closed never add up to more than the order, and what is recognised never
\* to more than what was accepted: whatever implements the account keeps it.
THEOREM NeverOverfulfilledAlways == KeepsBalance => []Balance!NeverOverfulfilled
<1>1. Balance!Init => Balance!Accounted
  BY DEF Balance!Init, Balance!Accounted
<1>2. Balance!Accounted => Balance!NeverOverfulfilled
  <2> DEFINE
    ordered == Ordered
    reopened == Reopened
    accepted == AllAccepted
    rejected == AllRejected
    closed == AllClosed
    recognized == total(recognitions, DOMAIN recognitions)
  <2> SUFFICES ASSUME Balance!Accounted PROVE Balance!NeverOverfulfilled
    OBVIOUS
  <2>1. /\ ordered \in Nat /\ reopened \in Nat /\ accepted \in Nat
        /\ rejected \in Nat /\ closed \in Nat /\ recognized \in Nat
        /\ accepted + rejected <= ordered + reopened
        /\ reopened + closed <= rejected
        /\ recognized <= accepted
    BY DEF Balance!Accounted
  <2> HIDE DEF ordered, reopened, accepted, rejected, closed, recognized
  <2>2. accepted + closed <= ordered /\ recognized <= accepted
    BY <2>1
  <2> QED
    BY <2>2
    DEF Balance!NeverOverfulfilled, ordered, reopened, accepted, rejected, closed, recognized
<1> QED
  BY <1>1, <1>2, AccountedStep, PTL DEF Balance!Spec, KeepsBalance

====
