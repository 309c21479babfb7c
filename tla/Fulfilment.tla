------------------------------- MODULE Fulfilment -------------------------------
(***************************************************************************)
(* The fulfilment of one requested item (procurement/services.py) and the  *)
(* invoices that bill it (ledger/integrations/procurement.py and           *)
(* ledger/services/business_posting.py): client orders, attempts to fulfil *)
(* them, supplier purchases, goods receipts, deliveries, the outcomes the  *)
(* client signs, what is done about rejected goods, invoice lines, credit  *)
(* notes and the recognition of revenue.                                   *)
(*                                                                         *)
(* Every service holds the row of the ProcurementRequest from              *)
(* lock_request to COMMIT, so each of them is one step.  A service that    *)
(* takes a list of rows checks each row against the rows before it; such a *)
(* call reaches what one call per row would reach, and is modelled so.     *)
(* Rows are append-only: a row is named by its position in its table.      *)
(***************************************************************************)
EXTENDS Integers, SequencesExt

CONSTANTS
    ItemQuantity,  \* RequestItem.quantity
    Suppliers,     \* suppliers with an offer for the item
    Quantities,    \* the quantities a call about goods may name
    BillQuantities, \* the quantities a call about orders and bills may name
    Waybills,      \* whether a delivery may be drafted with a waybill, without, or both
    MaxOrders,     \* bounds on the rows of each table
    MaxAttempts,
    MaxRows,
    MaxActions,
    MaxInvoices,
    MaxPostings

ASSUME FulfilmentAssumption ==
    /\ ItemQuantity \in Nat \ {0}
    /\ Quantities \subseteq Nat \ {0} /\ BillQuantities \subseteq Nat \ {0}
    /\ Waybills \subseteq BOOLEAN
    /\ {MaxOrders, MaxAttempts, MaxRows, MaxActions, MaxInvoices, MaxPostings} \subseteq Nat

VARIABLES
    attempts,    \* FulfilmentAttempt; an ORIGINAL one stands for its ClientPurchaseOrderLine
    purchases,   \* SupplierPurchaseLine
    receipts,    \* GoodsReceiptLine
    deliveries,  \* DeliveryLine with the dispatch of its Delivery
    outcomes,    \* DeliveryOutcomeLine
    actions,     \* RejectionAction
    invoices,    \* InvoiceLine of posted invoices with its InvoiceOrderLink rows
    credits,     \* CreditNoteLine of posted credit notes
    recognitions \* RevenueRecognition

goods == <<attempts, purchases, receipts, deliveries, outcomes, actions>>
bills == <<invoices, credits, recognitions>>
vars == <<goods, bills>>

Strategies == {"ORIGINAL", "SAME_SUPPLIER", "DIFFERENT_SUPPLIER"}
Kinds == {"RETURNED_TO_SUPPLIER", "SUPPLIER_ACCEPTED_RETURN", "SUPPLIER_REFUSED_RETURN",
          "SAME_SUPPLIER_REPLACEMENT", "DIFFERENT_SUPPLIER_CHOSEN", "REFUND_REPORTED",
          "CLOSED_REJECTED"}

Attempt == [po : Nat \ {0}, quantity : Quantities \cup BillQuantities, replaces : Nat,
            strategy : Strategies]
PurchaseLine == [attempt : Nat \ {0}, supplier : Suppliers, quantity : Quantities]
ReceiptLine == [purchase : Nat \ {0}, quantity : Quantities]
DeliveryLine == [receipt : Nat \ {0}, quantity : Quantities, waybill : BOOLEAN,
                 dispatched : BOOLEAN]
OutcomeLine == [delivery : Nat \ {0}, accepted : Nat, rejected : Nat]
RejectionAction == [rejection : Nat \ {0}, kind : Kinds, quantity : Quantities]
InvoiceLine == [quantity : BillQuantities,
                links : SUBSET [po : Nat \ {0}, quantity : BillQuantities]]
QuantityOfLine == [line : Nat \ {0}, quantity : BillQuantities]

Init ==
    /\ attempts = <<>> /\ purchases = <<>> /\ receipts = <<>> /\ deliveries = <<>>
    /\ outcomes = <<>> /\ actions = <<>>
    /\ invoices = <<>> /\ credits = <<>> /\ recognitions = <<>>

-----------------------------------------------------------------------------
(* Sums over rows, and the way from a row back to the attempt it belongs   *)
(* to.                                                                     *)

total(table, rows) == SumFunctionOnSet([n \in DOMAIN table |-> table[n].quantity], rows)
Accepted(rows) == SumFunctionOnSet([o \in DOMAIN outcomes |-> outcomes[o].accepted], rows)
Rejected(rows) == SumFunctionOnSet([o \in DOMAIN outcomes |-> outcomes[o].rejected], rows)

PurchaseOf(d) == receipts[deliveries[d].receipt].purchase
AttemptOf(d) == purchases[PurchaseOf(d)].attempt
PoOf(d) == attempts[AttemptOf(d)].po
Orders == {a \in DOMAIN attempts : attempts[a].replaces = 0}

PurchasesOf(a) == {p \in DOMAIN purchases : purchases[p].attempt = a}
ReceiptsOf(p) == {r \in DOMAIN receipts : receipts[r].purchase = p}
DeliveriesOf(r) == {d \in DOMAIN deliveries : deliveries[d].receipt = r}
OutcomesOf(d) == {o \in DOMAIN outcomes : outcomes[o].delivery = d}
OutcomesFor(pos) == {o \in DOMAIN outcomes : PoOf(outcomes[o].delivery) \in pos}

Replaced(o) == total(attempts, {a \in DOMAIN attempts : attempts[a].replaces = o})
Acted(o, kinds) ==
    total(actions, {x \in DOMAIN actions : actions[x].rejection = o /\ actions[x].kind \in kinds})

AcceptedOf(pos) == Accepted(OutcomesFor(pos))
Pos(l) == {link.po : link \in invoices[l].links}
Linked(l) == MapThenSumSet(LAMBDA link : link.quantity, invoices[l].links)
Cancelled(l) == total(credits, {c \in DOMAIN credits : credits[c].line = l})
Recognized(l) == total(recognitions, {r \in DOMAIN recognitions : recognitions[r].line = l})

-----------------------------------------------------------------------------
(* Goods                                                                   *)

\* A client order line, from a quotation (l = 0) or against a posted invoice.
create_po(q, l) ==
    /\ Cardinality(Orders) < MaxOrders /\ Len(attempts) < MaxAttempts
    /\ l # 0 => q <= invoices[l].quantity - Linked(l) - Cancelled(l)
    /\ LET po == Len(attempts) + 1
       IN /\ attempts' = Append(attempts, [po |-> po, quantity |-> q, replaces |-> 0,
                                           strategy |-> "ORIGINAL"])
          /\ invoices' = IF l = 0 THEN invoices
                         ELSE [invoices EXCEPT ![l].links =
                                   @ \cup {[po |-> po, quantity |-> q]}]
    /\ UNCHANGED <<purchases, receipts, deliveries, outcomes, actions, credits, recognitions>>

\* The supplier must fit the strategy of a replacement.
Fits(supplier, a) ==
    LET original == purchases[PurchaseOf(outcomes[attempts[a].replaces].delivery)].supplier
    IN CASE attempts[a].strategy = "ORIGINAL" -> TRUE
         [] attempts[a].strategy = "SAME_SUPPLIER" -> supplier = original
         [] attempts[a].strategy = "DIFFERENT_SUPPLIER" -> supplier # original

\* A faulty check: only the new line is compared with the attempt.
PurchaseUnsummed(a, supplier, q) ==
    /\ Len(purchases) < MaxRows /\ Fits(supplier, a)
    /\ q <= attempts[a].quantity
    /\ purchases' = Append(purchases, [attempt |-> a, supplier |-> supplier, quantity |-> q])
    /\ UNCHANGED <<attempts, receipts, deliveries, outcomes, actions, bills>>

create_purchase(a, supplier, q) ==
    /\ Len(purchases) < MaxRows /\ Fits(supplier, a)
    /\ total(purchases, PurchasesOf(a)) + q <= attempts[a].quantity
    /\ purchases' = Append(purchases, [attempt |-> a, supplier |-> supplier, quantity |-> q])
    /\ UNCHANGED <<attempts, receipts, deliveries, outcomes, actions, bills>>

create_receipt(p, q) ==
    /\ Len(receipts) < MaxRows
    /\ total(receipts, ReceiptsOf(p)) + q <= purchases[p].quantity
    /\ receipts' = Append(receipts, [purchase |-> p, quantity |-> q])
    /\ UNCHANGED <<attempts, purchases, deliveries, outcomes, actions, bills>>

\* A draft delivery, with an uploaded waybill or none; drafts reserve the goods.
create_delivery(r, q, waybill) ==
    /\ Len(deliveries) < MaxRows
    /\ total(deliveries, DeliveriesOf(r)) + q <= receipts[r].quantity
    /\ deliveries' = Append(deliveries, [receipt |-> r, quantity |-> q, waybill |-> waybill,
                                         dispatched |-> FALSE])
    /\ UNCHANGED <<attempts, purchases, receipts, outcomes, actions, bills>>

\* The official PDF of the registered waybill becomes the waybill of its delivery.
generate(d) ==
    /\ ~deliveries[d].waybill /\ ~deliveries[d].dispatched
    /\ deliveries' = [deliveries EXCEPT ![d].waybill = TRUE]
    /\ UNCHANGED <<attempts, purchases, receipts, outcomes, actions, bills>>

dispatch(d) ==
    /\ ~deliveries[d].dispatched /\ deliveries[d].waybill
    /\ deliveries' = [deliveries EXCEPT ![d].dispatched = TRUE]
    /\ UNCHANGED <<attempts, purchases, receipts, outcomes, actions, bills>>

record_outcome(d, accepted, rejected) ==
    /\ Len(outcomes) < MaxRows
    /\ deliveries[d].dispatched /\ accepted + rejected > 0
    /\ Accepted(OutcomesOf(d)) + Rejected(OutcomesOf(d))
           + accepted + rejected <= deliveries[d].quantity
    /\ outcomes' = Append(outcomes, [delivery |-> d, accepted |-> accepted,
                                     rejected |-> rejected])
    /\ UNCHANGED <<attempts, purchases, receipts, deliveries, actions, bills>>

Replacing == {"SAME_SUPPLIER_REPLACEMENT", "DIFFERENT_SUPPLIER_CHOSEN"}
Answers == {"SUPPLIER_ACCEPTED_RETURN", "SUPPLIER_REFUSED_RETURN"}

\* A faulty check: a closed quantity may still be replaced.
AllowedAfterClosing(o, kind, q) ==
    /\ q <= outcomes[o].rejected
    /\ kind \in Replacing \cup {"CLOSED_REJECTED"} => Replaced(o) + q <= outcomes[o].rejected
    /\ kind \in Answers => Acted(o, Answers) + q <= Acted(o, {"RETURNED_TO_SUPPLIER"})

\* What the rejection and its earlier actions still allow.
Allowed(o, kind, q) ==
    /\ q <= outcomes[o].rejected
    /\ kind \in Replacing \cup {"CLOSED_REJECTED"} =>
           Replaced(o) + Acted(o, {"CLOSED_REJECTED"}) + q <= outcomes[o].rejected
    /\ kind = "RETURNED_TO_SUPPLIER" =>
           Acted(o, {"RETURNED_TO_SUPPLIER"}) + q <= outcomes[o].rejected
    /\ kind \in Answers =>
           Acted(o, Answers) + q <= Acted(o, {"RETURNED_TO_SUPPLIER"})
    /\ kind = "SAME_SUPPLIER_REPLACEMENT" =>
           Acted(o, {"SAME_SUPPLIER_REPLACEMENT"}) + q
               <= Acted(o, {"SUPPLIER_ACCEPTED_RETURN"})

Resolve(o, kind, q) ==
    /\ Len(actions) < MaxActions
    /\ Allowed(o, kind, q)
    /\ actions' = Append(actions, [rejection |-> o, kind |-> kind, quantity |-> q])
    /\ UNCHANGED <<purchases, receipts, deliveries, outcomes, bills>>

\* Return, supplier's answer, reported refund or closure: no new attempt.
resolve_rejection(o, kind, q) ==
    /\ kind \notin Replacing
    /\ Resolve(o, kind, q) /\ UNCHANGED attempts

\* A replacement opens a new attempt at the same order line.
reopen(o, kind, q) ==
    /\ Len(attempts) < MaxAttempts
    /\ kind \in Replacing
    /\ Resolve(o, kind, q)
    /\ attempts' = Append(attempts,
           [po |-> PoOf(outcomes[o].delivery), quantity |-> q, replaces |-> o,
            strategy |-> IF kind = "SAME_SUPPLIER_REPLACEMENT" THEN "SAME_SUPPLIER"
                         ELSE "DIFFERENT_SUPPLIER"])

-----------------------------------------------------------------------------
(* Bills.  An approved record takes effect when it is posted; the draft of *)
(* an invoice line, its links included, changes nothing before that.       *)

Ordered == total(attempts, Orders)
Capacity == IF Ordered = 0 THEN ItemQuantity ELSE Ordered

\* Post an invoice line of the item, drawn on an order line or on the item (po = 0).
post_invoice(q, po) ==
    /\ Len(invoices) < MaxInvoices
    /\ q <= Capacity - total(invoices, DOMAIN invoices) + total(credits, DOMAIN credits)
    /\ invoices' = Append(invoices,
           [quantity |-> q,
            links |-> IF po = 0 THEN {} ELSE {[po |-> po, quantity |-> q]}])
    /\ UNCHANGED <<goods, credits, recognitions>>

\* The order lines a credit looks at: the linked ones, else all of the item.
CreditPos(l) == IF Pos(l) = {} THEN Orders ELSE Pos(l)
Unresolved(pos) ==
    total(deliveries, {d \in DOMAIN deliveries : deliveries[d].dispatched /\ PoOf(d) \in pos})
    - AcceptedOf(pos) - Rejected(OutcomesFor(pos))

\* The quantity of a posted line a credit note may still cancel.
guard_credit(l) ==
    Min({invoices[l].quantity - AcceptedOf(CreditPos(l)) - Unresolved(CreditPos(l))
             - Cancelled(l),
         invoices[l].quantity - Recognized(l) - Cancelled(l)})

post_credit(l, q) ==
    /\ Len(credits) + Len(recognitions) < MaxPostings
    /\ q <= guard_credit(l)
    /\ credits' = Append(credits, [line |-> l, quantity |-> q])
    /\ UNCHANGED <<goods, invoices, recognitions>>

\* A faulty reading: every line counts only its own recognitions.
CommittedByItself(l) == Recognized(l)

\* What all lines that share an order line with l have recognised already.
Committed(l) ==
    total(recognitions, {r \in DOMAIN recognitions : Pos(recognitions[r].line) \cap Pos(l) # {}})

recognize(l, q) ==
    /\ Len(credits) + Len(recognitions) < MaxPostings
    /\ q <= AcceptedOf(Pos(l)) - Committed(l)
    /\ q <= invoices[l].quantity - Cancelled(l) - Recognized(l)
    /\ recognitions' = Append(recognitions, [line |-> l, quantity |-> q])
    /\ UNCHANGED <<goods, invoices, credits>>

-----------------------------------------------------------------------------
Next ==
    \/ \E q \in BillQuantities :
        \/ \E l \in DOMAIN invoices \cup {0} : create_po(q, l)
        \/ \E po \in Orders \cup {0} : post_invoice(q, po)
        \/ \E l \in DOMAIN invoices : post_credit(l, q)
        \/ \E l \in DOMAIN invoices : recognize(l, q)
    \/ \E q \in Quantities :
        \/ \E a \in DOMAIN attempts, s \in Suppliers : create_purchase(a, s, q)
        \/ \E p \in DOMAIN purchases : create_receipt(p, q)
        \/ \E r \in DOMAIN receipts, waybill \in Waybills : create_delivery(r, q, waybill)
        \/ \E o \in DOMAIN outcomes, kind \in Kinds : resolve_rejection(o, kind, q)
        \/ \E o \in DOMAIN outcomes, kind \in Kinds : reopen(o, kind, q)
    \/ \E d \in DOMAIN deliveries :
        \/ generate(d)
        \/ dispatch(d)
        \/ \E accepted, rejected \in Quantities \cup {0} : record_outcome(d, accepted, rejected)

Spec == Init /\ [][Next]_vars

-----------------------------------------------------------------------------
(* Properties                                                              *)

TypeOK ==
    /\ attempts \in Seq(Attempt) /\ purchases \in Seq(PurchaseLine)
    /\ receipts \in Seq(ReceiptLine) /\ deliveries \in Seq(DeliveryLine)
    /\ outcomes \in Seq(OutcomeLine) /\ actions \in Seq(RejectionAction)
    /\ invoices \in Seq(InvoiceLine)
    /\ credits \in Seq(QuantityOfLine) /\ recognitions \in Seq(QuantityOfLine)

\* An attempt as the tracker shows it (tracking.py, attempt_summary).
RejectionsOf(a) == {o \in DOMAIN outcomes : AttemptOf(outcomes[o].delivery) = a}
AcceptedBy(a) == Accepted(RejectionsOf(a))
RejectedBy(a) == Rejected(RejectionsOf(a))
Closures(rejections) ==
    {x \in DOMAIN actions : actions[x].kind = "CLOSED_REJECTED" /\ actions[x].rejection \in rejections}
Replacements(rejections) == {b \in DOMAIN attempts : attempts[b].replaces \in rejections}
ClosedBy(a) == total(actions, Closures(RejectionsOf(a)))
ReplacedBy(a) == total(attempts, Replacements(RejectionsOf(a)))

attempt_summary(a) ==
    LET unresolved == RejectedBy(a) - ClosedBy(a) - ReplacedBy(a)
    IN CASE AcceptedBy(a) = attempts[a].quantity -> "ACCEPTED"
         [] AcceptedBy(a) # attempts[a].quantity /\ unresolved # 0 ->
                "REJECTED_AWAITING_RESOLUTION"
         [] /\ unresolved = 0 /\ ClosedBy(a) > 0
            /\ ClosedBy(a) + AcceptedBy(a) + ReplacedBy(a) = attempts[a].quantity ->
                "CLOSED_WITH_REJECTION"
         [] OTHER -> IF ReplacedBy(a) > 0 THEN "REPLACEMENT_LINKED" ELSE "OPEN"

AllAccepted == Accepted(DOMAIN outcomes)
AllRejected == Rejected(DOMAIN outcomes)
AllClosed == total(actions, {x \in DOMAIN actions : actions[x].kind = "CLOSED_REJECTED"})
Reopened == total(attempts, DOMAIN attempts \ Orders)
remaining_quantity == Ordered - AllAccepted - AllClosed

\* When the tracker says that nothing remains of the orders, no attempt still
\* waits for a supplier, a delivery, an answer or a resolution.
NothingRemainsNothingOpen ==
    remaining_quantity = 0 =>
        \A a \in DOMAIN attempts :
            attempt_summary(a) \in {"ACCEPTED", "CLOSED_WITH_REJECTION", "REPLACEMENT_LINKED"}

\* No order line is overfulfilled, through any chain of replacements: what was
\* accepted of all its attempts and what was closed stay within its quantity.
OrderLineKept ==
    \A po \in Orders :
        AcceptedOf({po}) + total(actions, Closures(OutcomesFor({po}))) <= attempts[po].quantity

\* What the lines that bill only order lines in pos have recognised.
RecognizedWithin(pos) ==
    total(recognitions, {r \in DOMAIN recognitions : Pos(recognitions[r].line) \subseteq pos})

\* Revenue is earned: the invoice lines that bill only the order lines in pos
\* have together not recognised more than the client accepted of them.  What is
\* credited is not recognised too, and the item is not billed beyond what the
\* client asked for or ordered.
RevenueEarned ==
    /\ \A pos \in SUBSET Orders : RecognizedWithin(pos) <= AcceptedOf(pos)
    /\ \A l \in DOMAIN invoices : Cancelled(l) + Recognized(l) <= invoices[l].quantity
    /\ total(invoices, DOMAIN invoices) - total(credits, DOMAIN credits)
           <= Max({ItemQuantity, Ordered})

\* The rows implement the account of the quantities.
Balance == INSTANCE OrderBalance WITH
    ordered <- Ordered,
    reopened <- Reopened,
    accepted <- AllAccepted,
    rejected <- AllRejected,
    closed <- AllClosed,
    recognized <- total(recognitions, DOMAIN recognitions)
KeepsBalance == Balance!Spec

(* Why: every row belongs to a row that is there, and the rows that belong *)
(* to one row stay within its quantity.                                    *)

RowsBelong ==
    /\ \A a \in DOMAIN attempts :
          LET o == attempts[a].replaces IN
          /\ attempts[a].po \in Orders
          /\ o = 0 => attempts[a].po = a
          /\ o # 0 => o \in DOMAIN outcomes /\ attempts[a].po = PoOf(outcomes[o].delivery)
    /\ \A p \in DOMAIN purchases : purchases[p].attempt \in DOMAIN attempts
    /\ \A r \in DOMAIN receipts : receipts[r].purchase \in DOMAIN purchases
    /\ \A d \in DOMAIN deliveries : deliveries[d].receipt \in DOMAIN receipts
    /\ \A o \in DOMAIN outcomes : outcomes[o].delivery \in DOMAIN deliveries
    /\ \A x \in DOMAIN actions : actions[x].rejection \in DOMAIN outcomes
    /\ \A l \in DOMAIN invoices : Pos(l) \subseteq Orders
    /\ \A c \in DOMAIN credits : credits[c].line \in DOMAIN invoices
    /\ \A r \in DOMAIN recognitions : recognitions[r].line \in DOMAIN invoices

PurchasesFit ==
    \A a \in DOMAIN attempts : total(purchases, PurchasesOf(a)) <= attempts[a].quantity
ReceiptsFit ==
    \A p \in DOMAIN purchases : total(receipts, ReceiptsOf(p)) <= purchases[p].quantity
DeliveriesFit ==
    \A r \in DOMAIN receipts : total(deliveries, DeliveriesOf(r)) <= receipts[r].quantity
OutcomesFit ==
    \A d \in DOMAIN deliveries :
        Accepted(OutcomesOf(d)) + Rejected(OutcomesOf(d)) <= deliveries[d].quantity
ActionsFit ==
    \A o \in DOMAIN outcomes :
        Replaced(o) + Acted(o, {"CLOSED_REJECTED"}) <= outcomes[o].rejected

FulfilmentInvariant ==
    /\ TypeOK /\ RowsBelong
    /\ PurchasesFit /\ ReceiptsFit /\ DeliveriesFit /\ OutcomesFit /\ ActionsFit
    /\ RevenueEarned

=============================================================================
