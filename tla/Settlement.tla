------------------------------- MODULE Settlement -------------------------------
(***************************************************************************)
(* The client subledger of one client in one currency: invoices, the       *)
(* receipts, withholdings and credit notes that settle them, the refunds   *)
(* that give unspent credit back, and the append-only allocation events    *)
(* between them (ledger/services/settlement.py, business_posting.py,       *)
(* reversals.py).                                                          *)
(*                                                                         *)
(* Every operation holds the row of the currency from book_lock to COMMIT, *)
(* so each of them is one step here.  The exception is what allocate reads *)
(* before book_lock: the status of the source, which may be reversed while *)
(* the allocation waits.                                                   *)
(*                                                                         *)
(* Records enter the model approved and immutable; their accounting date   *)
(* is any date up to Today, chosen when they are posted.  Amounts are in   *)
(* minor units of the currency.                                            *)
(***************************************************************************)
EXTENDS Integers, Sequences, FiniteSets, Functions

CONSTANTS
    Invoices, Receipts, Withholdings, Credits, Refunds,  \* financial records
    Content,    \* the approved content of each record
    Today,      \* the last accounting date anyone may use
    Closable,   \* the dates whose accounting period may be closed
    MaxEvents   \* bound on the allocation events of a behaviour

Sources == Receipts \cup Withholdings \cup Credits
FinancialRecords == Invoices \cup Sources \cup Refunds
AccountingDates == 1 .. Today
LineRows == [net : Nat, tax : Nat, quantity : Nat \ {0},
             policy : {"CLIENT_REMITTANCE", "TAX_CREDIT"}]
CreditRows == [line : Nat, quantity : Nat, net : Nat, tax : Nat]

\* A credit note names each line of its invoice at most once.
ASSUME SettlementAssumption ==
    /\ Today \in Nat \ {0} /\ Closable \subseteq AccountingDates /\ MaxEvents \in Nat
    /\ IsFiniteSet(FinancialRecords)
    /\ Receipts \cap Withholdings = {} /\ Credits \cap (Receipts \cup Withholdings) = {}
    /\ Invoices \cap Sources = {} /\ Refunds \cap (Invoices \cup Sources) = {}
    /\ \A i \in Invoices : Content[i].lines \in Seq(LineRows)
    /\ \A r \in Receipts \cup Refunds : Content[r].amount \in Nat \ {0}
    /\ \A w \in Withholdings :
           /\ Content[w].amount \in Nat \ {0} /\ Content[w].base \in Nat
           /\ Content[w].treatment \in {"VAT", "INCOME_WHT"}
           /\ Content[w].invoice \in Invoices
           /\ Content[w].line \in DOMAIN Content[Content[w].invoice].lines
    /\ \A c \in Credits :
           /\ Content[c].invoice \in Invoices /\ Content[c].rows \in Seq(CreditRows)
           /\ \A m, n \in DOMAIN Content[c].rows :
                  /\ Content[c].rows[n].line \in DOMAIN Content[Content[c].invoice].lines
                  /\ m # n => Content[c].rows[m].line # Content[c].rows[n].line

VARIABLES
    status,       \* FinancialRecord.status: APPROVED, POSTED or REVERSED
    entries,      \* JournalEntry rows: record, event (POST or REVERSE), date
    movements,    \* ClientMovement rows of the client account
    sources,      \* SettlementSource rows, oldest first
    allocations,  \* AllocationEvent rows with their tax rows, oldest first
    refunds,      \* RefundApplication rows: what a payment takes from a source, or 0
    closed,       \* the dates that lie in a closed AccountingPeriod
    waiting       \* sources read as POSTED by an allocation that waits for the book

settlementVars ==
    <<status, entries, movements, sources, allocations, refunds, closed, waiting>>

TaxRows == Seq([line : Nat, amount : Nat])
AllocationRows == [source : Sources, invoice : Invoices, date : AccountingDates,
                   amount : Nat \ {0}, taxes : TaxRows, release_of : Nat]

SettlementInit ==
    /\ status = [r \in FinancialRecords |-> "APPROVED"]
    /\ entries = {} /\ movements = {} /\ sources = <<>>
    /\ allocations = <<>> /\ refunds = [p \in Refunds |-> [s \in Sources |-> 0]]
    /\ closed = {} /\ waiting = {}

-----------------------------------------------------------------------------
(* What the services read.  A figure as of a date counts what is dated up  *)
(* to it; the current figure is the one as of Today.                       *)

Least(x, y) == IF x <= y THEN x ELSE y
Positive(x) == IF x > 0 THEN x ELSE 0

Line(i, k) == Content[i].lines[k]
LinesOf(i) == DOMAIN Content[i].lines

Value(r) ==
    CASE r \in Invoices ->
             SumFunctionOnSet([k \in LinesOf(r) |-> Line(r, k).net + Line(r, k).tax], LinesOf(r))
      [] r \in Credits ->
             SumFunctionOnSet([k \in DOMAIN Content[r].rows |->
                                   Content[r].rows[k].net + Content[r].rows[k].tax],
                              DOMAIN Content[r].rows)
      [] OTHER -> Content[r].amount

DateOf(r) == (CHOOSE e \in entries : e.record = r /\ e.event = "POST").date
ReversedBy(r, day) ==
    \E e \in entries : e.record = r /\ e.event = "REVERSE" /\ e.date <= day

Signed(n, value) == IF allocations[n].release_of = 0 THEN value ELSE -value
Releases(n) == {m \in DOMAIN allocations : allocations[m].release_of = n}
OfInvoice(i) == {n \in DOMAIN allocations : allocations[n].invoice = i}
OfSource(s) == {n \in DOMAIN allocations : allocations[n].source = s}

TaxOf(n) == SumFunctionOnSet([k \in DOMAIN allocations[n].taxes |-> allocations[n].taxes[k].amount],
                             DOMAIN allocations[n].taxes)

applied(events, day) ==
    SumFunctionOnSet([n \in DOMAIN allocations |-> Signed(n, allocations[n].amount)],
                     {n \in events : allocations[n].date <= day})

invoice_due(i, day) == Value(i) - applied(OfInvoice(i), day)

\* What a set of refunds takes from a source, and the refunds that count as of a date.
Taken(s, payments) == SumFunctionOnSet([p \in Refunds |-> refunds[p][s]], payments)
Paid(day) == {p \in Refunds : status[p] # "APPROVED" /\ DateOf(p) <= day}
Refunding(day) == {p \in Paid(day) : ~ReversedBy(p, day)}

\* A faulty reading: a refund that was reversed still uses the source up.
AvailableDespiteReversal(s, day) ==
    IF ReversedBy(s, day) THEN 0
    ELSE Value(s) - applied(OfSource(s), day) - Taken(s, Paid(day))

source_available(s, day) ==
    IF ReversedBy(s, day) THEN 0
    ELSE Value(s) - applied(OfSource(s), day) - Taken(s, Refunding(day))

\* The tax an allocation has collected on a line; it names each line at most once.
TaxOn(n, k) ==
    LET rows == {j \in DOMAIN allocations[n].taxes : allocations[n].taxes[j].line = k}
    IN IF rows = {} THEN 0 ELSE allocations[n].taxes[CHOOSE j \in rows : TRUE].amount

tax_collected(i, k) ==
    SumFunctionOnSet([n \in DOMAIN allocations |-> Signed(n, TaxOn(n, k))], OfInvoice(i))

Withheld(i, k, treatment) ==
    {w \in Withholdings : /\ status[w] = "POSTED" /\ Content[w].treatment = treatment
                          /\ Content[w].invoice = i /\ Content[w].line = k}

tax_withheld(i, k) ==
    SumFunctionOnSet([w \in Withholdings |-> Content[w].amount], Withheld(i, k, "VAT"))

\* What a credit note takes off a line, and the credit notes that count.
CreditOf(c, k) ==
    LET rows == {row \in Range(Content[c].rows) : row.line = k}
    IN IF rows = {} THEN [line |-> k, quantity |-> 0, net |-> 0, tax |-> 0]
       ELSE CHOOSE row \in rows : TRUE
Crediting(i) == {c \in Credits : status[c] = "POSTED" /\ Content[c].invoice = i}
CreditedQuantity(i, k) ==
    SumFunctionOnSet([c \in Credits |-> CreditOf(c, k).quantity], Crediting(i))
CreditedNet(i, k) == SumFunctionOnSet([c \in Credits |-> CreditOf(c, k).net], Crediting(i))
credited(i, k) == SumFunctionOnSet([c \in Credits |-> CreditOf(c, k).tax], Crediting(i))

\* The part of the tax of a line that nothing accounts for yet.
RemainingTax(i, k) ==
    Line(i, k).tax - tax_collected(i, k) - tax_withheld(i, k) - credited(i, k)
RemainingInvoiceTax(i) ==
    SumFunctionOnSet([k \in LinesOf(i) |-> RemainingTax(i, k)], LinesOf(i))

BalanceAsOf(day) == SumFunctionOnSet([m \in movements |-> m.debit - m.credit],
                                     {m \in movements : m.date <= day})
Balance == BalanceAsOf(Today)

-----------------------------------------------------------------------------
(* What the services write. *)

lock_period(day) == day \in AccountingDates /\ day \notin closed

NotBeforeLatest(day) == \A n \in DOMAIN allocations : allocations[n].date <= day

\* ROUND_HALF_UP of n / d to a whole minor unit.
Rounded(n, d) == (2 * n + d) \div (2 * d)

Journal(r, event, day) == entries' = entries \cup {[record |-> r, event |-> event, date |-> day]}
movement(r, event, day, debit, credit) ==
    movements' = movements \cup
        {[source |-> r, kind |-> event, date |-> day, debit |-> debit, credit |-> credit]}

MarkPosted(r) == status[r] = "APPROVED" /\ status' = [status EXCEPT ![r] = "POSTED"]

Application(s, i, day, value, taxes) ==
    [source |-> s, invoice |-> i, date |-> day, amount |-> value, taxes |-> taxes,
     release_of |-> 0]

\* The posting of an invoice, or of a receipt from the client: a journal and a movement.
PostInvoice(i, day) ==
    /\ MarkPosted(i) /\ lock_period(day)
    /\ Journal(i, "POST", day)
    /\ movement(i, "INVOICE", day, Value(i), 0)
    /\ UNCHANGED <<sources, allocations, refunds, closed, waiting>>

PostSource(s, day) ==
    /\ MarkPosted(s) /\ lock_period(day)
    /\ Journal(s, "POST", day)
    /\ movement(s, "SETTLEMENT", day, 0, Value(s))
    /\ sources' = Append(sources, s)
    /\ UNCHANGED <<refunds, closed, waiting>>

PostReceipt(r, day) == PostSource(r, day) /\ UNCHANGED allocations

\* A faulty posting: the whole credit is applied, however little is still due.
AutoAllocateAll(s, i, day) ==
    IF invoice_due(i, Today) > 0
    THEN /\ day >= DateOf(i) /\ NotBeforeLatest(day)
         /\ 0 < Value(s)
         /\ allocations' = Append(allocations, Application(s, i, day, Value(s), <<>>))
    ELSE UNCHANGED allocations

\* A withholding or credit note is applied to its invoice by the posting itself,
\* as far as the invoice is still due.
AutoAllocate(s, i, day) ==
    LET due == invoice_due(i, Today)
    IN IF due > 0
       THEN /\ day >= DateOf(i) /\ NotBeforeLatest(day)
            /\ 0 < Value(s)
            /\ allocations' = Append(allocations,
                                     Application(s, i, day, Least(Value(s), due), <<>>))
       ELSE UNCHANGED allocations

WithholdingAllowed(w) ==
    LET i == Content[w].invoice
        k == Content[w].line
    IN /\ Value(w) <= invoice_due(i, Today)
       /\ Content[w].treatment = "INCOME_WHT" =>
              SumFunctionOnSet([v \in Withholdings |-> Content[v].base],
                               Withheld(i, k, "INCOME_WHT"))
                  + Content[w].base <= Line(i, k).net - CreditedNet(i, k)
       /\ Content[w].treatment = "VAT" /\ Line(i, k).policy = "CLIENT_REMITTANCE" =>
              Value(w) <= RemainingTax(i, k)

PostWithholding(w, day) ==
    /\ status[Content[w].invoice] = "POSTED"
    /\ WithholdingAllowed(w)
    /\ PostSource(w, day)
    /\ AutoAllocate(w, Content[w].invoice, day)

guard_credit(c) ==
    LET i == Content[c].invoice
    IN \A row \in Range(Content[c].rows) :
        LET line == Line(i, row.line)
            quantity == line.quantity - CreditedQuantity(i, row.line)
            net == line.net - CreditedNet(i, row.line)
            tax == line.tax - credited(i, row.line)
        IN /\ row.quantity <= quantity /\ row.net <= net /\ row.tax <= tax
           /\ row.quantity = quantity => row.net = net /\ row.tax = tax
           /\ row.tax <= RemainingTax(i, row.line)

PostCredit(c, day) ==
    /\ status[Content[c].invoice] = "POSTED"
    /\ guard_credit(c)
    /\ PostSource(c, day)
    /\ AutoAllocate(c, Content[c].invoice, day)

\* A refund consumes the oldest unspent sources first.
Older(s) ==
    {t \in Range(sources) :
        \E j, k \in DOMAIN sources : j < k /\ sources[j] = t /\ sources[k] = s}

RefundPart(p, s) ==
    LET before == SumFunctionOnSet([t \in Range(sources) |-> source_available(t, Today)], Older(s))
    IN Positive(Least(source_available(s, Today), Value(p) - before))

PostRefund(p, day) ==
    LET parts == [s \in Sources |-> IF s \in Range(sources) THEN RefundPart(p, s) ELSE 0]
    IN /\ MarkPosted(p) /\ lock_period(day)
       /\ Value(p) <= -Balance
       /\ SumFunctionOnSet(parts, Range(sources)) = Value(p)
       /\ refunds' = [refunds EXCEPT ![p] = parts]
       /\ Journal(p, "POST", day)
       /\ movement(p, "REFUND", day, Value(p), 0)
       /\ UNCHANGED <<sources, allocations, closed, waiting>>

-----------------------------------------------------------------------------
\* allocate reads the status of the source before it waits for the book.
BeginAllocate(s) ==
    /\ status[s] = "POSTED"
    /\ waiting' = waiting \cup {s}
    /\ UNCHANGED <<status, entries, movements, sources, allocations, refunds, closed>>

RefuseAllocate(s) ==
    /\ s \in waiting
    /\ waiting' = waiting \ {s}
    /\ UNCHANGED <<status, entries, movements, sources, allocations, refunds, closed>>

\* The tax rows a request may name: distinct lines in any order, with an amount each.
TaxRequests(i, value) ==
    {taxes \in UNION {[1 .. m -> [line : LinesOf(i), amount : 0 .. value]] :
                      m \in 0 .. Len(Content[i].lines)} :
        \A j, k \in DOMAIN taxes : j # k => taxes[j].line # taxes[k].line}

TaxAllowed(s, i, value, taxes) ==
    LET total_tax == SumFunctionOnSet([n \in DOMAIN taxes |-> taxes[n].amount], DOMAIN taxes)
    IN /\ \A n \in DOMAIN taxes : taxes[n].amount <= RemainingTax(i, taxes[n].line)
       /\ total_tax <= value
       /\ IF s \in Receipts
          THEN value = invoice_due(i, Today) => total_tax = RemainingInvoiceTax(i)
          ELSE taxes = <<>>

Allocate(s, i, value, day, taxes) ==
    /\ Len(allocations) < MaxEvents
    /\ s \in waiting /\ status[i] = "POSTED"
    /\ lock_period(day)
    /\ day >= DateOf(s) /\ day >= DateOf(i) /\ NotBeforeLatest(day)
    /\ 0 < value /\ value <= source_available(s, Today) /\ value <= invoice_due(i, Today)
    /\ TaxAllowed(s, i, value, taxes)
    /\ allocations' = Append(allocations, Application(s, i, day, value, taxes))
    /\ waiting' = waiting \ {s}
    /\ UNCHANGED <<status, entries, movements, sources, refunds, closed>>

\* What is left of an application, of its tax and of one of its tax rows, once its
\* releases are taken off.
Active(n) == allocations[n].amount
    - SumFunctionOnSet([m \in Releases(n) |-> allocations[m].amount], Releases(n))
ActiveTax(n) == TaxOf(n) - SumFunctionOnSet([m \in Releases(n) |-> TaxOf(m)], Releases(n))
Capacity(n, k) == allocations[n].taxes[k].amount
    - SumFunctionOnSet([m \in Releases(n) |-> allocations[m].taxes[k].amount], Releases(n))

\* The tax a release of value gives back: all of it at the end, else in proportion.
ReleasedTax(n, value) ==
    IF value = Active(n) THEN ActiveTax(n)
    ELSE Rounded(TaxOf(n) * value, allocations[n].amount)

\* How a release splits its tax over the rows of the application: each gives its
\* rounded share, the last one the rest, and none more than it has left.
Parts(n, tax) ==
    LET rows == allocations[n].taxes
        shares == [k \in DOMAIN rows |->
                      Least(Capacity(n, k), Rounded(tax * rows[k].amount, TaxOf(n)))]
        rest == tax - SumFunctionOnSet(shares, 1 .. Len(rows) - 1)
    IN [k \in DOMAIN rows |->
           IF TaxOf(n) = 0 THEN 0
           ELSE IF k = Len(rows) THEN Least(Capacity(n, k), rest) ELSE shares[k]]

\* The parts must add up, and the database refuses a negative one.
Apportioned(n, value) ==
    LET tax == ReleasedTax(n, value)
        parts == Parts(n, tax)
    IN SumFunctionOnSet(parts, DOMAIN parts) = tax /\ \A k \in DOMAIN parts : parts[k] >= 0

ReleaseRow(n, value, day) ==
    LET row == allocations[n]
        parts == Parts(n, ReleasedTax(n, value))
    IN [row EXCEPT !.date = day, !.amount = value, !.release_of = n,
           !.taxes = [k \in DOMAIN row.taxes |->
                         [line |-> row.taxes[k].line, amount |-> parts[k]]]]

\* A faulty release: it does not look at the accounting period.
ReleaseAnyPeriod(n, value, day) ==
    /\ Len(allocations) < MaxEvents
    /\ allocations[n].release_of = 0
    /\ 0 < value /\ value <= Active(n)
    /\ NotBeforeLatest(day)
    /\ Apportioned(n, value)
    /\ allocations' = Append(allocations, ReleaseRow(n, value, day))
    /\ UNCHANGED <<status, entries, movements, sources, refunds, closed, waiting>>

Release(n, value, day) ==
    /\ Len(allocations) < MaxEvents
    /\ lock_period(day)
    /\ allocations[n].release_of = 0
    /\ 0 < value /\ value <= Active(n)
    /\ NotBeforeLatest(day)
    /\ Apportioned(n, value)
    /\ allocations' = Append(allocations, ReleaseRow(n, value, day))
    /\ UNCHANGED <<status, entries, movements, sources, refunds, closed, waiting>>

\* A faulty reversal: it overlooks what was released in part.
ToReleaseUntouched(r) ==
    {n \in DOMAIN allocations :
        /\ allocations[n].source = r /\ allocations[n].release_of = 0
        /\ Active(n) = allocations[n].amount}

\* A reversal first releases, on its own date, whatever its record still settles,
\* the oldest application first.
ToRelease(r) ==
    {n \in DOMAIN allocations :
        /\ allocations[n].source = r /\ allocations[n].release_of = 0
        /\ Active(n) > 0}

Oldest(events) ==
    {order \in [1 .. Cardinality(events) -> events] :
        /\ Range(order) = events
        /\ \A j, k \in DOMAIN order : j < k => order[j] < order[k]}

ReverseRecord(r, day) ==
    \E open \in Oldest(ToRelease(r)) :
       /\ r \in Receipts \cup Withholdings \cup Refunds
       /\ status[r] = "POSTED" /\ day >= DateOf(r) /\ lock_period(day)
       /\ r \in Sources => ~\E p \in Refunds : refunds[p][r] > 0 /\ status[p] = "POSTED"
       /\ open # <<>> => NotBeforeLatest(day)
       /\ \A n \in Range(open) : Apportioned(n, Active(n))
       /\ allocations' = allocations \o
              [k \in DOMAIN open |-> ReleaseRow(open[k], Active(open[k]), day)]
       /\ Journal(r, "REVERSE", day)
       /\ IF r \in Refunds THEN movement(r, "REVERSAL", day, 0, Value(r))
                           ELSE movement(r, "REVERSAL", day, Value(r), 0)
       /\ status' = [status EXCEPT ![r] = "REVERSED"]
       /\ UNCHANGED <<sources, refunds, closed, waiting>>

ClosePeriod(day) ==
    /\ day \in Closable \ closed
    /\ closed' = closed \cup {day}
    /\ UNCHANGED <<status, entries, movements, sources, allocations, refunds, waiting>>

ReopenPeriod(day) ==
    /\ day \in closed
    /\ closed' = closed \ {day}
    /\ UNCHANGED <<status, entries, movements, sources, allocations, refunds, waiting>>

SettlementNext ==
    \/ \E day \in AccountingDates :
        \/ \E i \in Invoices : PostInvoice(i, day)
        \/ \E r \in Receipts : PostReceipt(r, day)
        \/ \E w \in Withholdings : PostWithholding(w, day)
        \/ \E c \in Credits : PostCredit(c, day)
        \/ \E p \in Refunds : PostRefund(p, day)
        \/ \E s \in waiting, i \in Invoices : \E value \in 1 .. Value(i) :
               \E taxes \in TaxRequests(i, value) : Allocate(s, i, value, day, taxes)
        \/ \E n \in DOMAIN allocations : \E value \in 1 .. allocations[n].amount :
               Release(n, value, day)
        \/ \E r \in FinancialRecords : ReverseRecord(r, day)
        \/ ClosePeriod(day) \/ ReopenPeriod(day)
    \/ \E s \in Sources : BeginAllocate(s) \/ RefuseAllocate(s)

SettlementSpec == SettlementInit /\ [][SettlementNext]_settlementVars

-----------------------------------------------------------------------------
SettlementTypeOK ==
    /\ status \in [FinancialRecords -> {"APPROVED", "POSTED", "REVERSED"}]
    /\ entries \subseteq [record : FinancialRecords, event : {"POST", "REVERSE"},
                          date : AccountingDates]
    /\ movements \subseteq [source : FinancialRecords, date : AccountingDates,
                            debit : Nat, credit : Nat,
                            kind : {"INVOICE", "SETTLEMENT", "REFUND", "REVERSAL"}]
    /\ sources \in Seq(Sources)
    /\ allocations \in Seq(AllocationRows)
    /\ refunds \in [Refunds -> [Sources -> Nat]]
    /\ closed \subseteq Closable /\ waiting \subseteq Sources

\* The money of a source is applied, refunded or available, and never twice; an
\* invoice is never settled beyond its amount, nor an application released beyond
\* its own.  Collected, withheld and credited tax never exceed the tax of a line that
\* clients remit, whatever is released, reversed and applied again.
NoOverApplication ==
    /\ \A s \in Range(sources) : source_available(s, Today) >= 0
    /\ \A i \in Invoices : status[i] = "POSTED" => invoice_due(i, Today) >= 0
    /\ \A n \in DOMAIN allocations : allocations[n].release_of = 0 => Active(n) >= 0
    /\ \A i \in Invoices : \A k \in LinesOf(i) :
           Line(i, k).policy = "CLIENT_REMITTANCE"
               => RemainingTax(i, k) >= 0 /\ tax_collected(i, k) >= 0

\* The two accounts of the same money agree: the balance of the client's movements
\* is what the invoices are still due less what the client's sources still hold.
Reconciled ==
    Balance = SumFunctionOnSet([i \in Invoices |-> invoice_due(i, Today)],
                               {i \in Invoices : status[i] = "POSTED"})
              - SumFunctionOnSet([s \in Sources |-> source_available(s, Today)], Range(sources))

\* A reversed receipt or withholding settles nothing: not even an allocation that had
\* read it as posted and was waiting for the book gives it back a share of an invoice.
ReversedSettlesNothing ==
    \A n \in DOMAIN allocations :
        allocations[n].release_of = 0 /\ status[allocations[n].source] = "REVERSED"
            => Active(n) = 0

\* Once every period up to a date is closed, no operation changes what the client's
\* statement says as of that date: the balance, the invoices and the sources.
Frozen(day) == \A d \in 1 .. day : d \in closed
ClosedHistoryFixed ==
    [][\A day \in AccountingDates : Frozen(day) =>
           /\ BalanceAsOf(day)' = BalanceAsOf(day)
           /\ \A i \in Invoices : invoice_due(i, day)' = invoice_due(i, day)
           /\ \A s \in Range(sources) : source_available(s, day)' = source_available(s, day)
      ]_settlementVars

-----------------------------------------------------------------------------
(* Why: the entries of a record say its status, and the balance is what the posted *)
(* records make of it;                                                             *)

EntriesFit ==
    \A r \in FinancialRecords :
        /\ \A e, f \in entries : e.record = r /\ f.record = r /\ e.event = f.event => e = f
        /\ (\E e \in entries : e.record = r /\ e.event = "POST") <=> status[r] # "APPROVED"
        /\ ReversedBy(r, Today) <=> status[r] = "REVERSED"

Net(r) ==
    IF status[r] # "POSTED" THEN 0 ELSE IF r \in Sources THEN -Value(r) ELSE Value(r)

MovementsFit ==
    /\ IsFiniteSet(movements)
    /\ \A m \in movements :
           /\ status[m.source] # "APPROVED"
           /\ m.kind = "REVERSAL" => status[m.source] = "REVERSED"
    /\ Balance = SumFunctionOnSet([r \in FinancialRecords |-> Net(r)], FinancialRecords)

\* the sources are those of the records that were posted, only these are allocated
\* from, and only they and refunds are ever reversed;
SourcesFit ==
    /\ Range(sources) = {s \in Sources : status[s] # "APPROVED"}
    /\ \A s \in waiting : status[s] # "APPROVED"
    /\ \A r \in Invoices \cup Credits : status[r] # "REVERSED"

\* an allocation is between posted records, and a release repeats its application;
AllocationsFit ==
    \A n \in DOMAIN allocations :
        LET row == allocations[n]
            of == allocations[row.release_of]
        IN /\ status[row.source] # "APPROVED" /\ status[row.invoice] = "POSTED"
           /\ \A j, k \in DOMAIN row.taxes : j # k => row.taxes[j].line # row.taxes[k].line
           /\ row.release_of # 0 =>
                  /\ row.release_of \in DOMAIN allocations /\ of.release_of = 0
                  /\ of.source = row.source /\ of.invoice = row.invoice
                  /\ DOMAIN of.taxes = DOMAIN row.taxes
                  /\ \A k \in DOMAIN row.taxes : of.taxes[k].line = row.taxes[k].line

\* no tax row gives back more than it has;
TaxesFit ==
    \A n \in DOMAIN allocations : allocations[n].release_of = 0 =>
        \A k \in DOMAIN allocations[n].taxes : Capacity(n, k) >= 0

\* and a posted refund takes its amount from sources that stand.
RefundsFit ==
    \A p \in Refunds :
        /\ \A s \in Sources : refunds[p][s] > 0 =>
               /\ status[p] # "APPROVED" /\ s \in Range(sources)
               /\ status[p] = "POSTED" => status[s] # "REVERSED"
        /\ status[p] # "APPROVED" => SumFunctionOnSet(refunds[p], Sources) = Value(p)

SettlementInvariant ==
    /\ SettlementTypeOK /\ EntriesFit /\ MovementsFit /\ SourcesFit
    /\ AllocationsFit /\ TaxesFit /\ RefundsFit
    /\ NoOverApplication /\ ReversedSettlesNothing

\* The last release of an application, on which a reversal depends, gives back exactly
\* the tax that is left: "partial releases are proportional, rounded once with final
\* remainder preserved" (settlement.py:251-252).
FinalReleaseApportioned ==
    \A n \in DOMAIN allocations :
        allocations[n].release_of = 0 /\ Active(n) > 0 => Apportioned(n, Active(n))
=============================================================================
