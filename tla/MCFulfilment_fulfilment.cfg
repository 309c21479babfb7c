\* One unit of an item, ordered once from the client, tried with two suppliers
\* and shared by two invoices.
SPECIFICATION Spec
CONSTANTS
    ItemQuantity = 1
    Suppliers = {s1, s2}
    Quantities = {1, 2}
    BillQuantities = {1, 2}
    MaxOrders = 1
    MaxAttempts = 2
    MaxRows = 2
    MaxActions = 2
    Waybills = {FALSE}
    MaxInvoices = 2
    MaxPostings = 2
SYMMETRY Symmetry
INVARIANTS
    OrderLineKept
    NothingRemainsNothingOpen
    RevenueEarned
PROPERTIES
    KeepsBalance
CHECK_DEADLOCK FALSE
