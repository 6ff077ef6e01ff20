SPECIFICATION Spec
CONSTANTS
    Pos = {p1}
    Invoices = {i1, i2}
    Notes = {n1}
    c1 = c1
    c2 = c2
    Clerks = {c1}
    Serves <- OneDesk
    Totals = {2, 3}
    SubTotals = {1}
    Amounts = {1, 2}
    TdsAmounts = {1}
    Tax = 1
    NoPo = NoPo
    NoInvoice = NoInvoice
    Idle = Idle
SYMMETRY Symmetric
INVARIANTS TypeOK ConsumedIsInvoiced PoStatusAgrees PaidMatchesReceipts 
PROPERTIES  CancelledIsFinal
CHECK_DEADLOCK FALSE
