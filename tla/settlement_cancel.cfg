SPECIFICATION Spec
CONSTANTS
    Visits = {v1, v2}
    santri = santri
    ustadz = ustadz
    Users <- MCUsers
    Owner <- MCOwner
    UstadzOf <- MCUstadz
    Price = 5
    Payees <- MCPayees
    Deposit <- MCDeposit
    Requests = {r1}
    Worker = worker
    Invoices = {i1}
    NoVisit = NoVisit
    NoInvoice = NoInvoice
    MaxInFlight = 1
    MaxDrops = 0
PROPERTIES SantriLeavesConfirmed
CHECK_DEADLOCK FALSE
