SPECIFICATION FairSpec
CONSTANTS
    Visits = {v1}
    santri = santri
    ustadz = ustadz
    Users <- MCUsers
    Owner <- MCOwner
    UstadzOf <- MCUstadz
    Price = 5
    Payees <- MCPayees
    Deposit <- MCDeposit
    Requests = {r1}
    Worker = worker
    Invoices = {i1}
    NoVisit = NoVisit
    NoInvoice = NoInvoice
    MaxInFlight = 2
    MaxDrops = 0
PROPERTIES WaitingIsResolved 
CHECK_DEADLOCK FALSE
