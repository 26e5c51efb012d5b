SPECIFICATION Spec
CONSTANTS
    Visits = {v1}
    santri = santri
    ustadz = ustadz
    Users <- MCUsers
    Owner <- MCOwner
    UstadzOf <- MCUstadz
    Price = 5
    Payees <- MCPayees
    Deposit <- MCDeposit
    Requests = {r1, r2}
    Worker = worker
    Invoices = {i1}
    NoVisit = NoVisit
    NoInvoice = NoInvoice
    MaxInFlight = 3
    MaxDrops = 1
INVARIANTS IInv ServedIsFunded CreditsAreFunded EarnedIsOver DeclinedIsReturned
PROPERTIES PaymentDecidedOnce KeepsPromise
SYMMETRY RequestsAlike
CHECK_DEADLOCK FALSE
