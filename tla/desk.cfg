SPECIFICATION DeskSpec
CONSTANTS
    ustadz = ustadz
    penerima = penerima
    Users <- MCUsers
    Deposit <- MCDeposit
    Fee <- MCFee
    Minimum <- MCMinimum
    Amounts <- MCAmounts
    Changes <- MCChanges
    Payouts = {k1, k2}
    Adjustments = {a1}
    Requests = {r1, r2}
    Nobody = Nobody
    Nothing = Nothing
    MaxInFlight = 2
    MaxDrops = 1
INVARIANTS PayoutsAreDebited RejectedIsReturned AppliedIsAccepted MoneyIsConserved
PROPERTIES ReturnedIsNotTransferred
SYMMETRY Alike
CHECK_DEADLOCK FALSE
