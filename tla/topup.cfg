SPECIFICATION Spec
CONSTANTS
    santri = santri
    Users <- MCUsers
    By <- MCBy
    Amount = 3
    Price = 5
    TopUps = {t1, t2}
    Requests = {r1, r2}
    Worker = worker
    Nothing = Nothing
    Events = {"PAID", "EXPIRED", "TOPUP_PAID", "TOPUP_EXPIRED"}
    MaxInFlight = 2
    MaxDrops = 1
INVARIANTS CreditedOnce
SYMMETRY Alike
CHECK_DEADLOCK FALSE
