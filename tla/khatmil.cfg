SPECIFICATION Spec
CONSTANTS
    Users = {u1, u2, u3}
    Rows = {a1, a2}
    Juz <- MCJuz
    Ayat <- MCAyat
    Positions <- MCPositions
    MaxGroups = 2
    GroupSize = 1
    Quota = 1
    Requests = {r1, r2}
    Nobody = Nobody
INVARIANTS OneHolder CompletedIsReadToEnd QuotaOvershot
PROPERTIES NeverHandedOver KeepsRegister
SYMMETRY Alike
CHECK_DEADLOCK FALSE
