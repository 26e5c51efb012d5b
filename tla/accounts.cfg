SPECIFICATION Spec
CONSTANTS
    Owners = {u1}
    Users = {u1}
    Files = {f1}
    Uploads = {m1, m2}
    NoOwner = Nobody
    Nobody = Nobody
    NoFile = NoFile
    Contacts = {c1}
    NoContact = NoContact
    Sessions = {s1, s2, s3}
    Tokens = {t1}
    NoSession = NoSession
    NoToken = NoToken
    Requests = {r1, r2}
    MaxInFlight = 2
    MaxBegun = 4
    MaxDrops = 1
INVARIANTS OldSessionsEnd DeletedStaysBare ReadyIsKept
SYMMETRY Alike
CHECK_DEADLOCK FALSE
