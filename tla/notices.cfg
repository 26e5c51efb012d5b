SPECIFICATION NoticesFairSpec
CONSTANTS
    u1 = u1
    u2 = u2
    d1 = d1
    d2 = d2
    visit1 = visit1
    visit12 = visit12
    group1 = group1
    juz1 = juz1
    Users = {u1, u2}
    Admins = {u1}
    Workers = {w1, w2}
    Ustadz = {u1, u2}
    Nobody = Nobody
    Phones = {d1, d2}
    NoPhone = NoPhone
    Registered <- MCRegistered
    Notes <- MCNotes
    Subjects <- MCSubjects
    BatchSize = 2
    MaxAttempts = 2
    MaxDeaths = 1
    Groups = {group1}
    Asked <- MCAsked
    Visits = {visit1, visit12}
    Santri <- MCSantri
    Leader <- MCLeader
    Mentions <- MCMentions
    Juz = {juz1}
    Reader <- MCReader
    Nothing = Nothing
    Requests = {r1, r2}
    MaxBegun = 2
INVARIANTS PushedOnce PembinaHasAgreed RemindedOnce
PROPERTIES EveryNoteLeaves
CHECK_DEADLOCK FALSE
