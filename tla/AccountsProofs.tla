---------------------------- MODULE AccountsProofs ----------------------------
(***************************************************************************)
(* Accounts and the uploads of their owners, for any number of users,      *)
(* sessions, tokens, files and requests: old sessions end with their       *)
(* password, a deleted account stays bare, a settled file is kept.         *)
(*                                                                         *)
(* A change of password ends the sessions in a later statement, and a      *)
(* refresh opens one in a later statement too.  What makes the two meet    *)
(* well is that the end of the sessions reaches every session there is,    *)
(* and is seen by every request of the user under way (Kept).              *)
(***************************************************************************)
EXTENDS Accounts, TLAPS

\* A session that was opened keeps its user and password, and becomes valid no
\* more.
SessionKept(s) ==
    /\ session'[s].user = session[s].user /\ session'[s].pw = session[s].pw
    /\ (session'[s].state = "none") <=> (session[s].state = "none")
    /\ session[s].state = "none" => session'[s] = session[s]
    /\ session[s].excused => session'[s].excused
    /\ session'[s].state = "valid" => session[s].state = "valid"

\* A row becomes a session.
SessionOpened(s) ==
    /\ session[s].state = "none" /\ session'[s].state = "valid"
    /\ session'[s].excused \in BOOLEAN
    /\ session'[s].user \in Users /\ account'[session'[s].user].status # "NONE"
    /\ \A u \in Users : session'[s].user = u /\ session'[s].pw < account'[u].pw =>
          session'[s].excused \/ Ended(u)'

\* The other requests go on as they are, or are told that sessions ended.
OthersKept(p) ==
    \A q \in Requests \ {p} : req'[q] = req[q] \/ req'[q] = [req[q] EXCEPT !.over = TRUE]

\* The sessions of u are ended, and its requests but p know.
Swept(p, u) ==
    /\ \A s \in Sessions : session[s].user = u => session'[s].state # "valid" \/ session'[s].excused
    /\ \A q \in Requests \ {p} : req[q].user = u => req'[q].over

\* An account stays an account.  With a new password the sessions of the old one
\* are ended, or about to be; and what is about to be done is done.
AccountsKept(p) ==
    \A u \in Users :
        /\ account[u].status # "NONE" => account'[u].status # "NONE"
        /\ Ended(u) \/ (account[u].status # "NONE" /\ account'[u].pw # account[u].pw) =>
              Ended(u)' \/ Swept(p, u)

\* Nothing is put on a deleted account, and no request that would is begun.
DeletedKept(p) ==
    \A u \in Users : account'[u].status = "DELETED" /\ u \notin raced' =>
        /\ account[u].status = "DELETED" /\ u \notin raced
        /\ account'[u].contact = account[u].contact /\ account'[u].photo = account[u].photo
        /\ account'[u].profile = account[u].profile
        /\ u \in devices' => u \in devices
        /\ \A s \in Sessions : SessionOpened(s) => session'[s].user # u
        /\ p \in Requests /\ req'[p].user = u => req'[p].at \in Harmless

TokensKept ==
    \A t \in Tokens : token'[t].state = "open" =>
        token'[t].user \in Users

Assumed == MediaAssumption /\ AccountsAssumption

-----------------------------------------------------------------------------
(* Uploads *)

\* The files take no notice of the accounts.
LEMMA MediaSame ==
    ASSUME MediaTypeOK, MediaKnows, UNCHANGED mediaVars
    PROVE  MediaTypeOK' /\ MediaKnows'
  BY DEF MediaTypeOK, MediaKnows, ReadyIsKept, mediaVars

\* Every step of the uploads keeps the settled files.
LEMMA MediaStep ==
    ASSUME MediaAssumption, MediaTypeOK, MediaKnows,
           \/ MediaNext
           \/ \E u \in Owners, f \in Files : \/ create_upload(u, f)
                                             \/ \E p \in Uploads : BeginComplete(p, u, f)
    PROVE  MediaTypeOK' /\ MediaKnows'
PROOF
  <1> USE DEF MediaTypeOK, MediaKnows, ReadyIsKept, Completion, NoUpload, Upload, Uploaded,
              SetMedia, MediaState, Object
  <1>1. ASSUME NEW u \in Owners, NEW f \in Files, create_upload(u, f)
        PROVE  MediaTypeOK' /\ MediaKnows'
    BY <1>1 DEF create_upload
  <1>2. ASSUME NEW u \in Owners, NEW f \in Files, NEW p \in Uploads, BeginComplete(p, u, f)
        PROVE  MediaTypeOK' /\ MediaKnows'
    BY <1>2 DEF BeginComplete
  <1>3. ASSUME NEW f \in Files, NEW o \in Object \ {"none"},
               PutObject(f, o) \/ DayPasses(f) \/ DeleteObject(f) \/ FailOrphan(f)
        PROVE  MediaTypeOK' /\ MediaKnows'
    <2>1. CASE PutObject(f, o)
      BY <2>1 DEF PutObject
    <2>2. CASE DayPasses(f)
      BY <2>2 DEF DayPasses
    <2>3. CASE DeleteObject(f)
      BY <2>3 DEF DeleteObject
    <2>4. CASE FailOrphan(f)
      BY <2>4 DEF FailOrphan
    <2> QED BY <1>3, <2>1, <2>2, <2>3, <2>4
  <1>4. ASSUME NEW p \in Uploads, HeadObject(p) \/ FirstBytes(p) \/ MarkReady(p) \/ MarkFailed(p)
        PROVE  MediaTypeOK' /\ MediaKnows'
    <2>1. CASE HeadObject(p)
      BY <2>1 DEF HeadObject
    <2>2. CASE FirstBytes(p)
      BY <2>2 DEF FirstBytes
    <2>3. CASE MarkReady(p)
      BY <2>3, MediaAssumption DEF MarkReady, AtFile, MediaAssumption
    <2>4. CASE MarkFailed(p)
      BY <2>4, MediaAssumption DEF MarkFailed, MediaAssumption
    <2> QED BY <1>4, <2>1, <2>2, <2>3, <2>4
  <1>5. ASSUME SelectOrphans \/ CleanupDies PROVE MediaTypeOK' /\ MediaKnows'
    BY <1>5 DEF SelectOrphans, CleanupDies
  <1>6. ASSUME NEW p \in Uploads, CompleteFails(p) PROVE MediaTypeOK' /\ MediaKnows'
    BY <1>6, MediaAssumption DEF CompleteFails, MediaAssumption
  <1> QED BY <1>1, <1>2, <1>3, <1>4, <1>5, <1>6 DEF MediaNext

-----------------------------------------------------------------------------
(* What a step of the accounts must keep *)

LEMMA Kept ==
    ASSUME Assumed, IInv, TypeOK', UNCHANGED mediaVars, NEW p,
           AccountsKept(p), \A s \in Sessions : SessionKept(s) \/ SessionOpened(s),
           OthersKept(p), DeletedKept(p) \/ (DeletedStaysBare /\ DeletedKnows)', TokensKept,
           p \in Requests => RequestKnows(p)'
    PROVE  IInv'
PROOF
  <1>1. MediaKnows'
    BY MediaSame DEF IInv, TypeOK
  <1>2. RowsKnow'
    <2>1. ASSUME NEW s \in Sessions
          PROVE  IF session'[s].state = "none" THEN session'[s] = Closed
                 ELSE session'[s].user \in Users /\ account'[session'[s].user].status # "NONE"
      BY DEF IInv, RowsKnow, SessionKept, SessionOpened, AccountsKept
    <2> QED BY <2>1 DEF RowsKnow, TokensKept, Closed
  <1>3. ASSUME NEW q \in Requests PROVE RequestKnows(q)'
    <2>1. CASE q = p
      BY <2>1
    <2>2. CASE q # p
      <3>1. RequestKnows(q)
        BY DEF IInv
      <3>2. /\ req'[q].at = req[q].at /\ req'[q].user = req[q].user /\ req'[q].pw = req[q].pw
            /\ req'[q].session = req[q].session /\ (req[q].over => req'[q].over)
        BY <2>2 DEF OthersKept, IInv, TypeOK, Request
      <3>3. CASE req[q].at = "idle"
        BY <3>2, <3>3 DEF RequestKnows
      <3>4. CASE req[q].at # "idle"
        <4>1. PICK u \in Users : req[q].user = u
          BY <3>1, <3>4 DEF RequestKnows
        <4>2. req[q].session \in Sessions \cup {NoSession}
          BY DEF IInv, TypeOK, Request
        <4>3. ASSUME NEW s \in Sessions
              PROVE  /\ session[s].state # "none" => session'[s].state # "none"
                     /\ session[s].excused => session'[s].excused
          BY DEF SessionKept, SessionOpened, IInv, RowsKnow, Closed
        <4>4. Ended(u) => Ended(u)' \/ req'[q].over
          BY <2>2, <4>1 DEF AccountsKept, Swept
        <4>5. account[u].status # "NONE" =>
                 /\ account'[u].status # "NONE"
                 /\ account'[u].pw = account[u].pw \/ Ended(u)' \/ req'[q].over
          BY <2>2, <4>1 DEF AccountsKept, Swept
        <4>6. /\ req[q].at = "rotate" => req[q].session \in Sessions /\ session[req[q].session].state # "none"
              /\ req[q].at \in {"rotate", "openSession"} =>
                    /\ account[u].status # "NONE"
                    /\ req[q].pw < account[u].pw =>
                          \/ req[q].over \/ Ended(u)
                          \/ (req[q].session # NoSession /\ session[req[q].session].excused)
          BY <3>1, <4>1 DEF RequestKnows
        <4>7. /\ req'[q].at = "rotate" => req'[q].session \in Sessions /\ session'[req'[q].session].state # "none"
              /\ req'[q].at \in {"rotate", "openSession"} =>
                    /\ account'[u].status # "NONE"
                    /\ req'[q].pw < account'[u].pw =>
                          \/ req'[q].over \/ Ended(u)'
                          \/ (req'[q].session # NoSession /\ session'[req'[q].session].excused)
          BY <3>2, <4>2, <4>3, <4>4, <4>5, <4>6
        <4> QED BY <3>2, <4>1, <4>7 DEF RequestKnows
      <3> QED BY <3>3, <3>4
    <2> QED BY <2>1, <2>2
  <1>4. OldSessionsEnd'
    <2> SUFFICES ASSUME NEW s \in Sessions, session'[s].state = "valid",
                        NEW u \in Users, session'[s].user = u, session'[s].pw < account'[u].pw
                 PROVE  session'[s].excused \/ Ended(u)'
      <3>1. ASSUME NEW s \in Sessions, session'[s].state = "valid" PROVE session'[s].user \in Users
        BY <1>2, <3>1 DEF RowsKnow
      <3> QED BY <3>1 DEF OldSessionsEnd, Ended, Ending
    <2>1. CASE SessionOpened(s)
      BY <2>1 DEF SessionOpened
    <2>2. CASE SessionKept(s)
      <3>1. session[s].user = u /\ session'[s].pw = session[s].pw /\ session[s].state = "valid"
        BY <2>2 DEF SessionKept
      <3>2. account[u].status # "NONE"
        BY <3>1 DEF IInv, RowsKnow
      <3>3. account'[u].pw = account[u].pw \/ Ended(u)' \/ session'[s].excused
        BY <3>1, <3>2 DEF AccountsKept, Swept
      <3>4. session[s].pw < account[u].pw => session[s].excused \/ Ended(u)
        BY <3>1 DEF IInv, OldSessionsEnd, Ended, Ending
      <3>5. session[s].excused => session'[s].excused
        BY <2>2 DEF SessionKept
      <3>6. Ended(u) => Ended(u)' \/ session'[s].excused
        BY <3>1 DEF AccountsKept, Swept
      <3> QED BY <3>1, <3>3, <3>4, <3>5, <3>6
    <2> QED BY <2>1, <2>2
  <1>5. CASE DeletedKept(p)
    <2> SUFFICES DeletedStaysBare' /\ DeletedKnows'
      BY <1>1, <1>2, <1>3, <1>4 DEF IInv
    <2> SUFFICES ASSUME NEW u \in Users, account'[u].status = "DELETED", u \notin raced'
                 PROVE  /\ account'[u].contact = NoContact /\ account'[u].photo = NoFile
                        /\ account'[u].profile # "own" /\ u \notin devices'
                        /\ \A s \in Sessions : session'[s].user = u => session'[s].state # "valid"
                        /\ \A q \in Requests : req'[q].user = u => req'[q].at \in Harmless
      BY DEF DeletedStaysBare, DeletedKnows
    <2>1. account[u].status = "DELETED" /\ u \notin raced
      BY <1>5 DEF DeletedKept
    <2>2. /\ account'[u].contact = NoContact /\ account'[u].photo = NoFile
          /\ account'[u].profile # "own" /\ u \notin devices'
      BY <1>5, <2>1 DEF DeletedKept, IInv, DeletedStaysBare
    <2>3. ASSUME NEW s \in Sessions, session'[s].user = u PROVE session'[s].state # "valid"
      <3>1. CASE SessionOpened(s)
        BY <1>5, <2>3, <3>1 DEF DeletedKept
      <3>2. CASE SessionKept(s)
        BY <2>1, <2>3, <3>2 DEF SessionKept, IInv, DeletedStaysBare
      <3> QED BY <3>1, <3>2
    <2>4. ASSUME NEW q \in Requests, req'[q].user = u PROVE req'[q].at \in Harmless
      <3>1. CASE q = p
        BY <1>5, <2>4, <3>1 DEF DeletedKept
      <3>2. CASE q # p
        <4>1. req'[q].at = req[q].at /\ req'[q].user = req[q].user
          BY <3>2 DEF OthersKept, IInv, TypeOK, Request
        <4> QED BY <2>1, <2>4, <4>1 DEF IInv, DeletedKnows
      <3> QED BY <3>1, <3>2
    <2> QED BY <2>2, <2>3, <2>4
  <1> QED BY <1>1, <1>2, <1>3, <1>4, <1>5 DEF IInv

\* What a request may rely on, of a request r that is about to be one's next.
Knows(r) ==
    /\ r.at # "idle" => r.user \in Users
    /\ r.at = "rotate" => r.session \in Sessions /\ session[r.session].state # "none"
    /\ r.at \in {"rotate", "openSession"} =>
          /\ account[r.user].status # "NONE"
          /\ r.pw < account[r.user].pw =>
                \/ r.over \/ Ended(r.user)
                \/ (r.session # NoSession /\ session[r.session].excused)

\* Requests are typed, and so are the new ones.
LEMMA Moves ==
    ASSUME IInv, NEW p \in Requests, NEW r \in Request, req' = [req EXCEPT ![p] = r]
    PROVE  /\ req' \in [Requests -> Request] /\ req'[p] = r
           /\ \A q \in Requests \ {p} : req'[q] = req[q]
  BY DEF IInv, TypeOK

\* The idle request.
LEMMA IdleIsRequest == Idle \in Request /\ Idle.at = "idle" /\ Idle.user = Nobody
  BY DEF Idle, Request, Steps, Purpose

\* A step of p that ends no sessions leaves the sessions that are being ended so.
LEMMA EndingGoesOn ==
    ASSUME IInv, NEW p \in Requests, NEW r \in Request, req' = [req EXCEPT ![p] = r],
           broken \subseteq broken',
           req[p].at \in Ending => req[p].user \in broken'
    PROVE  \A u \in Users : Ended(u) => Ended(u)'
PROOF
  <1> SUFFICES ASSUME NEW u \in Users, u \notin broken', NEW q \in Requests,
                      req[q].user = u, req[q].at \in Ending
               PROVE  \E i \in Requests : req'[i].user = u /\ req'[i].at \in Ending
    BY DEF Ended
  <1>1. q # p
    OBVIOUS
  <1> QED BY <1>1, Moves

\* A step that leaves accounts and sessions alone.
LEMMA QuietStep ==
    ASSUME Assumed, IInv, UNCHANGED <<mediaVars, account, session, raced>>,
           NEW p \in Requests, NEW r \in Request, req' = [req EXCEPT ![p] = r], Knows(r),
           broken \subseteq broken', broken' \subseteq Users,
           req[p].at \in Ending => req[p].user \in broken',
           token' \in [Tokens -> [state : {"none", "open", "used"}, user : Users \cup {Nobody},
                                  purpose : Purpose]],
           TokensKept, devices' \subseteq Users, begun' \in Nat, drops' \in Nat,
           \A u \in Users : account[u].status = "DELETED" /\ u \notin raced =>
              /\ u \in devices' => u \in devices
              /\ r.user = u => r.at \in Harmless
    PROVE  IInv'
PROOF
  <1>1. /\ req' \in [Requests -> Request] /\ req'[p] = r
        /\ \A q \in Requests \ {p} : req'[q] = req[q]
    BY Moves
  <1>2. \A u \in Users : Ended(u) => Ended(u)'
    BY EndingGoesOn
  <1>3. MediaTypeOK'
    BY MediaSame DEF IInv, TypeOK
  <1>4. TypeOK'
    BY <1>1, <1>3 DEF IInv, TypeOK
  <1>5. AccountsKept(p)
    BY <1>2 DEF AccountsKept
  <1>6. ASSUME NEW s \in Sessions PROVE SessionKept(s) /\ ~SessionOpened(s)
    BY <1>2 DEF SessionKept, SessionOpened
  <1>7. OthersKept(p)
    BY <1>1, <1>2 DEF OthersKept
  <1>8. DeletedKept(p)
    BY <1>1, <1>6 DEF DeletedKept
  <1>9. RequestKnows(p)'
    BY <1>1, <1>2 DEF Knows, RequestKnows
  <1> QED BY <1>4, <1>5, <1>6, <1>7, <1>8, <1>9, Kept

\* A step that changes one account, and no session.
LEMMA AccountStep ==
    ASSUME Assumed, IInv, UNCHANGED <<mediaVars, session, token, devices, broken, raced, drops>>,
           begun' \in Nat,
           NEW p \in Requests, NEW r \in Request, req' = [req EXCEPT ![p] = r],
           req[p].at \notin Ending, r.at \notin {"rotate", "openSession"},
           r.at # "idle" => r.user \in Users,
           NEW u \in Users, NEW a, account' = [account EXCEPT ![u] = a],
           a \in [status : Status, contact : Contacts \cup {NoContact}, pw : Nat,
                  known : BOOLEAN, profile : {"none", "own", "deleted"}, photo : Files \cup {NoFile}],
           account[u].status # "NONE" => a.status # "NONE" /\ (a.pw = account[u].pw \/ (r.user = u /\ r.at \in Ending)),
           a.status = "DELETED" /\ u \notin raced =>
               /\ account[u].status = "DELETED"
               /\ a.contact = account[u].contact /\ a.photo = account[u].photo
               /\ a.profile = account[u].profile,
           \A v \in Users : account[v].status = "DELETED" /\ v \notin raced /\ r.user = v => r.at \in Harmless
    PROVE  IInv'
PROOF
  <1>1. /\ req' \in [Requests -> Request] /\ req'[p] = r
        /\ \A q \in Requests \ {p} : req'[q] = req[q]
    BY Moves
  <1>2. \A v \in Users : Ended(v) => Ended(v)'
    BY EndingGoesOn
  <1>3. MediaTypeOK'
    BY MediaSame DEF IInv, TypeOK
  <1>4. account'[u] = a /\ \A v \in Users \ {u} : account'[v] = account[v]
    BY DEF IInv, TypeOK
  <1>5. TypeOK'
    BY <1>1, <1>3 DEF IInv, TypeOK
  <1>6. AccountsKept(p)
    <2> SUFFICES ASSUME NEW v \in Users, account[v].status # "NONE"
                 PROVE  account'[v].status # "NONE" /\ (account'[v].pw = account[v].pw \/ Ended(v)')
      BY <1>2 DEF AccountsKept
    <2>1. r.user = u /\ r.at \in Ending => Ended(u)'
      BY <1>1 DEF Ended
    <2> QED BY <1>4, <2>1
  <1>7. ASSUME NEW s \in Sessions PROVE SessionKept(s) /\ ~SessionOpened(s)
    BY <1>2 DEF SessionKept, SessionOpened
  <1>8. OthersKept(p)
    BY <1>1, <1>2 DEF OthersKept
  <1>9. DeletedKept(p)
    <2> SUFFICES ASSUME NEW v \in Users, account'[v].status = "DELETED", v \notin raced
                 PROVE  /\ account[v].status = "DELETED"
                        /\ account'[v].contact = account[v].contact /\ account'[v].photo = account[v].photo
                        /\ account'[v].profile = account[v].profile
                        /\ (req'[p].user = v => req'[p].at \in Harmless)
      BY <1>7 DEF DeletedKept
    <2>1. CASE v = u
      BY <1>1, <1>4, <2>1
    <2>2. CASE v # u
      BY <1>1, <1>4, <2>2
    <2> QED BY <2>1, <2>2
  <1>10. RequestKnows(p)'
    BY <1>1 DEF RequestKnows
  <1>11. TokensKept
    BY DEF TokensKept, IInv, RowsKnow
  <1> QED BY <1>5, <1>6, <1>7, <1>8, <1>9, <1>10, <1>11, Kept

-----------------------------------------------------------------------------
(* Requests begin *)

\* A request that begins holds nothing yet but what it has just read.
LEMMA BeginStep ==
    ASSUME Assumed, IInv, NEW p \in Requests, NEW r \in Request, Begin(p, r), Knows(r),
           account[r.user].status = "DELETED" /\ r.user \notin raced => r.at \in Harmless
    PROVE  IInv'
PROOF
  <1>1. /\ req' = [req EXCEPT ![p] = r] /\ req[p].at = "idle" /\ begun' \in Nat /\ drops' \in Nat
        /\ UNCHANGED <<mediaVars, account, session, token, devices, broken, raced>>
    BY DEF Begin, MayBegin, IInv, TypeOK, Idle
  <1>2. TokensKept /\ broken' \subseteq Users /\ devices' = devices /\ devices \subseteq Users
    BY <1>1 DEF TokensKept, IInv, RowsKnow, TypeOK
  <1>3. token' \in [Tokens -> [state : {"none", "open", "used"}, user : Users \cup {Nobody}, purpose : Purpose]]
    BY <1>1 DEF IInv, TypeOK
  <1>4. \A u \in Users : account[u].status = "DELETED" /\ u \notin raced /\ r.user = u => r.at \in Harmless
    OBVIOUS
  <1>5. req[p].at \notin Ending
    BY <1>1 DEF Ending
  <1> QED BY <1>1, <1>2, <1>3, <1>4, <1>5, QuietStep

\* The requests that begin with an account.
LEMMA AccountBegins ==
    ASSUME Assumed, IInv, NEW p \in Requests, NEW u \in Users,
           \/ \E c \in Contacts : BeginRegister(p, u, c)
           \/ forgot_password(p, u) \/ resend_verification(p, u) \/ BeginLogin(p, u) \/ logout_all(p, u)
           \/ BeginPatchPassword(p, u) \/ BeginDeleteMe(p, u) \/ BeginRegisterDevice(p, u)
    PROVE  IInv'
PROOF
  <1> USE DEF Task, Idle, Request, Steps, Purpose, Harmless, Ending, Knows
  <1>1. ASSUME NEW c \in Contacts, BeginRegister(p, u, c) PROVE IInv'
    BY <1>1, BeginStep DEF BeginRegister
  <1>3. CASE forgot_password(p, u)
    <2>1. account[u].status # "DELETED" \/ u \in raced
      BY <1>3 DEF forgot_password, IInv, DeletedStaysBare
    <2> QED BY <1>3, <2>1, BeginStep DEF forgot_password
  <1>4. CASE resend_verification(p, u)
    BY <1>4, BeginStep DEF resend_verification, CurrentUser
  <1>5. CASE BeginLogin(p, u)
    <2>1. account[u].pw \in Nat /\ ~(account[u].pw < account[u].pw) /\ account[u].status = "ACTIVE"
      BY <1>5 DEF BeginLogin, IInv, TypeOK
    <2> DEFINE r == [Task("openSession", u) EXCEPT !.pw = account[u].pw]
    <2>2. /\ r.at = "openSession" /\ r.user = u /\ r.pw = account[u].pw
          /\ r \in Request /\ Begin(p, r)
      BY <1>5, <2>1 DEF BeginLogin
    <2> HIDE DEF r
    <2> QED BY <2>1, <2>2, BeginStep
  <1>6. CASE logout_all(p, u)
    BY <1>6, BeginStep DEF logout_all
  <1>7. CASE BeginPatchPassword(p, u)
    BY <1>7, BeginStep DEF BeginPatchPassword
  <1>8. CASE BeginDeleteMe(p, u)
    BY <1>8, BeginStep DEF BeginDeleteMe, require_active
  <1>9. CASE BeginRegisterDevice(p, u)
    BY <1>9, BeginStep DEF BeginRegisterDevice, require_active
  <1> QED BY <1>1, <1>3, <1>4, <1>5, <1>6, <1>7, <1>8, <1>9

\* A change of the profile begins.
LEMMA PatchMeBegins ==
    ASSUME Assumed, IInv, NEW p \in Requests, NEW u \in Users,
           NEW f \in Files \cup {NoFile}, NEW k \in Contacts \cup {NoContact}, BeginPatchMe(p, u, f, k)
    PROVE  IInv'
  BY BeginStep DEF BeginPatchMe, require_active, Task, Idle, Request, Steps, Purpose, Harmless, Ending, Knows

\* The requests that begin with a session or a token.
LEMMA RowBegins ==
    ASSUME Assumed, IInv, NEW p \in Requests,
           \/ \E t \in Tokens, purpose \in Purpose : BeginConsume(p, t, purpose)
           \/ \E s \in Sessions : BeginRefresh(p, s) \/ BeginChange(p, s)
    PROVE  IInv'
PROOF
  <1> USE DEF Task, Idle, Request, Steps, Purpose, Harmless, Ending, Knows
  <1>1. ASSUME NEW t \in Tokens, NEW purpose \in Purpose, BeginConsume(p, t, purpose) PROVE IInv'
    <2>1. token[t].user \in Users
      BY <1>1 DEF BeginConsume, IInv, RowsKnow
    <2> QED BY <1>1, <2>1, BeginStep DEF BeginConsume
  <1>2. ASSUME NEW s \in Sessions, BeginRefresh(p, s) PROVE IInv'
    <2>1. /\ session[s].state = "valid" /\ session[s].user \in Users /\ session[s].pw \in Nat
          /\ account[session[s].user].status # "NONE"
      BY <1>2 DEF BeginRefresh, IInv, RowsKnow, TypeOK
    <2>2. session[s].pw < account[session[s].user].pw => session[s].excused \/ Ended(session[s].user)
      BY <2>1 DEF IInv, OldSessionsEnd, Ended
    <2>3. account[session[s].user].status = "DELETED" => session[s].user \in raced
      BY <2>1 DEF IInv, DeletedStaysBare
    <2>4. s # NoSession
      BY DEF Assumed, AccountsAssumption
    <2> QED BY <1>2, <2>1, <2>2, <2>3, <2>4, BeginStep DEF BeginRefresh
  <1>3. ASSUME NEW s \in Sessions, BeginChange(p, s) PROVE IInv'
    <2>1. session[s].user \in Users
      BY <1>3 DEF BeginChange, IInv, RowsKnow
    <2> QED BY <1>3, <2>1, BeginStep DEF BeginChange
  <1> QED BY <1>1, <1>2, <1>3

-----------------------------------------------------------------------------
(* Statements that leave accounts and sessions alone *)

\* A request goes on to a step that asks for nothing, or is done.
LEMMA StepsOn ==
    ASSUME Assumed, IInv, NEW p \in Requests, req[p].at # "idle", NEW step \in Steps,
           step \notin {"rotate", "openSession"}
    PROVE  LET r == [req[p] EXCEPT !.at = step] IN
           r \in Request /\ Knows(r) /\ r.at = step /\ r.user = req[p].user /\ r.user \in Users
PROOF
  <1>1. req[p] \in Request /\ req[p].user \in Users
    BY DEF IInv, TypeOK, RequestKnows
  <1> QED BY <1>1 DEF Request, Knows

\* A request that is done.
LEMMA Ends == Assumed => Idle \in Request /\ Knows(Idle) /\ Idle.at = "idle" /\ Idle.user \notin Users
  BY DEF Idle, Request, Knows, Steps, Purpose, Assumed, AccountsAssumption

\* While a request that is not harmless is under way its user is not deleted, or
\* was deleted under its eyes.
LEMMA NotDeleted ==
    ASSUME IInv, NEW p \in Requests, req[p].at \notin Harmless, NEW u \in Users, u = req[p].user
    PROVE  account[u].status # "DELETED" \/ u \in raced
  BY DEF IInv, DeletedKnows

\* What a quiet statement does to the rows, short of the request.
Rows == /\ UNCHANGED <<mediaVars, account, session, raced, broken>>
        /\ token' \in [Tokens -> [state : {"none", "open", "used"}, user : Users \cup {Nobody},
                                  purpose : Purpose]]
        /\ TokensKept /\ begun' \in Nat /\ drops' \in Nat

\* The statements about tokens by mail.
LEMMA TokenSteps ==
    ASSUME Assumed, IInv, NEW p \in Requests, UseTokens(p) \/ InsertToken(p) \/ UseToken(p)
    PROVE  IInv'
PROOF
  <1>1. /\ req[p] \in Request /\ req[p].user \in Users /\ req[p].at \in {"useTokens", "insertToken", "useToken"}
        /\ UNCHANGED <<mediaVars, account, session, devices, begun, drops, broken, raced>>
    BY DEF UseTokens, InsertToken, UseToken, At, IInv, TypeOK, RequestKnows
  <1>2. req[p].purpose \in Purpose
    BY <1>1 DEF Request
  <1>3. /\ token \in [Tokens -> [state : {"none", "open", "used"}, user : Users \cup {Nobody}, purpose : Purpose]]
        /\ \A t \in Tokens : token[t].state = "open" => token[t].user \in Users
        /\ broken \subseteq Users /\ devices \subseteq Users /\ begun \in Nat /\ drops \in Nat
    BY DEF IInv, TypeOK, RowsKnow
  <1>4. Rows
    <2>1. CASE UseTokens(p)
      BY <1>1, <1>3, <2>1 DEF UseTokens, Rows, TokensKept
    <2>2. CASE InsertToken(p)
      <3>1. PICK t \in Tokens : token' = [token EXCEPT ![t] = [state |-> "open", user |-> req[p].user,
                                                             purpose |-> req[p].purpose]]
        BY <2>2 DEF InsertToken
      <3> QED BY <1>1, <1>2, <1>3, <3>1 DEF Rows, TokensKept
    <2>3. CASE UseToken(p)
      <3>1. token' = [token EXCEPT ![req[p].token].state = "used"]
        BY <2>3 DEF UseToken
      <3>2. \A t \in Tokens : token'[t] = token[t] \/ token'[t] = [token[t] EXCEPT !.state = "used"]
        BY <1>3, <3>1
      <3>3. token' \in [Tokens -> [state : {"none", "open", "used"}, user : Users \cup {Nobody}, purpose : Purpose]]
        BY <1>3, <3>1
      <3>4. TokensKept
        BY <1>3, <3>2 DEF TokensKept
      <3> QED BY <1>1, <1>3, <3>3, <3>4 DEF Rows
    <2> QED BY <2>1, <2>2, <2>3
  <1>5. req[p].at \notin Ending
    BY <1>1 DEF Ending
  <1>6. CASE End(p)
    <2>1. req' = [req EXCEPT ![p] = Idle]
      BY <1>6 DEF End
    <2> QED BY <1>1, <1>3, <1>4, <1>5, <2>1, Ends, QuietStep DEF Rows
  <1>7. ASSUME NEW step \in {"insertToken", "activate", "setPassword"}, Goto(p, step),
               step \notin Harmless => req[p].at \notin Harmless
        PROVE  IInv'
    <2> DEFINE r == [req[p] EXCEPT !.at = step]
    <2>1. req' = [req EXCEPT ![p] = r]
      BY <1>7 DEF Goto
    <2>2. r \in Request /\ Knows(r) /\ r.at = step /\ r.user = req[p].user
      <3>1. req[p].at # "idle" /\ step \in Steps /\ step \notin {"rotate", "openSession"}
        BY <1>1 DEF Steps
      <3> QED BY <3>1, StepsOn
    <2> HIDE DEF r
    <2>3. \A u \in Users : account[u].status = "DELETED" /\ u \notin raced =>
              /\ u \in devices' => u \in devices
              /\ r.user = u => r.at \in Harmless
      BY <1>1, <1>7, <2>2, NotDeleted
    <2> QED BY <1>1, <1>3, <1>4, <1>5, <2>1, <2>2, <2>3, QuietStep DEF Rows
  <1>8. CASE UseTokens(p)
    <2>1. Goto(p, "insertToken") /\ req[p].at \notin Harmless
      BY <1>8 DEF UseTokens, At, Harmless, Ending
    <2> QED BY <1>7, <2>1
  <1>9. CASE InsertToken(p)
    BY <1>6, <1>9 DEF InsertToken
  <1>10. CASE UseToken(p)
    <2>1. End(p) \/ Goto(p, "activate") \/ Goto(p, "setPassword")
      BY <1>10 DEF UseToken
    <2> QED BY <1>6, <1>7, <2>1 DEF Harmless
  <1> QED BY <1>8, <1>9, <1>10

\* Devices, the look at the photo, and the death of a request.
LEMMA OtherQuietSteps ==
    ASSUME Assumed, IInv, NEW p \in Requests,
           DevicesOff(p) \/ RegisterDevice(p) \/ CheckPhoto(p) \/ Drop(p)
    PROVE  IInv'
PROOF
  <1>1. /\ token \in [Tokens -> [state : {"none", "open", "used"}, user : Users \cup {Nobody}, purpose : Purpose]]
        /\ TokensKept \/ token' # token
        /\ broken \subseteq Users /\ devices \subseteq Users /\ begun \in Nat /\ drops \in Nat
        /\ req[p].at # "idle" => req[p].user \in Users
    BY DEF IInv, TypeOK, RowsKnow, TokensKept, RequestKnows
  <1>2. CASE DevicesOff(p)
    <2>1. /\ req' = [req EXCEPT ![p] = Idle] /\ req[p].at \notin Ending /\ devices' \subseteq devices
          /\ UNCHANGED <<mediaVars, account, session, token, begun, drops, broken, raced>>
      BY <1>2 DEF DevicesOff, End, At, Ending
    <2> QED BY <1>1, <2>1, Ends, QuietStep
  <1>3. CASE RegisterDevice(p)
    <2>1. /\ req' = [req EXCEPT ![p] = Idle] /\ req[p].at \notin Harmless /\ devices' = devices \cup {req[p].user}
          /\ req[p].at \notin Ending /\ req[p].at # "idle"
          /\ UNCHANGED <<mediaVars, account, session, token, begun, drops, broken, raced>>
      BY <1>3 DEF RegisterDevice, End, At, Harmless, Ending
    <2>2. \A u \in Users : account[u].status = "DELETED" /\ u \notin raced => u # req[p].user
      BY <2>1, NotDeleted
    <2> QED BY <1>1, <2>1, <2>2, Ends, QuietStep
  <1>4. CASE CheckPhoto(p)
    <2>1. /\ req[p].at = "checkPhoto" /\ (Goto(p, "saveProfile") \/ End(p))
          /\ UNCHANGED <<mediaVars, account, session, token, devices, begun, drops, broken, raced>>
      BY <1>4 DEF CheckPhoto, At
    <2>2. req[p].at \notin Harmless /\ req[p].at \notin Ending
      BY <2>1 DEF Harmless, Ending
    <2>3. CASE End(p)
      <3>1. req' = [req EXCEPT ![p] = Idle]
        BY <2>3 DEF End
      <3> QED BY <1>1, <2>1, <2>2, <3>1, Ends, QuietStep
    <2>4. CASE Goto(p, "saveProfile")
      <3> DEFINE r == [req[p] EXCEPT !.at = "saveProfile"]
      <3>1. req' = [req EXCEPT ![p] = r] /\ r \in Request /\ Knows(r) /\ r.user = req[p].user
        BY <2>1, <2>4, StepsOn DEF Goto, Steps
      <3> HIDE DEF r
      <3>2. \A u \in Users : account[u].status = "DELETED" /\ u \notin raced => u # r.user
        BY <2>2, <3>1, NotDeleted
      <3> QED BY <1>1, <2>1, <2>2, <3>1, <3>2, QuietStep
    <2> QED BY <2>1, <2>3, <2>4
  <1>5. CASE Drop(p)
    <2>1. /\ req' = [req EXCEPT ![p] = Idle] /\ drops' = drops + 1
          /\ broken' = broken \cup {u \in {req[p].user} : req[p].at \in Ending}
          /\ UNCHANGED <<mediaVars, account, session, token, devices, begun, raced>>
      BY <1>5 DEF Drop, End, Ending
    <2>2. broken' \subseteq Users /\ (req[p].at \in Ending => req[p].user \in broken')
      BY <1>1, <2>1 DEF Ending
    <2>3. /\ token' \in [Tokens -> [state : {"none", "open", "used"}, user : Users \cup {Nobody}, purpose : Purpose]]
          /\ TokensKept /\ begun' \in Nat /\ drops' \in Nat /\ broken \subseteq broken'
          /\ devices' \subseteq devices /\ devices' \subseteq Users
      BY <1>1, <2>1
    <2>4. UNCHANGED <<mediaVars, account, session, raced>> /\ req' = [req EXCEPT ![p] = Idle]
      BY <2>1
    <2>5. Idle \in Request /\ Knows(Idle) /\ Idle.user \notin Users
      BY Ends
    <2> QED BY <2>2, <2>3, <2>4, <2>5, QuietStep
  <1> QED BY <1>2, <1>3, <1>4, <1>5

-----------------------------------------------------------------------------
(* Statements that change an account *)

AccountSet == [status : Status, contact : Contacts \cup {NoContact}, pw : Nat, known : BOOLEAN,
               profile : {"none", "own", "deleted"}, photo : Files \cup {NoFile}]

\* A request ends with no account or session touched.
LEMMA EndStep ==
    ASSUME Assumed, IInv, NEW p \in Requests, req[p].at \notin Ending, End(p),
           UNCHANGED <<mediaVars, account, session, token, devices, begun, drops, broken, raced>>
    PROVE  IInv'
PROOF
  <1>1. /\ token' \in [Tokens -> [state : {"none", "open", "used"}, user : Users \cup {Nobody}, purpose : Purpose]]
        /\ TokensKept /\ begun' \in Nat /\ drops' \in Nat /\ broken' \subseteq Users
        /\ devices' = devices /\ devices \subseteq Users /\ broken \subseteq broken'
    BY DEF IInv, TypeOK, RowsKnow, TokensKept
  <1>2. req' = [req EXCEPT ![p] = Idle]
    BY DEF End
  <1> QED BY <1>1, <1>2, Ends, QuietStep

\* The account a request is about is written, and the request goes on.
LEMMA WriteStep ==
    ASSUME Assumed, IInv, NEW p \in Requests, req[p].at # "idle", req[p].at \notin Ending,
           UNCHANGED <<mediaVars, session, token, devices, begun, drops, broken, raced>>,
           NEW a \in AccountSet, account' = [account EXCEPT ![req[p].user] = a],
           NEW step \in Steps \ {"rotate", "openSession"}, Goto(p, step) \/ (End(p) /\ step = "idle"),
           account[req[p].user].status # "NONE" => a.status # "NONE",
           a.pw = account[req[p].user].pw \/ step \in Ending \/ account[req[p].user].status = "NONE",
           \/ req[p].at \notin Harmless /\ a.status = account[req[p].user].status
           \/ a.status # "DELETED" /\ account[req[p].user].status # "DELETED"
           \/ /\ step \in Harmless
              /\ a.status = account[req[p].user].status /\ a.contact = account[req[p].user].contact
              /\ a.photo = account[req[p].user].photo /\ a.profile = account[req[p].user].profile
    PROVE  IInv'
PROOF
  <1> DEFINE u == req[p].user
             r == IF step = "idle" /\ End(p) THEN Idle ELSE [req[p] EXCEPT !.at = step]
  <1>1. u \in Users /\ begun' \in Nat
    BY DEF IInv, TypeOK, RequestKnows
  <1>2. req' = [req EXCEPT ![p] = r]
    BY DEF Goto, End
  <1>3. /\ r \in Request /\ r.at \notin {"rotate", "openSession"} /\ (r.at # "idle" => r.user = u)
        /\ (step \in Ending => r.at \in Ending /\ r.user = u) /\ r.at = step
        /\ (r.user # u => r.user \notin Users)
    <2>1. CASE step = "idle" /\ End(p)
      BY <2>1, Ends DEF Ending
    <2>2. CASE ~(step = "idle" /\ End(p))
      BY <2>2, StepsOn
    <2> QED BY <2>1, <2>2
  <1>4. u \in Users /\ account[u] \in AccountSet
    BY <1>1 DEF IInv, TypeOK, AccountSet
  <1>5. req[p].at \notin Harmless => account[u].status # "DELETED" \/ u \in raced
    BY <1>1, NotDeleted
  <1> HIDE DEF u, r
  <1>6. account' = [account EXCEPT ![u] = a] /\ a \in AccountSet
    BY DEF u
  <1>7. account[u].status # "NONE" =>
           a.status # "NONE" /\ (a.pw = account[u].pw \/ (r.user = u /\ r.at \in Ending))
    BY <1>3 DEF u
  <1>8. /\ a.status = "DELETED" /\ u \notin raced =>
               /\ account[u].status = "DELETED"
               /\ a.contact = account[u].contact /\ a.photo = account[u].photo
               /\ a.profile = account[u].profile
        /\ account[u].status = "DELETED" /\ u \notin raced => r.at \in Harmless
    BY <1>3, <1>5 DEF u
  <1>9. \A v \in Users : account[v].status = "DELETED" /\ v \notin raced /\ r.user = v => r.at \in Harmless
    BY <1>3, <1>8
  <1> QED
    BY <1>1, <1>2, <1>3, <1>6, <1>7, <1>8, <1>9, AccountStep DEF AccountSet

\* Each statement that writes an account.
LEMMA AccountSteps ==
    ASSUME Assumed, IInv, NEW p \in Requests,
           \/ InsertUser(p) \/ InsertProfile(p) \/ Activate(p) \/ SetPassword(p)
           \/ SaveProfile(p) \/ SavePhone(p) \/ UnlinkPhoto(p)
    PROVE  IInv'
PROOF
  <1> DEFINE u == req[p].user
  <1>1. /\ req[p] \in Request
        /\ req[p].at \in {"insertUser", "insertProfile", "activate", "setPassword", "saveProfile",
                         "savePhone", "unlinkPhoto"}
    BY DEF InsertUser, InsertProfile, Activate, SetPassword, SaveProfile, SavePhone, UnlinkPhoto, At,
           IInv, TypeOK
  <1>2. /\ req[p].at # "idle" /\ req[p].at \notin Ending
        /\ (req[p].at \in Harmless => req[p].at \in {"activate", "setPassword"})
        /\ req[p].contact \in Contacts \cup {NoContact} /\ req[p].photo \in Files \cup {NoFile}
        /\ req[p].next \in Ending
    BY <1>1 DEF Ending, Harmless, Request
  <1>3. u \in Users /\ account[u] \in AccountSet /\ account \in [Users -> AccountSet]
    BY <1>2 DEF IInv, TypeOK, AccountSet, RequestKnows
  <1>4. UNCHANGED <<mediaVars, session, token, devices, begun, drops, broken, raced>>
    BY DEF InsertUser, InsertProfile, Activate, SetPassword, SaveProfile, SavePhone, UnlinkPhoto
  <1>5. ASSUME UNCHANGED account, End(p) PROVE IInv'
    BY <1>2, <1>4, <1>5, EndStep
  <1>6. CASE InsertUser(p)
    <2> DEFINE a == [NoAccount EXCEPT !.status = "PENDING_VERIFICATION", !.contact = req[p].contact,
                                      !.pw = 1, !.known = TRUE]
    <2>1. \/ (UNCHANGED account /\ End(p))
          \/ /\ account[u].status = "NONE" /\ account' = [account EXCEPT ![u] = a]
             /\ Goto(p, "insertProfile")
      BY <1>6 DEF InsertUser
    <2>2. a \in AccountSet /\ a.status = "PENDING_VERIFICATION"
      BY <1>2 DEF AccountSet, NoAccount, Status
    <2> HIDE DEF a
    <2>3. "insertProfile" \in Steps \ {"rotate", "openSession"}
      BY DEF Steps
    <2> QED BY <1>2, <1>4, <1>5, <2>1, <2>2, <2>3, WriteStep
  <1>7. CASE InsertProfile(p)
    <2>1. PICK name \in {"none", "own"} : account' = [account EXCEPT ![u]["profile"] = name]
      BY <1>7 DEF InsertProfile, SetAccount
    <2> DEFINE a == [account[u] EXCEPT !.profile = name]
    <2>2. account' = [account EXCEPT ![u] = a] /\ Goto(p, "useTokens") /\ req[p].at = "insertProfile"
      BY <1>3, <1>7, <2>1 DEF InsertProfile, At
    <2>3. a \in AccountSet /\ a.status = account[u].status /\ a.pw = account[u].pw
      BY <1>3 DEF AccountSet
    <2> HIDE DEF a
    <2>4. "useTokens" \in Steps \ {"rotate", "openSession"} /\ req[p].at \notin Harmless
      BY <1>2, <2>2 DEF Steps
    <2> QED BY <1>2, <1>4, <2>2, <2>3, <2>4, WriteStep
  <1>8. CASE Activate(p)
    <2>1. \/ (UNCHANGED account /\ End(p))
          \/ /\ account[u].status = "PENDING_VERIFICATION" /\ End(p)
             /\ account' = [account EXCEPT ![u]["status"] = "ACTIVE"]
      BY <1>8 DEF Activate, SetAccount
    <2> DEFINE a == [account[u] EXCEPT !.status = "ACTIVE"]
    <2>2. UNCHANGED account \/ account' = [account EXCEPT ![u] = a]
      BY <1>3, <2>1
    <2>3. a \in AccountSet /\ a.status = "ACTIVE" /\ a.pw = account[u].pw
      BY <1>3 DEF AccountSet, Status
    <2> HIDE DEF a
    <2>4. "idle" \in Steps \ {"rotate", "openSession"}
      BY DEF Steps
    <2> QED BY <1>2, <1>4, <1>5, <2>1, <2>2, <2>3, <2>4, WriteStep
  <1>9. CASE SetPassword(p)
    <2> DEFINE a == [account[u] EXCEPT !.pw = @ + 1, !.known = TRUE]
    <2>1. account' = [account EXCEPT ![u] = a] /\ Goto(p, req[p].next)
      BY <1>3, <1>9 DEF SetPassword
    <2>2. /\ a \in AccountSet /\ a.status = account[u].status /\ a.contact = account[u].contact
          /\ a.photo = account[u].photo /\ a.profile = account[u].profile
      <3>1. account[u].pw + 1 \in Nat
        BY <1>3 DEF AccountSet
      <3> QED BY <1>3, <3>1 DEF AccountSet
    <2> HIDE DEF a
    <2>3. req[p].next \in Steps \ {"rotate", "openSession"} /\ req[p].next \in Harmless
      BY <1>2 DEF Steps, Ending, Harmless
    <2> QED BY <1>2, <1>4, <2>1, <2>2, <2>3, WriteStep
  <1>10. CASE SaveProfile(p)
    <2> DEFINE a == [account[u] EXCEPT !.profile = "own",
                        !.photo = IF req[p].photo = NoFile THEN @ ELSE req[p].photo]
               step == IF req[p].contact = NoContact THEN "unlinkPhoto" ELSE "savePhone"
    <2>1. account' = [account EXCEPT ![u] = a] /\ Goto(p, step) /\ req[p].at = "saveProfile"
      BY <1>3, <1>10 DEF SaveProfile, At
    <2>2. a \in AccountSet /\ a.status = account[u].status /\ a.pw = account[u].pw
      BY <1>2, <1>3 DEF AccountSet
    <2>3. step \in Steps \ {"rotate", "openSession"} /\ req[p].at \notin Harmless
      BY <1>2, <2>1 DEF Steps
    <2> HIDE DEF a, step
    <2> QED BY <1>2, <1>4, <2>1, <2>2, <2>3, WriteStep
  <1>11. CASE SavePhone(p)
    <2> DEFINE a == [account[u] EXCEPT !.contact = req[p].contact]
    <2>1. \/ (UNCHANGED account /\ End(p))
          \/ account' = [account EXCEPT ![u]["contact"] = req[p].contact] /\ Goto(p, "unlinkPhoto")
      BY <1>11 DEF SavePhone, SetAccount
    <2>2. \/ (UNCHANGED account /\ End(p))
          \/ account' = [account EXCEPT ![u] = a] /\ Goto(p, "unlinkPhoto")
      BY <1>3, <2>1
    <2>3. a \in AccountSet /\ a.status = account[u].status /\ a.pw = account[u].pw
      BY <1>2, <1>3 DEF AccountSet
    <2>4. "unlinkPhoto" \in Steps \ {"rotate", "openSession"} /\ req[p].at \notin Harmless
      BY <1>2, <1>11 DEF Steps, SavePhone, At
    <2> HIDE DEF a
    <2> QED BY <1>2, <1>4, <1>5, <2>2, <2>3, <2>4, WriteStep
  <1>12. CASE UnlinkPhoto(p)
    <2>1. PICK f \in {NoFile, account[u].photo} : account' = [account EXCEPT ![u]["photo"] = f]
      BY <1>12 DEF UnlinkPhoto, SetAccount
    <2> DEFINE a == [account[u] EXCEPT !.photo = f]
    <2>2. account' = [account EXCEPT ![u] = a] /\ End(p) /\ req[p].at = "unlinkPhoto"
      BY <1>3, <1>12, <2>1 DEF UnlinkPhoto, At
    <2>3. a \in AccountSet /\ a.status = account[u].status /\ a.pw = account[u].pw
      BY <1>3 DEF AccountSet
    <2>4. "idle" \in Steps \ {"rotate", "openSession"} /\ req[p].at \notin Harmless
      BY <1>2, <2>2 DEF Steps
    <2> HIDE DEF a
    <2> QED BY <1>2, <1>4, <2>2, <2>3, <2>4, WriteStep
  <1> QED BY <1>6, <1>7, <1>8, <1>9, <1>10, <1>11, <1>12

-----------------------------------------------------------------------------
(* Statements that change sessions *)

SessionSet == [state : {"none", "valid", "revoked", "deleted"}, user : Users \cup {Nobody}, pw : Nat,
               excused : BOOLEAN]

\* A session becomes revoked or stays what it is, and requests but p go on.
LEMMA RevokedOnce ==
    ASSUME Assumed, IInv, UNCHANGED <<mediaVars, account, token, devices, broken, raced, drops>>,
           begun' \in Nat, NEW p,
           \A q \in Requests \ {p} : req'[q] = req[q],
           req' \in [Requests -> Request], p \in Requests => RequestKnows(p)',
           \A u \in Users : Ended(u) => Ended(u)',
           p \in Requests => \A u \in Users : account[u].status = "DELETED" /\ u \notin raced /\ req'[p].user = u =>
                                 req'[p].at \in Harmless,
           NEW s \in Sessions, session[s].state # "none",
           NEW new \in {session[s].state, "revoked"}, session' = [session EXCEPT ![s].state = new]
    PROVE  IInv'
PROOF
  <1>1. session \in [Sessions -> SessionSet]
    BY DEF IInv, TypeOK, SessionSet
  <1>2. session' \in [Sessions -> SessionSet]
    BY <1>1 DEF SessionSet
  <1>3. TypeOK'
    <2>1. MediaTypeOK'
      BY MediaSame DEF IInv, TypeOK
    <2> QED BY <1>2, <2>1 DEF IInv, TypeOK, SessionSet
  <1>4. ASSUME NEW i \in Sessions PROVE SessionKept(i) /\ ~SessionOpened(i)
    <2>1. i # s => session'[i] = session[i]
      BY <1>1
    <2>2. session'[s] = [session[s] EXCEPT !.state = new]
      BY <1>1
    <2> QED BY <1>1, <2>1, <2>2 DEF SessionKept, SessionOpened, SessionSet
  <1>5. OthersKept(p)
    BY DEF OthersKept
  <1>6. DeletedKept(p)
    BY <1>4 DEF DeletedKept
  <1>7. AccountsKept(p) /\ TokensKept
    BY DEF AccountsKept, TokensKept, IInv, RowsKnow
  <1> QED BY <1>3, <1>4, <1>5, <1>6, <1>7, Kept

\* A refresh token is used up.
LEMMA RotateStep ==
    ASSUME Assumed, IInv, NEW p \in Requests, Rotate(p)
    PROVE  IInv'
PROOF
  <1>u. PICK u : u = req[p].user
    OBVIOUS
  <1>s. PICK s : s = req[p].session
    OBVIOUS
  <1> DEFINE r == [req[p] EXCEPT !.at = "openSession"]
             new == IF session[s].state = "deleted" THEN "deleted" ELSE "revoked"
  <1>1. req[p].at = "rotate" /\ req[p] \in Request /\ session \in [Sessions -> SessionSet]
    BY DEF Rotate, At, IInv, TypeOK, SessionSet
  <1>2. /\ s \in Sessions /\ session[s].state # "none" /\ u \in Users /\ account[u].status # "NONE"
        /\ req[p].pw < account[u].pw =>
              req[p].over \/ Ended(u) \/ (s # NoSession /\ session[s].excused)
    BY <1>u, <1>s, <1>1 DEF IInv, RequestKnows
  <1>3. session' = [session EXCEPT ![s].state = new] /\ new \in {session[s].state, "revoked"}
    <2>1. CASE session[s].state = "deleted"
      <3>1. session' = session
        BY <2>1, <1>s DEF Rotate
      <3> QED BY <1>1, <2>1, <3>1 DEF SessionSet
    <2>2. CASE session[s].state # "deleted"
      BY <2>2, <1>s DEF Rotate
    <2> QED BY <2>1, <2>2
  <1>4. r \in Request /\ req' = [req EXCEPT ![p] = r]
    BY <1>1 DEF Request, Rotate, Goto, Steps
  <1>5. /\ req' \in [Requests -> Request] /\ req'[p] = r
        /\ \A q \in Requests \ {p} : req'[q] = req[q]
    BY <1>4, Moves
  <1>6. UNCHANGED <<mediaVars, account, token, devices, broken, raced, drops, begun>> /\ begun' \in Nat
    BY DEF Rotate, IInv, TypeOK
  <1>7. \A v \in Users : Ended(v) => Ended(v)'
    BY <1>1, <1>4, <1>6, EndingGoesOn DEF Ending
  <1>8. RequestKnows(p)'
    <2>1. session'[s].excused = session[s].excused
      BY <1>1, <1>2, <1>3 DEF SessionSet
    <2>2. /\ r.at = "openSession" /\ r.user = u /\ r.pw = req[p].pw /\ r.session = s /\ r.over = req[p].over
      BY <1>u, <1>s, <1>1 DEF Request
    <2> HIDE DEF r
    <2>3. r.pw < account'[u].pw => r.over \/ Ended(u)' \/ (s # NoSession /\ session'[s].excused)
      BY <1>2, <1>6, <1>7, <2>1, <2>2
    <2> QED BY <1>2, <1>5, <1>6, <2>2, <2>3 DEF RequestKnows
  <1>9. \A v \in Users : account[v].status = "DELETED" /\ v \notin raced => r.user # v
    <2>1. req[p].at \notin Harmless
      BY <1>1 DEF Harmless, Ending
    <2> QED BY <1>1, <1>u, <2>1, NotDeleted DEF Request
  <1> HIDE DEF r, new
  <1> QED BY <1>2, <1>3, <1>5, <1>6, <1>7, <1>8, <1>9, RevokedOnce

\* A login or a refresh opens a session; that its password is an old one is
\* excused, or the sessions are about to be ended.
LEMMA OpenStep ==
    ASSUME Assumed, IInv, NEW p \in Requests, OpenSession(p)
    PROVE  IInv'
PROOF
  <1>u. PICK u : u = req[p].user
    OBVIOUS
  <1>s. PICK s : s = req[p].session
    OBVIOUS
  <1>e. PICK excuse \in BOOLEAN : excuse = (req[p].over \/ (s # NoSession /\ session[s].excused))
    OBVIOUS
  <1>1. /\ req[p].at = "openSession" /\ req[p] \in Request /\ session \in [Sessions -> SessionSet]
        /\ req' = [req EXCEPT ![p] = Idle] /\ req[p].over \in BOOLEAN
        /\ UNCHANGED <<mediaVars, account, token, devices, begun, drops, broken, raced>>
    BY DEF OpenSession, At, IInv, TypeOK, SessionSet, End, Request
  <1>2. /\ u \in Users /\ account[u].status # "NONE" /\ req[p].pw \in Nat
        /\ req[p].pw < account[u].pw => excuse \/ Ended(u)
    BY <1>u, <1>s, <1>e, <1>1 DEF IInv, RequestKnows, Request
  <1>3. PICK i \in Sessions : session[i].state = "none" /\ session' = [session EXCEPT ![i] = Open(u, req[p].pw, excuse)]
    BY <1>u, <1>s, <1>e DEF OpenSession
  <1>5. /\ Open(u, req[p].pw, excuse) \in SessionSet /\ Open(u, req[p].pw, excuse).state = "valid"
        /\ Open(u, req[p].pw, excuse).user = u /\ Open(u, req[p].pw, excuse).pw = req[p].pw
        /\ Open(u, req[p].pw, excuse).excused = excuse
    BY <1>2 DEF Open, SessionSet
  <1>6. /\ session' \in [Sessions -> SessionSet] /\ session'[i] = Open(u, req[p].pw, excuse)
        /\ \A j \in Sessions \ {i} : session'[j] = session[j]
    BY <1>1, <1>3, <1>5
  <1>7. Idle \in Request /\ Idle.at = "idle" /\ Idle.user \notin Users
    BY Ends
  <1>8. /\ req' \in [Requests -> Request] /\ req'[p] = Idle
        /\ \A q \in Requests \ {p} : req'[q] = req[q]
    BY <1>1, <1>7, Moves
  <1>9. \A v \in Users : Ended(v) => Ended(v)'
    BY <1>1, <1>7, EndingGoesOn DEF Ending
  <1>10. TypeOK'
    <2>1. MediaTypeOK'
      BY <1>1, MediaSame DEF IInv, TypeOK
    <2> QED BY <1>1, <1>6, <1>8, <2>1 DEF IInv, TypeOK, SessionSet
  <1>11. SessionOpened(i)
    <2>1. session'[i].pw < account'[u].pw => session'[i].excused \/ Ended(u)'
      BY <1>1, <1>2, <1>5, <1>6, <1>9
    <2> QED BY <1>1, <1>2, <1>3, <1>5, <1>6, <2>1 DEF SessionOpened
  <1>12. \A j \in Sessions \ {i} : SessionKept(j) /\ ~SessionOpened(j)
    BY <1>6, <1>9 DEF SessionKept, SessionOpened
  <1>13. OthersKept(p)
    BY <1>8, <1>9 DEF OthersKept
  <1>14. DeletedKept(p)
    <2>1. account[u].status # "DELETED" \/ u \in raced
      BY <1>u, <1>1, <1>2, NotDeleted DEF Harmless, Ending
    <2> QED BY <1>1, <1>5, <1>6, <1>7, <1>8, <1>12, <2>1 DEF DeletedKept
  <1>15. AccountsKept(p) /\ TokensKept /\ RequestKnows(p)'
    BY <1>1, <1>7, <1>9, <1>8 DEF AccountsKept, TokensKept, IInv, RowsKnow, RequestKnows
  <1> QED BY <1>1, <1>10, <1>11, <1>12, <1>13, <1>14, <1>15, Kept

\* A request that concerns nobody: the rows of logout and of delete_device, and
\* the status an admin sets, are written in one statement.
LEMMA LogoutStep ==
    ASSUME Assumed, IInv, NEW s \in Sessions, logout(s)
    PROVE  IInv'
PROOF
  <1>1. PICK p : p \notin Requests
    BY NoSetContainsEverything
  <1>2. /\ session[s].state # "none" /\ req' = req /\ begun' = begun + 1
        /\ UNCHANGED <<mediaVars, account, token, devices, broken, raced, drops>>
    BY DEF logout, MayBegin
  <1> DEFINE new == IF session[s].state = "valid" THEN "revoked" ELSE session[s].state
  <1>3. session' = [session EXCEPT ![s].state = new]
    BY DEF logout
  <1>4. begun' \in Nat /\ req' \in [Requests -> Request] /\ new \in {session[s].state, "revoked"}
    BY <1>2 DEF IInv, TypeOK
  <1>5. \A u \in Users : Ended(u) => Ended(u)'
    BY <1>2 DEF Ended
  <1> HIDE DEF new
  <1> QED BY <1>1, <1>2, <1>3, <1>4, <1>5, RevokedOnce

\* A status an admin sets, never DELETED.
LEMMA PatchStatusStep ==
    ASSUME Assumed, IInv, NEW u \in Users, NEW s \in Status \ {"NONE", "DELETED"}, PatchStatus(u, s)
    PROVE  IInv'
PROOF
  <1>1. PICK p : p \notin Requests
    BY NoSetContainsEverything
  <1>2. /\ account[u].status # "NONE" /\ begun' = begun + 1
        /\ UNCHANGED <<mediaVars, session, token, devices, req, drops, broken, raced>>
    BY DEF PatchStatus, MayBegin
  <1>3. account \in [Users -> AccountSet]
    BY DEF IInv, TypeOK, AccountSet
  <1>4. /\ account'[u] = [account[u] EXCEPT !.status = s]
        /\ \A v \in Users \ {u} : account'[v] = account[v]
        /\ account' \in [Users -> AccountSet]
    BY <1>3 DEF PatchStatus, SetAccount, AccountSet
  <1>5. account'[u].status = s /\ account'[u].pw = account[u].pw
    BY <1>3, <1>4 DEF AccountSet
  <1>6. TypeOK'
    <2>1. MediaTypeOK'
      BY <1>2, MediaSame DEF IInv, TypeOK
    <2> QED BY <1>2, <1>4, <2>1 DEF IInv, TypeOK, AccountSet
  <1>7. \A v \in Users : Ended(v) => Ended(v)'
    BY <1>2 DEF Ended
  <1>8. AccountsKept(p) /\ OthersKept(p) /\ TokensKept
    BY <1>2, <1>4, <1>5, <1>7 DEF AccountsKept, OthersKept, TokensKept, IInv, RowsKnow
  <1>9. \A i \in Sessions : SessionKept(i) /\ ~SessionOpened(i)
    BY <1>2 DEF SessionKept, SessionOpened
  <1>10. DeletedKept(p)
    BY <1>1, <1>2, <1>4, <1>5, <1>9 DEF DeletedKept
  <1> QED BY <1>1, <1>2, <1>6, <1>8, <1>9, <1>10, Kept

\* A device is removed.
LEMMA DeviceStep ==
    ASSUME Assumed, IInv, NEW u \in Users, delete_device(u)
    PROVE  IInv'
PROOF
  <1>1. PICK p : p \notin Requests
    BY NoSetContainsEverything
  <1>2. /\ begun' = begun + 1 /\ devices' = devices \ {u}
        /\ UNCHANGED <<mediaVars, account, session, token, req, drops, broken, raced>>
    BY DEF delete_device, MayBegin
  <1>3. TypeOK'
    <2>1. MediaTypeOK'
      BY <1>2, MediaSame DEF IInv, TypeOK
    <2> QED BY <1>2, <2>1 DEF IInv, TypeOK
  <1>4. \A v \in Users : Ended(v) => Ended(v)'
    BY <1>2 DEF Ended
  <1>5. AccountsKept(p) /\ OthersKept(p) /\ TokensKept
    BY <1>2, <1>4 DEF AccountsKept, OthersKept, TokensKept, IInv, RowsKnow
  <1>6. \A i \in Sessions : SessionKept(i) /\ ~SessionOpened(i)
    BY <1>2 DEF SessionKept, SessionOpened
  <1>7. DeletedKept(p)
    BY <1>1, <1>2, <1>6 DEF DeletedKept
  <1> QED BY <1>1, <1>2, <1>3, <1>5, <1>6, <1>7, Kept

\* The uploads go on beside the accounts.
LEMMA UploadingStep ==
    ASSUME Assumed, IInv, Uploading
    PROVE  IInv'
PROOF
  <1>1. MediaTypeOK' /\ MediaKnows'
    <2>1. \/ MediaNext
          \/ \E u \in Owners, f \in Files : \/ create_upload(u, f)
                                            \/ \E p \in Uploads : BeginComplete(p, u, f)
      BY DEF Uploading, Assumed, AccountsAssumption
    <2> QED BY <2>1, MediaStep DEF Assumed, IInv, TypeOK
  <1>2. begun' \in Nat /\ UNCHANGED <<account, session, token, devices, req, drops, broken, raced>>
    BY DEF Uploading, MayBegin, IInv, TypeOK
  <1>3. TypeOK'
    BY <1>1, <1>2 DEF IInv, TypeOK
  <1>4. \A p \in Requests : RequestKnows(p)'
    BY <1>2 DEF IInv, RequestKnows, Ended
  <1>5. RowsKnow' /\ OldSessionsEnd' /\ DeletedStaysBare' /\ DeletedKnows'
    BY <1>2 DEF IInv, RowsKnow, OldSessionsEnd, DeletedStaysBare, DeletedKnows
  <1> QED BY <1>1, <1>3, <1>4, <1>5 DEF IInv

\* The sessions of a user are ended, but for those in keep; the user's other
\* requests are told.
LEMMA RevokeStep ==
    ASSUME Assumed, IInv, NEW p \in Requests, NEW u \in Users, req[p].user = u, req[p].at # "idle",
           NEW keep, NEW end \in {"revoked", "deleted"}, Revoke(u, keep, end),
           NEW mine \in Request, Overtake(p, u, mine), mine.at \notin {"rotate", "openSession"},
           mine.at # "idle" => mine.user = u,
           UNCHANGED <<mediaVars, token, begun, drops, broken>>,
           devices' \subseteq devices, raced' \subseteq Users,
           account' \in [Users -> AccountSet], \A v \in Users \ {u} : account'[v] = account[v],
           account[u].status # "NONE" => account'[u].status # "NONE",
           \A v \in Users \ {u} : v \notin raced' => v \notin raced,
           account'[u].status = "DELETED" /\ u \notin raced' =>
               /\ mine.at \in Harmless
               /\ \/ account[u].status = "DELETED" /\ u \notin raced /\ account'[u] = account[u]
                  \/ /\ account'[u].contact = NoContact /\ account'[u].photo = NoFile
                     /\ account'[u].profile # "own" /\ u \notin devices' /\ keep = {}
                     /\ \A q \in Requests \ {p} : req[q].user # u
    PROVE  IInv'
PROOF
  <1>1. session \in [Sessions -> SessionSet] /\ req \in [Requests -> Request]
    BY DEF IInv, TypeOK, SessionSet
  <1>2. ASSUME NEW i \in Sessions
        PROVE  session'[i] = IF session[i].user # u THEN session[i]
                             ELSE IF i \in keep THEN [session[i] EXCEPT !.excused = TRUE]
                             ELSE IF session[i].state = "valid" \/ end = "deleted"
                             THEN [session[i] EXCEPT !.state = end]
                             ELSE session[i]
    BY DEF Revoke
  <1>3. ASSUME NEW i \in Sessions
        PROVE  session'[i] \in SessionSet /\ SessionKept(i) /\ ~SessionOpened(i)
    <2>1. session[i] \in SessionSet
      BY <1>1
    <2>2. session[i].user = u => session[i].state # "none"
      BY DEF IInv, RowsKnow, Closed, Assumed, AccountsAssumption
    <2> QED BY <1>2, <2>1, <2>2 DEF SessionSet, SessionKept, SessionOpened
  <1>4. session' \in [Sessions -> SessionSet]
    BY <1>3 DEF Revoke
  <1>5. ASSUME NEW q \in Requests
        PROVE  /\ req'[q] = IF q = p THEN mine
                            ELSE IF req[q].user = u THEN [req[q] EXCEPT !.over = TRUE] ELSE req[q]
               /\ req'[q] \in Request
    <2>1. req'[q] = IF q = p THEN mine
                    ELSE IF req[q].user = u THEN [req[q] EXCEPT !.over = TRUE] ELSE req[q]
      BY DEF Overtake
    <2> QED BY <1>1, <2>1 DEF Request
  <1>6. req' \in [Requests -> Request]
    BY <1>5 DEF Overtake
  <1>7. TypeOK'
    <2>1. MediaTypeOK'
      BY MediaSame DEF IInv, TypeOK
    <2> QED BY <1>4, <1>6, <2>1 DEF IInv, TypeOK, SessionSet, AccountSet
  <1>8. OthersKept(p)
    BY <1>5 DEF OthersKept
  <1>9. AccountsKept(p)
    <2>1. Swept(p, u)
      <3>1. ASSUME NEW i \in Sessions, session[i].user = u
            PROVE  session'[i].state # "valid" \/ session'[i].excused
        BY <1>1, <1>2, <3>1 DEF SessionSet
      <3>2. ASSUME NEW q \in Requests \ {p}, req[q].user = u PROVE req'[q].over
        <4>1. q # p /\ req[q] \in Request /\ req'[q] = [req[q] EXCEPT !.over = TRUE]
          BY <1>1, <1>5, <3>2
        <4> QED BY <4>1 DEF Request
      <3> QED BY <3>1, <3>2 DEF Swept
    <2>2. ASSUME NEW v \in Users \ {u}, Ended(v) PROVE Ended(v)'
      <3>1. CASE v \in broken
        BY <3>1 DEF Ended
      <3>2. CASE v \notin broken
        <4>1. PICK q \in Requests : req[q].user = v /\ req[q].at \in Ending
          BY <2>2, <3>2 DEF Ended
        <4>2. req'[q] = req[q]
          BY <1>5, <4>1
        <4> QED BY <4>1, <4>2 DEF Ended
      <3> QED BY <3>1, <3>2
    <2> QED BY <2>1, <2>2 DEF AccountsKept
  <1>10. req'[p] = mine
    BY <1>5
  <1>11. RequestKnows(p)'
    BY <1>10 DEF RequestKnows
  <1>12. TokensKept
    BY DEF TokensKept, IInv, RowsKnow
  <1>13. (DeletedStaysBare /\ DeletedKnows)'
    <2> SUFFICES ASSUME NEW v \in Users, account'[v].status = "DELETED", v \notin raced'
                 PROVE  /\ account'[v].contact = NoContact /\ account'[v].photo = NoFile
                        /\ account'[v].profile # "own" /\ v \notin devices'
                        /\ \A i \in Sessions : session'[i].user = v => session'[i].state # "valid"
                        /\ \A q \in Requests : req'[q].user = v => req'[q].at \in Harmless
      BY DEF DeletedStaysBare, DeletedKnows
    <2>2. CASE account[v].status = "DELETED" /\ v \notin raced /\ account'[v] = account[v]
      <3>1. /\ account'[v].contact = NoContact /\ account'[v].photo = NoFile
            /\ account'[v].profile # "own" /\ v \notin devices'
        BY <2>2 DEF IInv, DeletedStaysBare
      <3>2. \A i \in Sessions : session'[i].user = v => session'[i].state # "valid"
        <4> SUFFICES ASSUME NEW i \in Sessions, session'[i].user = v PROVE session'[i].state # "valid"
          OBVIOUS
        <4>1. session'[i].user = session[i].user /\ (session'[i].state = "valid" => session[i].state = "valid")
          BY <1>3 DEF SessionKept
        <4> QED BY <2>2, <4>1 DEF IInv, DeletedStaysBare
      <3>3. ASSUME NEW q \in Requests, req'[q].user = v PROVE req'[q].at \in Harmless
        <4>1. CASE q = p
          BY <1>10, <3>3, <4>1 DEF Harmless
        <4>2. CASE q # p
          <5>1. req'[q].user = req[q].user /\ req'[q].at = req[q].at
            BY <1>1, <1>5, <4>2 DEF Request
          <5> QED BY <2>2, <3>3, <5>1 DEF IInv, DeletedKnows
        <4> QED BY <4>1, <4>2
      <3> QED BY <3>1, <3>2, <3>3
    <2>3. CASE ~(account[v].status = "DELETED" /\ v \notin raced /\ account'[v] = account[v])
      <3>1. v = u
        BY <2>3
      <3>2. /\ account'[v].contact = NoContact /\ account'[v].photo = NoFile
            /\ account'[v].profile # "own" /\ v \notin devices' /\ keep = {}
            /\ \A q \in Requests \ {p} : req[q].user # v
        BY <2>3, <3>1
      <3>3. ASSUME NEW i \in Sessions, session'[i].user = v PROVE session'[i].state # "valid"
        BY <1>1, <1>2, <3>1, <3>2, <3>3 DEF SessionSet
      <3>4. ASSUME NEW q \in Requests, req'[q].user = v PROVE req'[q].at \in Harmless
        <4>1. q = p
          BY <1>5, <3>1, <3>2, <3>4
        <4> QED BY <1>10, <3>1, <4>1
      <3> QED BY <3>2, <3>3, <3>4
    <2> QED BY <2>2, <2>3
  <1> QED BY <1>3, <1>7, <1>8, <1>9, <1>11, <1>12, <1>13, Kept

\* The statements that end sessions and leave the account alone.
LEMMA EndingSteps ==
    ASSUME Assumed, IInv, NEW p \in Requests, RevokeAll(p) \/ RevokeOthers(p) \/ DeleteSessions(p)
    PROVE  IInv'
PROOF
  <1>1. PICK u : u = req[p].user
    OBVIOUS
  <1>2. PICK kept : kept = {req[p].session}
    OBVIOUS
  <1>3. /\ u \in Users /\ req[p].at # "idle" /\ req[p] \in Request
        /\ UNCHANGED <<mediaVars, account, token, devices, begun, drops, broken, raced>>
    BY <1>1 DEF RevokeAll, RevokeOthers, DeleteSessions, At, IInv, TypeOK, RequestKnows
  <1>4. account' \in [Users -> AccountSet] /\ raced' \subseteq Users
    BY <1>3 DEF IInv, TypeOK, AccountSet
  <1>5. CASE RevokeAll(p)
    <2> DEFINE mine == [req[p] EXCEPT !.at = "devicesOff"]
    <2>1. mine \in Request /\ mine.at = "devicesOff" /\ mine.user = u /\ mine.at \in Harmless
      BY <1>1, <1>3 DEF Request, Steps, Harmless
    <2>2. PICK r \in Request : r = mine
      BY <2>1
    <2>3. Revoke(u, {}, "revoked") /\ Overtake(p, u, r)
      BY <1>1, <1>5, <2>2 DEF RevokeAll
    <2> HIDE DEF mine
    <2> QED BY <1>1, <1>3, <1>4, <2>1, <2>2, <2>3, RevokeStep
  <1>6. Idle \in Request /\ Idle.at = "idle" /\ Idle.at \in Harmless
    BY Ends DEF Harmless
  <1>7. CASE RevokeOthers(p)
    <2>1. Revoke(u, kept, "revoked") /\ Overtake(p, u, Idle)
      BY <1>1, <1>2, <1>7 DEF RevokeOthers
    <2> QED BY <1>1, <1>3, <1>4, <1>6, <2>1, RevokeStep
  <1>8. CASE DeleteSessions(p)
    <2>1. Revoke(u, {}, "deleted") /\ Overtake(p, u, Idle)
      BY <1>1, <1>8 DEF DeleteSessions
    <2> QED BY <1>1, <1>3, <1>4, <1>6, <2>1, RevokeStep
  <1> QED BY <1>5, <1>7, <1>8

\* The deletion of an account: one transaction.
LEMMA DeleteStep ==
    ASSUME Assumed, IInv, NEW p \in Requests, DeleteMe(p)
    PROVE  IInv'
PROOF
  <1>1. PICK u : u = req[p].user
    OBVIOUS
  <1>2. /\ u \in Users /\ req[p].at # "idle" /\ account \in [Users -> AccountSet]
        /\ account' = [account EXCEPT ![u] = Anonymous(account[u])]
        /\ devices' = devices \ {u} /\ Revoke(u, {}, "revoked") /\ Overtake(p, u, Idle)
        /\ raced' = raced \cup {v \in {u} : \E q \in Requests \ {p} : req[q].user = u}
        /\ UNCHANGED <<mediaVars, token, begun, drops, broken>>
    BY <1>1 DEF DeleteMe, At, IInv, TypeOK, AccountSet, RequestKnows
  <1>3. /\ Anonymous(account[u]) \in AccountSet
        /\ Anonymous(account[u]).status = "DELETED" /\ Anonymous(account[u]).contact = NoContact
        /\ Anonymous(account[u]).photo = NoFile /\ Anonymous(account[u]).profile # "own"
    <2>1. account[u].pw + 1 \in Nat
      BY <1>2 DEF AccountSet
    <2> QED BY <1>2, <2>1 DEF AccountSet, Anonymous, Status
  <1>4. /\ account' \in [Users -> AccountSet] /\ account'[u] = Anonymous(account[u])
        /\ \A v \in Users \ {u} : account'[v] = account[v]
    BY <1>2, <1>3
  <1>5. /\ Idle \in Request /\ Idle.at = "idle" /\ Idle.at \in Harmless
        /\ raced' \subseteq Users /\ devices' \subseteq devices
    BY <1>2, Ends DEF Harmless, IInv, TypeOK
  <1>6. u \notin raced' => \A q \in Requests \ {p} : req[q].user # u
    BY <1>2
  <1>7. PICK keep : keep = {} /\ Revoke(u, keep, "revoked")
    BY <1>2
  <1> QED
    BY <1>1, <1>2, <1>3, <1>4, <1>5, <1>6, <1>7, RevokeStep

-----------------------------------------------------------------------------
(* The theorems *)

\* At first accounts are new, or active with a session.
LEMMA Starts == Assumed /\ Init => IInv
PROOF
  <1> SUFFICES ASSUME Assumed, Init PROVE IInv
    OBVIOUS
  <1> DEFINE Given(old, c, s) ==
                /\ account = [u \in Users |-> IF u \in old
                     THEN [status |-> "ACTIVE", contact |-> c[u], pw |-> 1, known |-> TRUE, profile |-> "own",
                           photo |-> NoFile]
                     ELSE NoAccount]
                /\ session = [i \in Sessions |-> IF \E u \in old : s[u] = i
                     THEN Open(CHOOSE u \in old : s[u] = i, 1, FALSE) ELSE Closed]
  <1>a. PICK old \in SUBSET Users :
           /\ \E c \in [old -> Contacts], s \in [old -> Sessions] :
                 /\ \A u, v \in old : u # v => c[u] # c[v] /\ s[u] # s[v]
                 /\ Given(old, c, s)
           /\ devices = old
    BY Zenon DEF Init
  <1>b. PICK c \in [old -> Contacts], s \in [old -> Sessions] : Given(old, c, s)
    BY <1>a
  <1>1. Given(old, c, s) /\ devices = old
    BY <1>a, <1>b
  <1>2. account \in [Users -> AccountSet] /\ \A u \in Users : account[u].status # "DELETED"
    BY <1>1 DEF AccountSet, NoAccount, Status
  <1>3. ASSUME NEW i \in Sessions
        PROVE  /\ session[i] \in SessionSet
               /\ \/ session[i] = Closed
                  \/ /\ session[i].user \in Users /\ session[i].state = "valid" /\ session[i].pw = 1
                     /\ account[session[i].user].status = "ACTIVE" /\ account[session[i].user].pw = 1
    <2>1. CASE \E u \in old : s[u] = i
      <3>1. PICK u \in old : u = (CHOOSE v \in old : s[v] = i)
        BY <2>1
      <3>2. session[i] = Open(u, 1, FALSE)
        BY <1>1, <2>1, <3>1
      <3>3. u \in Users /\ account[u].status = "ACTIVE" /\ account[u].pw = 1
        BY <1>1
      <3>4. /\ session[i].user = u /\ session[i].state = "valid" /\ session[i].pw = 1
            /\ session[i] \in SessionSet
        BY <3>2, <3>3 DEF Open, SessionSet
      <3> QED BY <3>3, <3>4
    <2>2. CASE ~\E u \in old : s[u] = i
      BY <1>1, <2>2 DEF Closed, SessionSet
    <2> QED BY <2>1, <2>2
  <1>4. session \in [Sessions -> SessionSet]
    BY <1>1, <1>3
  <1>5. MediaTypeOK /\ MediaKnows
    BY DEF Init, MediaInit, MediaTypeOK, MediaKnows, ReadyIsKept, MediaState, Object, Completion, NoUpload
  <1>6. TypeOK
    BY <1>1, <1>2, <1>4, <1>5, Ends DEF Init, TypeOK, AccountSet, SessionSet, Unissued, Purpose
  <1>7. RowsKnow
    <2>1. \A i \in Sessions : IF session[i].state = "none" THEN session[i] = Closed
             ELSE session[i].user \in Users /\ account[session[i].user].status # "NONE"
      <3>1. Closed.state = "none"
        BY DEF Closed
      <3> SUFFICES ASSUME NEW i \in Sessions
                   PROVE  IF session[i].state = "none" THEN session[i] = Closed
                          ELSE session[i].user \in Users /\ account[session[i].user].status # "NONE"
        OBVIOUS
      <3>2. CASE session[i] = Closed
        BY <3>1, <3>2
      <3>3. CASE session[i] # Closed
        BY <1>3, <3>3
      <3> QED BY <3>2, <3>3
    <2>2. \A t \in Tokens : token[t].state # "open"
      BY DEF Init, Unissued
    <2> QED BY <2>1, <2>2 DEF RowsKnow
  <1>8. \A p \in Requests : RequestKnows(p)
    BY DEF Init, RequestKnows, Idle
  <1>9. OldSessionsEnd
    <2> SUFFICES ASSUME NEW i \in Sessions, session[i].state = "valid"
                 PROVE  ~(session[i].pw < account[session[i].user].pw)
      BY DEF OldSessionsEnd
    <2> QED BY <1>3 DEF Closed
  <1>10. DeletedStaysBare /\ DeletedKnows
    BY <1>2 DEF DeletedStaysBare, DeletedKnows
  <1> QED BY <1>5, <1>6, <1>7, <1>8, <1>9, <1>10 DEF IInv

\* Every step keeps the invariant.
LEMMA StepInv == Assumed /\ IInv /\ [Next]_vars => IInv'
PROOF
  <1> SUFFICES ASSUME Assumed, IInv, [Next]_vars PROVE IInv'
    OBVIOUS
  <1>1. CASE Uploading
    BY <1>1, UploadingStep
  <1>2. ASSUME NEW p \in Requests, NEW u \in Users,
               \/ \E c \in Contacts : BeginRegister(p, u, c)
               \/ \E f \in Files \cup {NoFile}, c \in Contacts \cup {NoContact} :
                     BeginPatchMe(p, u, f, c)
        PROVE  IInv'
    <2>1. ASSUME NEW c \in Contacts, BeginRegister(p, u, c) PROVE IInv'
      BY <2>1, AccountBegins
    <2>2. ASSUME NEW f \in Files \cup {NoFile}, NEW k \in Contacts \cup {NoContact},
                 BeginPatchMe(p, u, f, k)
          PROVE  IInv'
      BY <2>2, PatchMeBegins
    <2> QED BY <1>2, <2>1, <2>2
  <1>3. ASSUME NEW p \in Requests, NEW u \in Users,
               \/ forgot_password(p, u) \/ resend_verification(p, u) \/ BeginLogin(p, u)
               \/ logout_all(p, u) \/ BeginPatchPassword(p, u) \/ BeginDeleteMe(p, u)
               \/ BeginRegisterDevice(p, u)
        PROVE  IInv'
    BY <1>3, AccountBegins
  <1>4. ASSUME NEW p \in Requests,
               \/ \E t \in Tokens, purpose \in Purpose : BeginConsume(p, t, purpose)
               \/ \E s \in Sessions : BeginRefresh(p, s) \/ BeginChange(p, s)
        PROVE  IInv'
    BY <1>4, RowBegins
  <1>5. ASSUME NEW p \in Requests,
               \/ InsertUser(p) \/ InsertProfile(p) \/ Activate(p) \/ SetPassword(p)
               \/ SaveProfile(p) \/ SavePhone(p) \/ UnlinkPhoto(p)
        PROVE  IInv'
    BY <1>5, AccountSteps
  <1>6. ASSUME NEW p \in Requests, UseTokens(p) \/ InsertToken(p) \/ UseToken(p) PROVE IInv'
    BY <1>6, TokenSteps
  <1>7. ASSUME NEW p \in Requests, Rotate(p) \/ OpenSession(p) PROVE IInv'
    BY <1>7, RotateStep, OpenStep
  <1>8. ASSUME NEW p \in Requests, RevokeAll(p) \/ RevokeOthers(p) \/ DeleteSessions(p) PROVE IInv'
    BY <1>8, EndingSteps
  <1>9. ASSUME NEW p \in Requests, DevicesOff(p) \/ RegisterDevice(p) \/ CheckPhoto(p) \/ Drop(p)
        PROVE  IInv'
    BY <1>9, OtherQuietSteps
  <1>10. ASSUME NEW p \in Requests, DeleteMe(p) PROVE IInv'
    BY <1>10, DeleteStep
  <1>11. ASSUME NEW s \in Sessions, logout(s) PROVE IInv'
    BY <1>11, LogoutStep
  <1>12. ASSUME NEW u \in Users, delete_device(u) PROVE IInv'
    BY <1>12, DeviceStep
  <1>13. ASSUME NEW u \in Users, NEW s \in Status \ {"NONE", "DELETED"}, PatchStatus(u, s) PROVE IInv'
    BY <1>13, PatchStatusStep
  <1>14. CASE UNCHANGED vars
    BY <1>14 DEF vars, mediaVars, accountVars, IInv, TypeOK, MediaTypeOK, MediaKnows, ReadyIsKept, RowsKnow,
                 RequestKnows, Ended, OldSessionsEnd, DeletedStaysBare, DeletedKnows
  <1> QED
    BY <1>1, <1>2, <1>3, <1>4, <1>5, <1>6, <1>7, <1>8, <1>9, <1>10, <1>11, <1>12, <1>13, <1>14
    DEF Next

\* What accounts, sessions, tokens, files and the requests about them may rely on.
THEOREM Accounts_Invariant == Spec => []IInv
PROOF
  <1>1. Assumed
    BY MediaAssumption, AccountsAssumption DEF Assumed
  <1> QED BY <1>1, Starts, StepInv, PTL DEF Spec

\* When a password was changed, reset or set by an admin, the sessions of the
\* older passwords are over, and those they were refreshed into, but for the one
\* change_password keeps and those of a login or refresh that overlapped, for any
\* number of users, sessions and requests (auth/service.rs, users_patch).
THEOREM Old_Sessions_End == Spec => []OldSessionsEnd
PROOF
  <1>1. IInv => OldSessionsEnd
    BY DEF IInv
  <1> QED BY <1>1, Accounts_Invariant, PTL

\* A deleted account stays bare, unless a request of the user was in flight while
\* it was deleted, whatever follows (delete_me of users/service.rs).
THEOREM Deleted_Stays_Bare == Spec => []DeletedStaysBare
PROOF
  <1>1. IInv => DeletedStaysBare
    BY DEF IInv
  <1> QED BY <1>1, Accounts_Invariant, PTL

\* A file that became READY while nobody else was at it stays READY and in the
\* store, although completion and clean-up write by id alone (media/service.rs,
\* bin/worker.rs).
THEOREM Ready_Is_Kept == Spec => []ReadyIsKept
PROOF
  <1>1. IInv => ReadyIsKept
    BY DEF IInv, MediaKnows
  <1> QED BY <1>1, Accounts_Invariant, PTL
=============================================================================
