------------------------------ MODULE Accounts ------------------------------
(***************************************************************************)
(* Accounts: registration, verification, login and refresh, passwords, the *)
(* profile and the deletion of an account (src/modules/auth/service.rs,    *)
(* src/modules/users/service.rs, users_patch of src/modules/admin/mod.rs), *)
(* together with the uploads a profile photo is chosen from (Media).       *)
(*                                                                         *)
(* No handler but delete_me runs in a transaction: each statement is a     *)
(* step, and a request may die between two.  A password is the number of   *)
(* the change it came from; email and phone are one contact.  Roles, names *)
(* of devices, activity events and the moment a token expires are left     *)
(* out: a client may always find its token expired, by not using it.       *)
(***************************************************************************)
EXTENDS Media

CONSTANTS
    Users, Contacts, Nobody,
    NoContact,
    Sessions,        \* rows of user_sessions
    Tokens,          \* rows of auth_action_tokens
    NoSession, NoToken,
    Requests,        \* requests in flight, those of Media aside
    MaxInFlight,     \* bound on requests in flight at once
    MaxBegun,        \* bound on requests, of Media and here
    MaxDrops         \* bound on requests that die between two statements

ASSUME AccountsAssumption ==
    /\ Owners = Users /\ NoOwner = Nobody /\ Nobody \notin Users
    /\ NoContact \notin Contacts /\ NoSession \notin Sessions /\ NoToken \notin Tokens
    /\ MaxInFlight \in Nat /\ MaxBegun \in Nat /\ MaxDrops \in Nat

VARIABLES
    account,         \* users and user_profiles
    session,         \* user_sessions
    token,           \* auth_action_tokens
    devices,         \* users with an active device
    req,             \* requests in flight
    begun, drops,    \* requests begun, requests that died
    broken,          \* users a password request died for
    raced            \* users deleted while another request of theirs was in flight

accountVars == <<account, session, token, devices, req, begun, drops, broken, raced>>
vars        == <<mediaVars, accountVars>>

Status  == {"NONE", "PENDING_VERIFICATION", "ACTIVE", "SUSPENDED", "DEACTIVATED", "DELETED"}
Purpose == {"EMAIL_VERIFY", "PASSWORD_RESET"}
Steps   == {"idle", "insertUser", "insertProfile", "useTokens", "insertToken", "useToken",
            "activate", "setPassword", "openSession", "rotate", "revokeAll", "revokeOthers",
            "deleteSessions", "devicesOff", "deleteMe", "checkPhoto", "saveProfile",
            "savePhone", "unlinkPhoto", "registerDevice"}

\* A request: its user, the rows it is about, the password it proved, the
\* step that follows the password's change, and whether the user's sessions
\* were ended while it ran.
Request == [at : Steps, user : Users \cup {Nobody}, contact : Contacts \cup {NoContact},
            session : Sessions \cup {NoSession}, token : Tokens \cup {NoToken},
            photo : Files \cup {NoFile}, purpose : Purpose, pw : Nat,
            next : {"revokeAll", "revokeOthers", "deleteSessions"}, over : BOOLEAN]
Idle == [at |-> "idle", user |-> Nobody, contact |-> NoContact, session |-> NoSession,
         token |-> NoToken, photo |-> NoFile, purpose |-> "EMAIL_VERIFY", pw |-> 0,
         next |-> "revokeAll", over |-> FALSE]
Task(step, u) == [Idle EXCEPT !.at = step, !.user = u]

NoAccount == [status |-> "NONE", contact |-> NoContact, pw |-> 0, known |-> FALSE, profile |-> "none",
              photo |-> NoFile]
Closed    == [state |-> "none", user |-> Nobody, pw |-> 0, excused |-> FALSE]
Open(u, w, excused) == [state |-> "valid", user |-> u, pw |-> w, excused |-> excused]
Unissued  == [state |-> "none", user |-> Nobody, purpose |-> "EMAIL_VERIFY"]

TypeOK ==
    /\ MediaTypeOK
    /\ account \in [Users -> [status : Status, contact : Contacts \cup {NoContact}, pw : Nat,
                              known : BOOLEAN, profile : {"none", "own", "deleted"}, photo : Files \cup {NoFile}]]
    /\ session \in [Sessions -> [state : {"none", "valid", "revoked", "deleted"},
                                 user : Users \cup {Nobody}, pw : Nat, excused : BOOLEAN]]
    /\ token   \in [Tokens -> [state : {"none", "open", "used"}, user : Users \cup {Nobody},
                               purpose : Purpose]]
    /\ devices \subseteq Users
    /\ req     \in [Requests -> Request]
    /\ begun \in Nat /\ drops \in Nat
    /\ broken \subseteq Users /\ raced \subseteq Users

\* Each account is new, or an active one with a session.
Init ==
    /\ MediaInit
    /\ \E old \in SUBSET Users :
         /\ \E c \in [old -> Contacts], s \in [old -> Sessions] :
               /\ \A u, v \in old : u # v => c[u] # c[v] /\ s[u] # s[v]
               /\ account = [u \in Users |-> IF u \in old
                     THEN [status |-> "ACTIVE", contact |-> c[u], pw |-> 1, known |-> TRUE, profile |-> "own",
                           photo |-> NoFile]
                     ELSE NoAccount]
               /\ session = [i \in Sessions |-> IF \E u \in old : s[u] = i
                     THEN Open(CHOOSE u \in old : s[u] = i, 1, FALSE) ELSE Closed]
         /\ devices = old
    /\ token = [t \in Tokens |-> Unissued]
    /\ req   = [p \in Requests |-> Idle]
    /\ begun = 0 /\ drops = 0
    /\ broken = {} /\ raced = {}

-----------------------------------------------------------------------------
(* Requests *)

At(p, step) == req[p].at = step

InFlight == Quantify(Requests, LAMBDA p : req[p] # Idle)
            + Quantify(Uploads, LAMBDA p : up[p] # NoUpload)

MayBegin == InFlight < MaxInFlight /\ begun < MaxBegun /\ begun' = begun + 1

Begin(p, task) ==
    /\ req[p] = Idle
    /\ MayBegin
    /\ req' = [req EXCEPT ![p] = task]
    /\ UNCHANGED <<mediaVars, account, session, token, devices, drops, broken, raced>>

Goto(p, step) == req' = [req EXCEPT ![p].at = step]
End(p)        == req' = [req EXCEPT ![p] = Idle]

\* The sessions of u are ended under the eyes of its other requests.
Overtake(p, u, mine) ==
    req' = [q \in Requests |->
              IF q = p THEN mine
              ELSE IF req[q].user = u THEN [req[q] EXCEPT !.over = TRUE] ELSE req[q]]

\* try_current_user: the bearer of a token whose session row was once opened,
\* revoked or not, for a quarter of an hour; a deleted account is refused.
CurrentUser(u)   == /\ \E s \in Sessions : session[s].user = u
                    /\ account[u].status \notin {"NONE", "DELETED"}
require_active(u) == CurrentUser(u) /\ account[u].status = "ACTIVE"

SetAccount(u, field, v) == account' = [account EXCEPT ![u][field] = v]

\* A deleted account; its password is NULL then: one that nobody knows.
Anonymous(a) == [a EXCEPT !.status = "DELETED", !.contact = NoContact, !.pw = @ + 1, !.known = FALSE,
                          !.photo = NoFile, !.profile = IF @ = "none" THEN "none" ELSE "deleted"]

\* Sessions of u in state valid become state s, but for those in keep, which
\* outlive the password they came from by intent.
Revoke(u, keep, s) ==
    session' = [i \in Sessions |->
        IF session[i].user # u THEN session[i]
        ELSE IF i \in keep THEN [session[i] EXCEPT !.excused = TRUE]
        ELSE IF session[i].state = "valid" \/ s = "deleted"
        THEN [session[i] EXCEPT !.state = s]
        ELSE session[i]]

-----------------------------------------------------------------------------
(* Faults the code could have *)

\* A refresh token is good whether or not its session was revoked.
BeginRefreshAny(p, s) ==
    /\ session[s].state \in {"valid", "revoked"}
    /\ Begin(p, [Task("rotate", session[s].user) EXCEPT !.session = s, !.pw = session[s].pw])

\* A deleted account keeps its sessions.
DeleteMeKeeping(p) ==
    /\ At(p, "deleteMe")
    /\ LET u == req[p].user IN
         /\ account' = [account EXCEPT ![u] = Anonymous(@)]
         /\ devices' = devices \ {u}
         /\ raced'   = raced \cup {v \in {u} : \E q \in Requests \ {p} : req[q].user = u}
         /\ Overtake(p, u, Idle)
    /\ UNCHANGED <<mediaVars, session, token, begun, drops, broken>>

-----------------------------------------------------------------------------
(* register, tokens by mail *)

\* The contact is looked up, then inserted; a unique key settles a race.
BeginRegister(p, u, c) ==
    /\ account[u].status = "NONE"
    /\ \A v \in Users : account[v].contact # c
    /\ Begin(p, [Task("insertUser", u) EXCEPT !.contact = c])

InsertUser(p) ==
    /\ At(p, "insertUser")
    /\ LET u == req[p].user IN
         IF account[u].status = "NONE" /\ \A v \in Users : account[v].contact # req[p].contact
         THEN /\ account' = [account EXCEPT ![u] = [NoAccount EXCEPT
                    !.status = "PENDING_VERIFICATION", !.contact = req[p].contact, !.pw = 1, !.known = TRUE]]
              /\ Goto(p, "insertProfile")
         ELSE End(p) /\ UNCHANGED account
    /\ UNCHANGED <<mediaVars, session, token, devices, begun, drops, broken, raced>>

\* A name may be missing.  Role and consent follow, each in its own statement.
InsertProfile(p) ==
    /\ At(p, "insertProfile")
    /\ \E name \in {"none", "own"} : SetAccount(req[p].user, "profile", name)
    /\ Goto(p, "useTokens")
    /\ UNCHANGED <<mediaVars, session, token, devices, begun, drops, broken, raced>>

forgot_password(p, u) ==
    /\ account[u].contact # NoContact
    /\ Begin(p, [Task("useTokens", u) EXCEPT !.purpose = "PASSWORD_RESET"])

resend_verification(p, u) ==
    /\ CurrentUser(u)
    /\ account[u].status # "ACTIVE" /\ account[u].contact # NoContact
    /\ Begin(p, Task("useTokens", u))

\* create_action_token: the earlier tokens are used up, then one is added.
UseTokens(p) ==
    /\ At(p, "useTokens")
    /\ token' = [t \in Tokens |->
          IF /\ token[t].user = req[p].user /\ token[t].purpose = req[p].purpose
             /\ token[t].state = "open"
          THEN [token[t] EXCEPT !.state = "used"] ELSE token[t]]
    /\ Goto(p, "insertToken")
    /\ UNCHANGED <<mediaVars, account, session, devices, begun, drops, broken, raced>>

InsertToken(p) ==
    /\ At(p, "insertToken")
    /\ \E t \in Tokens :
          /\ token[t].state = "none"
          /\ token' = [token EXCEPT ![t] = [state |-> "open", user |-> req[p].user,
                                            purpose |-> req[p].purpose]]
    /\ End(p)
    /\ UNCHANGED <<mediaVars, account, session, devices, begun, drops, broken, raced>>

\* consume_action_token is shared: a token is used up even if it turns out to
\* be one of the other purpose.
BeginConsume(p, t, purpose) ==
    /\ token[t].state = "open"
    /\ Begin(p, [Task("useToken", token[t].user) EXCEPT !.token = t, !.purpose = purpose])

UseToken(p) ==
    /\ At(p, "useToken")
    /\ LET t == req[p].token IN
         /\ token' = [token EXCEPT ![t].state = "used"]
         /\ CASE token[t].purpose # req[p].purpose -> End(p)
              [] req[p].purpose = "EMAIL_VERIFY"   -> Goto(p, "activate")
              [] OTHER                             -> Goto(p, "setPassword")
    /\ UNCHANGED <<mediaVars, account, session, devices, begun, drops, broken, raced>>

\* verify_email
Activate(p) ==
    /\ At(p, "activate")
    /\ LET u == req[p].user IN
         IF account[u].status = "PENDING_VERIFICATION"
         THEN SetAccount(u, "status", "ACTIVE") ELSE UNCHANGED account
    /\ End(p)
    /\ UNCHANGED <<mediaVars, session, token, devices, begun, drops, broken, raced>>

-----------------------------------------------------------------------------
(* Sessions *)

\* login: the right password of an ACTIVE account.
BeginLogin(p, u) ==
    /\ account[u].status = "ACTIVE" /\ account[u].contact # NoContact /\ account[u].known
    /\ Begin(p, [Task("openSession", u) EXCEPT !.pw = account[u].pw])

BeginRefresh(p, s) ==
    /\ session[s].state = "valid"
    /\ Begin(p, [Task("rotate", session[s].user) EXCEPT !.session = s, !.pw = session[s].pw])

\* By id alone: it is all the same if another refresh has done so before.
Rotate(p) ==
    /\ At(p, "rotate")
    /\ LET s == req[p].session IN
         session' = IF session[s].state = "deleted" THEN session
                    ELSE [session EXCEPT ![s].state = "revoked"]
    /\ Goto(p, "openSession")
    /\ UNCHANGED <<mediaVars, account, token, devices, begun, drops, broken, raced>>

OpenSession(p) ==
    /\ At(p, "openSession")
    /\ LET s == req[p].session IN
         \E i \in Sessions :
            /\ session[i].state = "none"
            /\ session' = [session EXCEPT ![i] = Open(req[p].user, req[p].pw,
                 req[p].over \/ (s # NoSession /\ session[s].excused))]
    /\ End(p)
    /\ UNCHANGED <<mediaVars, account, token, devices, begun, drops, broken, raced>>

\* The device of a session is never set, so the second statement of logout
\* finds none to switch off.
logout(s) ==
    /\ session[s].state # "none" /\ CurrentUser(session[s].user)
    /\ MayBegin
    /\ session' = [session EXCEPT ![s].state = IF @ = "valid" THEN "revoked" ELSE @]
    /\ UNCHANGED <<mediaVars, account, token, devices, req, drops, broken, raced>>

logout_all(p, u) == CurrentUser(u) /\ Begin(p, Task("revokeAll", u))

RevokeAll(p) ==
    /\ At(p, "revokeAll")
    /\ Revoke(req[p].user, {}, "revoked")
    /\ Overtake(p, req[p].user, [req[p] EXCEPT !.at = "devicesOff"])
    /\ UNCHANGED <<mediaVars, account, token, devices, begun, drops, broken, raced>>

DevicesOff(p) ==
    /\ At(p, "devicesOff")
    /\ devices' = devices \ {req[p].user}
    /\ End(p)
    /\ UNCHANGED <<mediaVars, account, session, token, begun, drops, broken, raced>>

-----------------------------------------------------------------------------
(* Passwords *)

\* The old password was right when it was read.
BeginChange(p, s) ==
    /\ session[s].state # "none" /\ CurrentUser(session[s].user)
    /\ account[session[s].user].known
    /\ Begin(p, [Task("setPassword", session[s].user) EXCEPT !.session = s,
                                                             !.next = "revokeOthers"])

\* users_patch with a password
BeginPatchPassword(p, u) ==
    /\ account[u].status # "NONE"
    /\ Begin(p, [Task("setPassword", u) EXCEPT !.next = "deleteSessions"])

\* reset_password, change_password and users_patch all write by id.
SetPassword(p) ==
    /\ At(p, "setPassword")
    /\ account' = [account EXCEPT ![req[p].user].pw = @ + 1, ![req[p].user].known = TRUE]
    /\ Goto(p, req[p].next)
    /\ UNCHANGED <<mediaVars, session, token, devices, begun, drops, broken, raced>>

RevokeOthers(p) ==
    /\ At(p, "revokeOthers")
    /\ Revoke(req[p].user, {req[p].session}, "revoked")
    /\ Overtake(p, req[p].user, Idle)
    /\ UNCHANGED <<mediaVars, account, token, devices, begun, drops, broken, raced>>

DeleteSessions(p) ==
    /\ At(p, "deleteSessions")
    /\ Revoke(req[p].user, {}, "deleted")
    /\ Overtake(p, req[p].user, Idle)
    /\ UNCHANGED <<mediaVars, account, token, devices, begun, drops, broken, raced>>

\* users_patch with a status: any but DELETED, from any, DELETED too.
PatchStatus(u, s) ==
    /\ account[u].status \notin {"NONE", s}
    /\ MayBegin
    /\ SetAccount(u, "status", s)
    /\ UNCHANGED <<mediaVars, session, token, devices, req, drops, broken, raced>>

-----------------------------------------------------------------------------
(* Profile *)

BeginPatchMe(p, u, f, phone) ==
    /\ require_active(u)
    /\ Begin(p, [Task(IF f = NoFile THEN "saveProfile" ELSE "checkPhoto", u)
                   EXCEPT !.photo = f, !.contact = phone])

\* The photo must be a READY media of one's own.
CheckPhoto(p) ==
    /\ At(p, "checkPhoto")
    /\ LET f == req[p].photo IN
         IF media[f].owner = req[p].user /\ media[f].status = "READY"
         THEN Goto(p, "saveProfile") ELSE End(p)
    /\ UNCHANGED <<mediaVars, account, session, token, devices, begun, drops, broken, raced>>

\* Insert or update; what the client did not send stays, but for the name.
SaveProfile(p) ==
    /\ At(p, "saveProfile")
    /\ LET u == req[p].user IN
         account' = [account EXCEPT ![u].profile = "own",
                       ![u].photo = IF req[p].photo = NoFile THEN @ ELSE req[p].photo]
    /\ Goto(p, IF req[p].contact = NoContact THEN "unlinkPhoto" ELSE "savePhone")
    /\ UNCHANGED <<mediaVars, session, token, devices, begun, drops, broken, raced>>

\* A contact of another account violates a unique key.
SavePhone(p) ==
    /\ At(p, "savePhone")
    /\ LET u == req[p].user IN
         IF \A v \in Users \ {u} : account[v].contact # req[p].contact
         THEN SetAccount(u, "contact", req[p].contact) /\ Goto(p, "unlinkPhoto")
         ELSE End(p) /\ UNCHANGED account
    /\ UNCHANGED <<mediaVars, session, token, devices, begun, drops, broken, raced>>

\* remove_photo or not
UnlinkPhoto(p) ==
    /\ At(p, "unlinkPhoto")
    /\ \E f \in {NoFile, account[req[p].user].photo} : SetAccount(req[p].user, "photo", f)
    /\ End(p)
    /\ UNCHANGED <<mediaVars, session, token, devices, begun, drops, broken, raced>>

BeginDeleteMe(p, u) == require_active(u) /\ Begin(p, Task("deleteMe", u))

\* One transaction.
DeleteMe(p) ==
    /\ At(p, "deleteMe")
    /\ LET u == req[p].user IN
         /\ account' = [account EXCEPT ![u] = Anonymous(@)]
         /\ devices' = devices \ {u}
         /\ Revoke(u, {}, "revoked")
         /\ raced'   = raced \cup {v \in {u} : \E q \in Requests \ {p} : req[q].user = u}
         /\ Overtake(p, u, Idle)
    /\ UNCHANGED <<mediaVars, token, begun, drops, broken>>

BeginRegisterDevice(p, u) == require_active(u) /\ Begin(p, Task("registerDevice", u))

\* The upsert switches a device on again; whose it is, is in Outbox.
RegisterDevice(p) ==
    /\ At(p, "registerDevice")
    /\ devices' = devices \cup {req[p].user}
    /\ End(p)
    /\ UNCHANGED <<mediaVars, account, session, token, begun, drops, broken, raced>>

\* The last active device is removed.
delete_device(u) ==
    /\ CurrentUser(u) /\ u \in devices
    /\ MayBegin
    /\ devices' = devices \ {u}
    /\ UNCHANGED <<mediaVars, account, session, token, req, drops, broken, raced>>

-----------------------------------------------------------------------------

Drop(p) ==
    /\ req[p] # Idle
    /\ drops < MaxDrops
    /\ drops'  = drops + 1
    /\ broken' = broken \cup {u \in {req[p].user} :
                    req[p].at \in {"revokeAll", "revokeOthers", "deleteSessions"}}
    /\ End(p)
    /\ UNCHANGED <<mediaVars, account, session, token, devices, begun, raced>>

\* Uploads of an active user, who needs to be active at the start only.
Uploading ==
    /\ \/ MediaNext /\ UNCHANGED begun
       \/ /\ MayBegin
          /\ \E u \in Users, f \in Files : /\ require_active(u)
                                           /\ \/ create_upload(u, f)
                                              \/ \E p \in Uploads : BeginComplete(p, u, f)
    /\ UNCHANGED <<account, session, token, devices, req, drops, broken, raced>>

Next ==
    \/ Uploading
    \/ \E p \in Requests :
          \/ \E u \in Users :
                \/ \E c \in Contacts : BeginRegister(p, u, c)
                \/ \E f \in Files \cup {NoFile}, c \in Contacts \cup {NoContact} :
                      BeginPatchMe(p, u, f, c)
                \/ forgot_password(p, u) \/ resend_verification(p, u)
                \/ BeginLogin(p, u) \/ logout_all(p, u) \/ BeginPatchPassword(p, u)
                \/ BeginDeleteMe(p, u) \/ BeginRegisterDevice(p, u)
          \/ \E t \in Tokens, purpose \in Purpose : BeginConsume(p, t, purpose)
          \/ \E s \in Sessions : BeginRefresh(p, s) \/ BeginChange(p, s)
          \/ InsertUser(p) \/ InsertProfile(p) \/ UseTokens(p) \/ InsertToken(p)
          \/ UseToken(p) \/ Activate(p) \/ Rotate(p) \/ OpenSession(p) \/ RevokeAll(p)
          \/ DevicesOff(p) \/ SetPassword(p) \/ RevokeOthers(p) \/ DeleteSessions(p)
          \/ CheckPhoto(p) \/ SaveProfile(p) \/ SavePhone(p) \/ UnlinkPhoto(p)
          \/ DeleteMe(p) \/ RegisterDevice(p) \/ Drop(p)
    \/ \E s \in Sessions : logout(s)
    \/ \E u \in Users : delete_device(u)
    \/ \E u \in Users, s \in Status \ {"NONE", "DELETED"} : PatchStatus(u, s)

Spec == Init /\ [][Next]_vars

-----------------------------------------------------------------------------
(* Properties *)

\* When a password was changed, reset, or set by an admin, and the request
\* got through, the sessions of the older passwords are over, and so are all
\* they were refreshed into: but for the one change_password keeps, and for
\* those of a login or refresh that overlapped with the request.
OldSessionsEnd ==
    \A s \in Sessions :
        LET u == session[s].user IN
        session[s].state = "valid" /\ session[s].pw < account[u].pw =>
            \/ session[s].excused \/ u \in broken
            \/ \E p \in Requests : req[p].user = u
                  /\ req[p].at \in {"revokeAll", "revokeOthers", "deleteSessions"}

\* A deleted account stays bare: no contact, no name or photo of the user, no
\* session and no device comes back to it, unless a request of the user was in
\* flight while it was deleted.
DeletedStaysBare ==
    \A u \in Users : account[u].status = "DELETED" /\ u \notin raced =>
        /\ account[u].contact = NoContact /\ account[u].photo = NoFile
        /\ account[u].profile # "own"
        /\ u \notin devices
        /\ \A s \in Sessions : session[s].user = u => session[s].state # "valid"

-----------------------------------------------------------------------------
(* The inductive invariant *)

\* The sessions of u are about to be ended, or the request to do so died.
Ending == {"revokeAll", "revokeOthers", "deleteSessions"}
Ended(u) == u \in broken \/ \E p \in Requests : req[p].user = u /\ req[p].at \in Ending

\* Requests that leave a deleted account as bare as it is.
Harmless == {"idle", "useToken", "activate", "setPassword", "devicesOff"} \cup Ending

\* What a request of a user with an account may rely on; a refresh under way
\* brings back no older password than its session is excused for.
RequestKnows(p) ==
    LET u == req[p].user IN
    /\ req[p].at # "idle" => u \in Users
    /\ req[p].at = "rotate" =>
          req[p].session \in Sessions /\ session[req[p].session].state # "none"
    /\ req[p].at \in {"rotate", "openSession"} =>
          /\ account[u].status # "NONE"
          /\ req[p].pw < account[u].pw =>
                \/ req[p].over \/ Ended(u)
                \/ req[p].session # NoSession /\ session[req[p].session].excused

RowsKnow ==
    /\ \A s \in Sessions :
          IF session[s].state = "none" THEN session[s] = Closed
          ELSE session[s].user \in Users /\ account[session[s].user].status # "NONE"
    /\ \A t \in Tokens : token[t].state = "open" => token[t].user \in Users

\* A deleted account has no request in flight that could dress it again.
DeletedKnows ==
    \A u \in Users : account[u].status = "DELETED" /\ u \notin raced =>
        \A p \in Requests : req[p].user = u => req[p].at \in Harmless

IInv == /\ TypeOK
        /\ MediaKnows
        /\ RowsKnow
        /\ \A p \in Requests : RequestKnows(p)
        /\ OldSessionsEnd
        /\ DeletedStaysBare /\ DeletedKnows

-----------------------------------------------------------------------------
(* Statements of the source the code does not live up to *)

\* "soft-DELETED + anonymize PII" (users/service.rs:94): patch_me that passed
\* its gate before writes the name afterwards.
DeletedIsBare ==
    \A u \in Users : account[u].status = "DELETED" =>
        account[u].contact = NoContact /\ account[u].profile # "own"

\* "refresh rotation" (middleware/auth.rs:115): a session has at most one
\* successor.  Two refreshes that overlap open two.
RotationIsOneToOne ==
    \A p, q \in Requests : p # q /\ At(p, "openSession") /\ At(q, "openSession") =>
        req[p].session = NoSession \/ req[p].session # req[q].session
=============================================================================
