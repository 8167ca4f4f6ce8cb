------------------------------ MODULE Accounts ------------------------------
(***************************************************************************)
(* Local accounts and their credentials: the bootstrap administrator that   *)
(* every replica seeds at boot, users, direct and group permissions, API    *)
(* tokens, password sessions and reset links.  A request is a sequence of   *)
(* database statements, and the statements of concurrent requests           *)
(* interleave; nothing but single statements and the UNIQUE constraints is  *)
(* atomic.                                                                  *)
(*                                                                          *)
(* internal/handlers/{auth,tokens,admin_users,admin_groups}.go,             *)
(* internal/services/{user,permission,group,token,reset_token,              *)
(* admin_seed}.go, internal/middleware/auth.go, cmd/indelible/main.go.      *)
(***************************************************************************)
EXTENDS Integers, FiniteSets

CONSTANTS
    Users,          \* ids of users
    Emails,         \* addresses
    AdminEmail,     \* INDELIBLE_ADMIN_EMAIL
    Subjects,       \* external ids, which are also subjects of the identity provider
    Groups,         \* ids of groups
    Tokens,         \* ids of api_tokens
    Links,          \* ids of one-time links: password_reset_tokens, email_verification_tokens
    Clients,        \* requests served at the same time
    Replicas,       \* instances that boot on one database
    RequestSets,    \* bound: kinds of request (and "tick") explored together
    None,           \* no address, no subject, no user
    MaxOps,         \* bound on requests
    MaxTime,        \* bound on the clock, in seconds
    MaxBootCrashes, \* bound on crashes of a booting replica
    MaxFaults       \* bound on failed revocations, and on updates that fail before theirs

ASSUME AccountAssumption ==
    /\ AdminEmail \in Emails /\ None \notin Users \cup Emails \cup Subjects
    /\ Replicas # {}
    /\ MaxOps \in Nat /\ MaxTime \in Nat /\ MaxBootCrashes \in Nat /\ MaxFaults \in Nat

VARIABLES
    \* the database
    user,       \* users: [st, active, email, ext, svc, verified, pwv, pwAt]; pwv counts passwords, 0 is none
    direct,     \* user_permissions
    group,      \* groups: [present, active, level]
    members,    \* group_members
    token,      \* api_tokens: [st, owner]
    link,       \* password_reset_tokens and email_verification_tokens: [st, owner, kind]
    \* outside the database
    session,    \* session tokens handed out: [owner, iat, ver]
    req,        \* what each request has read and where it stands, as Idle
    boot,       \* where each replica's boot stands
    now,
    \* history and bounds
    doomed,     \* tokens that a deactivation or a deletion has to revoke, and did not end without revoking
    late,       \* tokens inserted after the revocation of a deletion under way
    ops,        \* requests so far, and the kinds that this behaviour explores: [n, kinds]
    crashes, faults

dbVars    == <<user, direct, group, members, token, link>>
bounds    == <<crashes, faults>>
hist      == <<doomed, late, bounds>>
env       == <<session, boot, now, hist>>
reqVars   == <<req, ops>>
notUser   == <<direct, group, members, token, link>>
accVars   == <<dbVars, session, req, boot, now, doomed, late, ops, bounds>>

Levels   == {"none", "read", "write", "admin"}
Rank(l)  == CASE l = "admin" -> 3 [] l = "write" -> 2 [] l = "read" -> 1 [] l = "none" -> 0
NoUser   == [st |-> "none", active |-> FALSE, email |-> None, ext |-> None,
             svc |-> FALSE, verified |-> FALSE, pwv |-> 0, pwAt |-> 0]
NoGroup  == [present |-> FALSE, active |-> FALSE, level |-> "none"]
NoToken  == [st |-> "none", owner |-> None]
NoLink   == [st |-> "none", owner |-> None, kind |-> "none"]
Idle     == [pc |-> "idle", u |-> None, x |-> None, ver |-> 0, kind |-> "none",
             was |-> FALSE, on |-> FALSE, lvl |-> "none"]

\* The states before the first boot: an empty database.
AccInit ==
    /\ user = [u \in Users |-> NoUser] /\ direct = [u \in Users |-> "none"]
    /\ group = [g \in Groups |-> NoGroup] /\ members = [g \in Groups |-> {}]
    /\ token = [t \in Tokens |-> NoToken] /\ link = [x \in Links |-> NoLink]
    /\ session = {} /\ req = [c \in Clients |-> Idle] /\ boot = [r \in Replicas |-> "count"]
    /\ now = 0 /\ doomed = {} /\ late = {} /\ crashes = 0 /\ faults = 0
    /\ ops \in [n : {0}, kinds : RequestSets]

-----------------------------------------------------------------------------
(* Queries.                                                                 *)

\* Rows that GetByID and GetByEmail find: not soft-deleted.
GetByID(u)      == user[u].st = "live"
GetByEmail(e)   == {u \in Users : GetByID(u) /\ user[u].email = e}

\* UNIQUE(email) spans deleted rows too, whose address SoftDelete has suffixed.
EmailTaken(e)   == \E u \in Users : user[u].st # "none" /\ user[u].email = e

highest(a, b)   == IF Rank(a) >= Rank(b) THEN a ELSE b

\* Groups that grant their level to u.
GroupsOf(u)     == {g \in Groups : u \in members[g] /\ group[g].active}

GetEffective(u) ==
    LET best == IF GroupsOf(u) = {} THEN "none"
                ELSE group[CHOOSE g \in GroupsOf(u) :
                             \A k \in GroupsOf(u) : Rank(group[k].level) <= Rank(group[g].level)].level
    IN  highest(direct[u], best)

IsAdmin(u)      == GetEffective(u) = "admin"

CountAdmins ==
    Cardinality({u \in Users : /\ user[u].st = "live" /\ user[u].active
                               /\ \/ direct[u] = "admin"
                                  \/ \E g \in Groups : /\ u \in members[g] /\ group[g].active
                                                       /\ group[g].level = "admin"})

\* Mutant: sub-second precision on one side, so a login in the second of the change is refused.
MutSessionAccepted(s) ==
    /\ GetByID(s.owner) /\ user[s.owner].active
    /\ user[s.owner].pwAt > 0 => s.iat > user[s.owner].pwAt

\* Authenticate, session token: the owner is live and active, and the token was not
\* issued in a second before that of the last password change.
SessionAccepted(s) ==
    /\ GetByID(s.owner) /\ user[s.owner].active
    /\ s.iat >= user[s.owner].pwAt

\* Authenticate, API token: ValidateSecret skips revoked and expired rows.
ValidateSecret(t) ==
    token[t].st = "live" /\ GetByID(token[t].owner) /\ user[token[t].owner].active

Authenticated(u) ==
    \/ \E s \in session : s.owner = u /\ SessionAccepted(s)
    \/ \E t \in Tokens : token[t].owner = u /\ ValidateSecret(t)

RequireAdmin(u) == Authenticated(u) /\ IsAdmin(u)

-----------------------------------------------------------------------------
(* Statements.                                                              *)

\* Mutant: the address of another row is accepted.
MutInsertUser(u, e, ext, svc, pwv) ==
    /\ user[u].st = "none"
    /\ user' = [user EXCEPT ![u] = [st |-> "live", active |-> TRUE, email |-> e, ext |-> ext,
                                    svc |-> svc, verified |-> FALSE, pwv |-> pwv, pwAt |-> 0]]

\* What the unique indexes on email and on external_id let in; both span deleted rows.
Insertable(e, ext) == ~EmailTaken(e) /\ (ext # None => \A v \in Users : user[v].ext # ext)

\* The INSERT of Create, CreateServiceAccount and CreateFromSCIM; AUTOINCREMENT
\* never reuses an id.
InsertUser(u, e, ext, svc, pwv) ==
    /\ user[u].st = "none" /\ Insertable(e, ext)
    /\ user' = [user EXCEPT ![u] = [st |-> "live", active |-> TRUE, email |-> e, ext |-> ext,
                                    svc |-> svc, verified |-> FALSE, pwv |-> pwv, pwAt |-> 0]]

\* UpdatePassword: the hash and the time of the change in one statement.
UpdatePassword(u) == user' = [user EXCEPT ![u].pwv = @ + 1, ![u].pwAt = now]

\* Revoke and BulkRevoke touch only rows that are not revoked yet.
Revoke(S) ==
    token' = [t \in Tokens |-> IF t \in S /\ token[t].st = "live"
                               THEN [token[t] EXCEPT !.st = "revoked"] ELSE token[t]]

RevokeAllByUser(u) == Revoke({t \in Tokens : token[t].owner = u})

LiveTokens(u) == {t \in Tokens : token[t].owner = u /\ token[t].st = "live"}

-----------------------------------------------------------------------------
(* Boot: SeedAdmin, then CountAdmins; a replica without an administrator     *)
(* exits and is restarted.                                                   *)

BootCount(r) ==
    /\ boot[r] = "count"
    /\ boot' = [boot EXCEPT ![r] = IF CountAdmins > 0 THEN "check" ELSE "create"]
    /\ UNCHANGED <<dbVars, reqVars, session, now, hist>>

\* userSvc.Create: a replica that finds the address taken creates nothing.
BootCreate(r) ==
    /\ boot[r] = "create"
    /\ \/ /\ \E u \in Users : InsertUser(u, AdminEmail, None, FALSE, 1)
          /\ boot' = [boot EXCEPT ![r] = "grant"]
       \/ /\ EmailTaken(AdminEmail) /\ UNCHANGED user
          /\ boot' = [boot EXCEPT ![r] = "check"]
    /\ UNCHANGED <<notUser, reqVars, session, now, hist>>

BootGrant(r) ==
    /\ boot[r] = "grant"
    /\ \E u \in GetByEmail(AdminEmail) : direct' = [direct EXCEPT ![u] = "admin"]
    /\ boot' = [boot EXCEPT ![r] = "check"]
    /\ UNCHANGED <<user, group, members, token, link, reqVars, session, now, hist>>

\* The check after seeding: serve, or exit to be restarted.
BootCheck(r) ==
    /\ boot[r] = "check"
    /\ boot' = [boot EXCEPT ![r] = IF CountAdmins > 0 THEN "up" ELSE "count"]
    /\ UNCHANGED <<dbVars, reqVars, session, now, hist>>

BootCrash(r) ==
    /\ boot[r] # "up" /\ crashes < MaxBootCrashes
    /\ crashes' = crashes + 1 /\ boot' = [boot EXCEPT ![r] = "count"]
    /\ UNCHANGED <<dbVars, reqVars, session, now, doomed, late, faults>>

-----------------------------------------------------------------------------
(* Requests.  A client that has begun one takes it through its statements.   *)

\* Requests are explored once the fleet is up (a replica that serves while another one
\* still boots is left out), and where no boot crashed: a fleet that comes up after a
\* crash has the same database.
Serving == crashes = 0 /\ \A r \in Replicas : boot[r] = "up"

\* A request of a kind that this instance explores arrives.
Arrives(kind) ==
    /\ kind \in ops.kinds /\ Serving
    /\ ops.n < MaxOps /\ ops' = [ops EXCEPT !.n = @ + 1]

Begin(c, kind, r) == Arrives(kind) /\ req[c] = Idle /\ req' = [req EXCEPT ![c] = r]
AsAdmin(c, kind, r) == Begin(c, kind, r) /\ \E w \in Users : RequireAdmin(w)
At(c, pc)         == req[c].pc = pc
Move(c, pc)       == req' = [req EXCEPT ![c].pc = pc] /\ UNCHANGED ops
Done(c)           == req' = [req EXCEPT ![c] = Idle] /\ UNCHANGED ops

To(pc, u)         == [Idle EXCEPT !.pc = pc, !.u = u]

\* Login: the password is compared with the row as read here.  Sign-ins are not
\* counted by MaxOps; one is explored for each session that does not exist yet.
Login(c, u) ==
    /\ Serving /\ req[c] = Idle
    /\ GetByID(u) /\ user[u].active /\ user[u].pwv > 0
    /\ [owner |-> u, iat |-> now, ver |-> user[u].pwv] \notin session
    /\ req' = [req EXCEPT ![c] = [To("issue", u) EXCEPT !.ver = user[u].pwv]]
    /\ UNCHANGED <<dbVars, env, ops>>

\* GenerateToken: iat is the second in which the token is made.
GenerateToken(c) ==
    /\ At(c, "issue") /\ Done(c)
    /\ session' = session \cup {[owner |-> req[c].u, iat |-> now, ver |-> req[c].ver]}
    /\ UNCHANGED <<dbVars, boot, now, hist>>

\* Register, AdminCreateUser and AdminCreateServiceAccount: the row, then its permission.
Register(c, u, e) ==
    /\ InsertUser(u, e, None, FALSE, 1)
    /\ Begin(c, "register", [To("setDirect", u) EXCEPT !.lvl = "read", !.on = TRUE])
    /\ UNCHANGED <<notUser, env>>

AdminCreateUser(c, u, e, l) ==
    /\ InsertUser(u, e, None, FALSE, 1)
    /\ AsAdmin(c, "createUser", [To("setDirect", u) EXCEPT !.lvl = l])
    /\ UNCHANGED <<notUser, env>>

AdminCreateServiceAccount(c, u, e, l) ==
    /\ InsertUser(u, e, None, TRUE, 0)
    /\ AsAdmin(c, "createService", [To("setDirect", u) EXCEPT !.lvl = l])
    /\ UNCHANGED <<notUser, env>>

\* The last statement of those and of AdminSetPermissions; a registration goes on
\* to send its verification link.
SetDirect(c) ==
    /\ At(c, "setDirect")
    /\ direct' = [direct EXCEPT ![req[c].u] = req[c].lvl]
    /\ IF req[c].on THEN Move(c, "verifyLink") ELSE Done(c)
    /\ UNCHANGED <<user, group, members, token, link, env>>

\* AdminSetPermissions: the last administrator is not demoted, as far as this read can tell.
AdminSetPermissions(c, u, l) ==
    /\ user[u].st # "none" /\ ~(l # "admin" /\ IsAdmin(u) /\ CountAdmins <= 1)
    /\ AsAdmin(c, "setPermissions", [To("setDirect", u) EXCEPT !.lvl = l])
    /\ UNCHANGED <<dbVars, env>>

\* UserService.Update without is_active, for UpdateProfile and AdminUpdateUser: it reads the row ...
UpdateProfile(c, u) ==
    /\ GetByID(u)
    /\ LET r == [To("writeBack", u) EXCEPT !.on = user[u].active]
       IN  (Authenticated(u) /\ Begin(c, "profile", r)) \/ AsAdmin(c, "profile", r)
    /\ UNCHANGED <<dbVars, env>>

\* ... and writes every column back, is_active as it was read.
WriteBack(c) ==
    /\ At(c, "writeBack") /\ Done(c)
    /\ user' = [user EXCEPT ![req[c].u].active = req[c].on]
    /\ UNCHANGED <<notUser, env>>

ChangePassword(c, u) ==
    /\ Authenticated(u) /\ user[u].pwv > 0
    /\ Begin(c, "changePassword", To("newPassword", u))
    /\ UNCHANGED <<dbVars, env>>

\* The last statement of ChangePassword and of ResetPassword.
StorePassword(c) ==
    /\ At(c, "newPassword") /\ Done(c) /\ UpdatePassword(req[c].u)
    /\ UNCHANGED <<notUser, env>>

\* ResetTokenService.Create and EmailVerificationService.Create first spend the
\* user's older links of that kind ...
SpendLinks(u, kind) ==
    link' = [x \in Links |-> IF link[x].owner = u /\ link[x].kind = kind /\ link[x].st = "live"
                             THEN [link[x] EXCEPT !.st = "used"] ELSE link[x]]

ForgotPassword(c, u) ==
    /\ GetByID(u) /\ user[u].active /\ ~user[u].svc
    /\ Begin(c, "forgotPassword", [To("insertLink", u) EXCEPT !.kind = "reset"])
    /\ SpendLinks(u, "reset")
    /\ UNCHANGED <<user, direct, group, members, token, env>>

ResendVerification(c, u) ==
    /\ Authenticated(u) /\ ~user[u].verified
    /\ Begin(c, "resendVerification", To("verifyLink", u))
    /\ UNCHANGED <<dbVars, env>>

VerifyLink(c) ==
    /\ At(c, "verifyLink") /\ SpendLinks(req[c].u, "verify")
    /\ req' = [req EXCEPT ![c] = [To("insertLink", req[c].u) EXCEPT !.kind = "verify"]]
    /\ UNCHANGED <<user, direct, group, members, token, env, ops>>

\* ... and then store the new one.
InsertLink(c, x) ==
    /\ At(c, "insertLink") /\ Done(c) /\ link[x].st = "none"
    /\ link' = [link EXCEPT ![x] = [st |-> "live", owner |-> req[c].u, kind |-> req[c].kind]]
    /\ UNCHANGED <<user, direct, group, members, token, env>>

\* ResetPassword and VerifyEmail: Validate reads the link ...
ResetPassword(c, x) ==
    /\ link[x].st = "live"
    /\ Begin(c, "useLink", [To("markUsed", link[x].owner) EXCEPT !.x = x])
    /\ UNCHANGED <<dbVars, env>>

\* ... and spends it; then the password is replaced, or the address is verified.
MarkUsed(c) ==
    /\ At(c, "markUsed") /\ Move(c, IF link[req[c].x].kind = "reset" THEN "newPassword" ELSE "setVerified")
    /\ link' = [link EXCEPT ![req[c].x].st = "used"]
    /\ UNCHANGED <<user, direct, group, members, token, env>>

VerifyEmail(c) ==
    /\ At(c, "setVerified") /\ Done(c)
    /\ user' = IF GetByID(req[c].u) THEN [user EXCEPT ![req[c].u].verified = TRUE] ELSE user
    /\ UNCHANGED <<notUser, env>>

\* CreateToken: authenticated first, inserted later.
CreateToken(c, u) ==
    /\ Authenticated(u) /\ Begin(c, "createToken", To("insertToken", u))
    /\ UNCHANGED <<dbVars, env>>

\* A deletion of u has revoked u's tokens and not yet, or already, deleted u.
Deleting(u) == user[u].st = "deleted" \/ \E d \in Clients : At(d, "softDelete") /\ req[d].u = u

InsertToken(c, t) ==
    /\ At(c, "insertToken") /\ Done(c) /\ token[t].st = "none"
    /\ token' = [token EXCEPT ![t] = [st |-> "live", owner |-> req[c].u]]
    /\ late' = IF Deleting(req[c].u) THEN late \cup {t} ELSE late
    /\ UNCHANGED <<user, direct, group, members, link, session, boot, now, doomed, bounds>>

\* A token is revoked by its owner, several by an administrator.
RevokeToken(t) ==
    /\ Arrives("revoke") /\ token[t].owner # None /\ Authenticated(token[t].owner)
    /\ Revoke({t})
    /\ UNCHANGED <<user, direct, group, members, link, req, env>>

AdminBulkRevokeTokens(S) ==
    /\ Arrives("revoke") /\ S # {} /\ \E w \in Users : RequireAdmin(w)
    /\ Revoke(S)
    /\ UNCHANGED <<user, direct, group, members, link, req, env>>

\* AdminUpdateUser with is_active: the state before is read to see a deactivation ...
AdminUpdateUser(c, u, on) ==
    /\ GetByID(u)
    /\ AsAdmin(c, "setActive", [To("setActive", u) EXCEPT !.on = on, !.was = user[u].active /\ ~on])
    /\ UNCHANGED <<dbVars, env>>

\* ... the flag is written ...
SetActive(c) ==
    /\ At(c, "setActive")
    /\ IF GetByID(req[c].u)
       THEN /\ user' = [user EXCEPT ![req[c].u].active = req[c].on]
            /\ doomed' = IF req[c].was THEN doomed \cup LiveTokens(req[c].u) ELSE doomed
            /\ req' = [req EXCEPT ![c] = IF req[c].was THEN [req[c] EXCEPT !.pc = "revokeAll"] ELSE Idle]
       ELSE UNCHANGED <<user, doomed>> /\ req' = [req EXCEPT ![c] = Idle]
    /\ UNCHANGED <<notUser, session, boot, now, late, bounds, ops>>

\* ... and a deactivation revokes the user's tokens.  The revocation's error is ignored.
\* An update that gives upload restrictions too (only AdminUpdateUser's can: was)
\* returns without the revocation when it does not find the user again, or when that
\* read or the write of the restrictions fails.
RevokeAll(c) ==
    /\ At(c, "revokeAll") /\ Done(c)
    /\ \/ RevokeAllByUser(req[c].u) /\ UNCHANGED <<doomed, faults>>
       \/ /\ \/ faults < MaxFaults /\ faults' = faults + 1
             \/ req[c].was /\ ~GetByID(req[c].u) /\ UNCHANGED faults
          /\ doomed' = doomed \ LiveTokens(req[c].u) /\ UNCHANGED token
    /\ UNCHANGED <<user, direct, group, members, link, session, boot, now, late, crashes>>

\* Mutant: a failed revocation does not stop the deletion.
MutAdminDeleteUser(c, w, u) ==
    /\ Begin(c, "deleteUser", To("softDelete", u))
    /\ RequireAdmin(w) /\ w # u /\ user[u].st # "none"
    /\ \/ RevokeAllByUser(u) /\ doomed' = doomed \cup LiveTokens(u) /\ UNCHANGED faults
       \/ faults < MaxFaults /\ faults' = faults + 1 /\ UNCHANGED <<token, doomed>>
    /\ UNCHANGED <<user, direct, group, members, link, session, boot, now, late, crashes>>

\* AdminDeleteUser: not oneself; the tokens are revoked first, and a failure stops the request.
AdminDeleteUser(c, w, u) ==
    /\ Arrives("deleteUser") /\ req[c] = Idle
    /\ RequireAdmin(w) /\ w # u /\ user[u].st # "none"
    /\ \/ /\ RevokeAllByUser(u) /\ doomed' = doomed \cup LiveTokens(u)
          /\ req' = [req EXCEPT ![c] = To("softDelete", u)] /\ UNCHANGED faults
       \/ /\ faults < MaxFaults /\ faults' = faults + 1 /\ UNCHANGED <<token, doomed, req>>
    /\ UNCHANGED <<user, direct, group, members, link, session, boot, now, late, crashes>>

\* SoftDelete suffixes the address, which frees it; external_id and memberships stay.
SoftDelete(c) ==
    /\ At(c, "softDelete") /\ Done(c)
    /\ user' = [user EXCEPT ![req[c].u].st = "deleted", ![req[c].u].email = None]
    /\ UNCHANGED <<notUser, env>>

-----------------------------------------------------------------------------
(* Groups.                                                                  *)

\* GroupService.Create, AddMember and RemoveMember, one statement each; AddMember
\* accepts the row of a deleted user.
CreateGroup(g, l) ==
    ~group[g].present /\ group' = [group EXCEPT ![g] = [present |-> TRUE, active |-> TRUE, level |-> l]]
AddMember(g, u) ==
    group[g].present /\ user[u].st # "none" /\ members' = [members EXCEPT ![g] = @ \cup {u}]
RemoveMember(g, u) == u \in members[g] /\ members' = [members EXCEPT ![g] = @ \ {u}]

AdminCreateGroup(g, l) ==
    /\ Arrives("group") /\ UNCHANGED req /\ \E w \in Users : RequireAdmin(w)
    /\ CreateGroup(g, l)
    /\ UNCHANGED <<user, direct, members, token, link, env>>

\* GroupService.Update reads the row, replaces the fields given and ...
AdminUpdateGroup(c, g, on, l) ==
    /\ group[g].present /\ (on = group[g].active \/ l = group[g].level)
    /\ AsAdmin(c, "group", [Idle EXCEPT !.pc = "groupWrite", !.x = g, !.on = on, !.lvl = l])
    /\ UNCHANGED <<dbVars, env>>

\* ... writes all of them back, if the row is still there.
GroupWrite(c) ==
    /\ At(c, "groupWrite") /\ Done(c)
    /\ group' = IF group[req[c].x].present
                THEN [group EXCEPT ![req[c].x] = [present |-> TRUE, active |-> req[c].on, level |-> req[c].lvl]]
                ELSE group
    /\ UNCHANGED <<user, direct, members, token, link, env>>

\* GroupService.Delete: the members ...
AdminDeleteGroup(c, g) ==
    /\ AsAdmin(c, "group", [Idle EXCEPT !.pc = "groupDelete", !.x = g])
    /\ members' = [members EXCEPT ![g] = {}]
    /\ UNCHANGED <<user, direct, group, token, link, env>>

\* ... then the group, which a foreign key keeps alive: a member added meanwhile, or
\* a reference from another table (the set keep).
GroupDelete(c, keep) ==
    /\ At(c, "groupDelete") /\ Done(c)
    /\ group' = IF members[req[c].x] = {} /\ req[c].x \notin keep THEN [group EXCEPT ![req[c].x] = NoGroup] ELSE group
    /\ UNCHANGED <<user, direct, members, token, link, env>>

AdminAddGroupMember(g, u) ==
    /\ Arrives("group") /\ UNCHANGED req /\ \E w \in Users : RequireAdmin(w)
    /\ u \notin members[g] /\ AddMember(g, u)
    /\ UNCHANGED <<user, direct, group, token, link, env>>

AdminRemoveGroupMember(g, u) ==
    /\ Arrives("group") /\ UNCHANGED req /\ \E w \in Users : RequireAdmin(w)
    /\ RemoveMember(g, u)
    /\ UNCHANGED <<user, direct, group, token, link, env>>

Tick ==
    /\ "tick" \in ops.kinds /\ now < MaxTime /\ now' = now + 1
    /\ UNCHANGED <<dbVars, reqVars, session, boot, hist>>

-----------------------------------------------------------------------------
BootStep(r) == BootCount(r) \/ BootCreate(r) \/ BootGrant(r) \/ BootCheck(r) \/ BootCrash(r)

\* Levels that a request asks for.
Grants == {"read", "admin"}

SignIn(c, u)  == Login(c, u) \/ ChangePassword(c, u) \/ ForgotPassword(c, u) \/ ResendVerification(c, u)
Admin(c, u)   ==
    \/ \E on \in BOOLEAN : AdminUpdateUser(c, u, on)
    \/ \E w \in Users : AdminDeleteUser(c, w, u)
    \/ \E l \in Grants : AdminSetPermissions(c, u, l)
    \/ \E e \in Emails, l \in Grants : AdminCreateUser(c, u, e, l) \/ AdminCreateServiceAccount(c, u, e, l)
GroupOps(c, g) ==
    \/ \E l \in Grants : AdminCreateGroup(g, l)
    \/ \E on \in BOOLEAN, l \in Grants : AdminUpdateGroup(c, g, on, l)
    \/ AdminDeleteGroup(c, g)
    \/ \E u \in Users : AdminAddGroupMember(g, u) \/ AdminRemoveGroupMember(g, u)

\* What a request that has begun does next, SoftDelete and GroupDelete excepted.
Continue(c) ==
    \/ GenerateToken(c) \/ SetDirect(c) \/ WriteBack(c) \/ StorePassword(c) \/ VerifyLink(c)
    \/ MarkUsed(c) \/ VerifyEmail(c) \/ SetActive(c) \/ RevokeAll(c) \/ GroupWrite(c)
    \/ \E x \in Links : InsertLink(c, x)
    \/ \E t \in Tokens : InsertToken(c, t)

AccStep ==
    \/ \E r \in Replicas : BootStep(r)
    \/ \E c \in Clients :
        \/ Continue(c)
        \/ \E u \in Users : SignIn(c, u) \/ Admin(c, u) \/ UpdateProfile(c, u) \/ CreateToken(c, u)
                            \/ \E e \in Emails : Register(c, u, e)
        \/ \E g \in Groups : GroupOps(c, g)
        \/ \E x \in Links : ResetPassword(c, x)
    \/ \E t \in Tokens : RevokeToken(t)
    \/ \E S \in SUBSET Tokens : AdminBulkRevokeTokens(S)
    \/ Tick

AccNext == AccStep \/ \E c \in Clients : SoftDelete(c) \/ GroupDelete(c, {})

AccSpec == AccInit /\ [][AccNext]_accVars

-----------------------------------------------------------------------------
(* Properties.                                                              *)

\* SeedAdmin on several replicas at once (services/admin_seed.go: "Concurrent
\* multi-replica startup is safe too"): before the first request, and unless a boot
\* crashed, at most one row exists; it is the one administrator, or a replica is still
\* about to make it so; and no replica serves without it.
SeedsOneAdmin ==
    ops.n = 0 /\ crashes = 0 =>
        LET rows == {u \in Users : user[u].st # "none"}
        IN  /\ Cardinality(rows) <= 1
            /\ rows # {} => CountAdmins = 1 \/ \E r \in Replicas : boot[r] = "grant"
            /\ Serving => CountAdmins = 1

\* Who proves the current password gets a session that Authenticate accepts, in
\* whatever order sign-in, password change and reset interleave within a second
\* (middleware/auth.go: "A re-login completing in the same wall-clock second").
LoginHolds ==
    \A s \in session : GetByID(s.owner) /\ user[s.owner].active /\ s.ver = user[s.owner].pwv => SessionAccepted(s)

\* Auto-revocation (FEATURES.md): a token that existed when a deactivation or a
\* deletion of its owner was written is dead for good once that request is through, also
\* after a reactivation, unless the request failed before or in its revocation; and
\* a deleted user owns no live token but one that a request under way inserted after
\* the revocation.
AutoRevocation ==
    /\ \A t \in doomed : \/ ~ValidateSecret(t)
                         \/ \E c \in Clients : At(c, "revokeAll") /\ req[c].u = token[t].owner
    /\ \A t \in Tokens : token[t].st = "live" /\ user[token[t].owner].st = "deleted" => t \in late

=============================================================================
