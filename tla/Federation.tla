----------------------------- MODULE Federation -----------------------------
(***************************************************************************)
(* Accounts that come from an identity provider: sign-in and linking over   *)
(* OpenID Connect, and provisioning over SCIM, next to the local account    *)
(* requests of Accounts.  A callback looks an identity up, correlates it    *)
(* with a provisioned account or provisions one, and links it, in separate  *)
(* statements.                                                              *)
(*                                                                          *)
(* internal/handlers/{oidc_auth,admin_oidc,scim,admin_scim}.go,             *)
(* internal/services/{oidc_login,oidc_provider,scim_token,user,group}.go,   *)
(* internal/middleware/scim_auth.go.                                        *)
(***************************************************************************)
EXTENDS Accounts

CONSTANTS
    Providers,   \* ids of oidc_providers
    EmailOf      \* the address in a subject's id_token

ASSUME FederationAssumption == EmailOf \in [Subjects -> Emails]

VARIABLES
    provider,    \* oidc_providers: [present, enabled, auto, verify, dflt]
    identity,    \* oidc_identities: [p, s, u]
    scim,        \* the scim_enabled setting and the one SCIM token: [on, tok]
    flow,        \* state cookies handed out: [p, to], to a user in the linking flow
    fed,         \* what each federated request has read and where it stands
    claim,       \* history: <<s, u>> where u asked for s, or carried it as external id
    lateLink     \* history: identities linked to a user after the user's deletion

fedVars == <<provider, identity, scim, flow, fed, claim, lateLink>>
vars    == <<accVars, fedVars>>

NoProvider == [present |-> FALSE, enabled |-> FALSE, auto |-> FALSE, verify |-> FALSE, dflt |-> None]
NoFed      == [pc |-> "idle", p |-> None, s |-> None, u |-> None, e |-> None, on |-> FALSE,
               off |-> FALSE, was |-> FALSE, dflt |-> None, new |-> FALSE]

Init ==
    /\ AccInit
    /\ provider = [p \in Providers |-> NoProvider] /\ identity = {}
    /\ scim = [on |-> FALSE, tok |-> "none"] /\ flow = {} /\ fed = [c \in Clients |-> NoFed]
    /\ claim = {} /\ lateLink = {}

\* An instance that an administrator has set up: signed in, every provider with
\* auto-provisioning into a group, and SCIM switched on.
SetUp ==
    \E a \in Users, g \in Groups :
        /\ user = [u \in Users |-> IF u = a THEN [NoUser EXCEPT !.st = "live", !.active = TRUE,
                                                  !.email = AdminEmail, !.pwv = 1] ELSE NoUser]
        /\ direct = [u \in Users |-> IF u = a THEN "admin" ELSE "none"]
        /\ group = [h \in Groups |-> IF h = g THEN [present |-> TRUE, active |-> TRUE, level |-> "read"]
                                     ELSE NoGroup]
        /\ members = [h \in Groups |-> {}]
        /\ token = [t \in Tokens |-> NoToken] /\ link = [x \in Links |-> NoLink]
        /\ session = {[owner |-> a, iat |-> 0, ver |-> 1]}
        /\ req = [c \in Clients |-> Idle] /\ boot = [r \in Replicas |-> "up"]
        /\ now = 0 /\ doomed = {} /\ late = {} /\ crashes = 0 /\ faults = 0
        /\ ops \in [n : {0}, kinds : RequestSets]
        /\ provider = [p \in Providers |-> [present |-> TRUE, enabled |-> TRUE, auto |-> TRUE,
                                            verify |-> TRUE, dflt |-> g]]
        /\ identity = {} /\ scim = [on |-> TRUE, tok |-> "live"] /\ flow = {}
        /\ fed = [c \in Clients |-> NoFed] /\ claim = {} /\ lateLink = {}

-----------------------------------------------------------------------------
(* Providers and the SCIM token.                                            *)

AdminAction(kind) == Arrives(kind) /\ UNCHANGED req /\ \E w \in Users : RequireAdmin(w)

\* An administrator writes the row of a provider: its fields, auto_provision with
\* the default group, or require_email_verified, one UPDATE each.
WriteProvider(p, row) ==
    /\ AdminAction("provider") /\ row # provider[p]
    /\ provider' = [provider EXCEPT ![p] = row]
    /\ UNCHANGED <<dbVars, env, identity, scim, flow, fed, claim, lateLink>>

\* OIDCProviderService.Create, with the defaults of the columns.
AdminCreateOIDCProvider(p) ==
    /\ ~provider[p].present
    /\ WriteProvider(p, [present |-> TRUE, enabled |-> TRUE, auto |-> FALSE, verify |-> TRUE, dflt |-> None])

AdminUpdateOIDCProvider(p, on) ==
    provider[p].present /\ WriteProvider(p, [provider[p] EXCEPT !.enabled = on])

\* The default group must exist.
AdminSetOIDCAutoProvision(p, auto, g) ==
    /\ provider[p].present /\ (g # None => group[g].present)
    /\ WriteProvider(p, [provider[p] EXCEPT !.auto = auto, !.dflt = g])

AdminSetOIDCRequireEmailVerified(p, v) ==
    provider[p].present /\ WriteProvider(p, [provider[p] EXCEPT !.verify = v])

\* The provider goes with its identities, in one transaction.
DeleteProvider(p) ==
    /\ provider' = [provider EXCEPT ![p] = NoProvider]
    /\ identity' = {i \in identity : i.p # p}

AdminDeleteOIDCProvider(p) ==
    /\ AdminAction("provider") /\ provider[p].present /\ DeleteProvider(p)
    /\ UNCHANGED <<dbVars, env, scim, flow, fed, claim, lateLink>>

\* ScimTokenService.Create, Validate and Revoke, for one token.
CreateScimToken == scim' = [scim EXCEPT !.tok = "live"]
Validate        == scim.tok = "live"
RevokeScimToken == Validate /\ scim' = [scim EXCEPT !.tok = "revoked"]

AdminCreateScimToken ==
    /\ AdminAction("scimToken") /\ ~Validate /\ CreateScimToken
    /\ UNCHANGED <<dbVars, env, provider, identity, flow, fed, claim, lateLink>>

AdminRevokeScimToken ==
    /\ AdminAction("scimToken") /\ RevokeScimToken
    /\ UNCHANGED <<dbVars, env, provider, identity, flow, fed, claim, lateLink>>

\* The scim_enabled setting.
SetScimEnabled ==
    /\ AdminAction("scimToken") /\ scim' = [scim EXCEPT !.on = ~@]
    /\ UNCHANGED <<dbVars, env, provider, identity, flow, fed, claim, lateLink>>

SCIMAuth == scim.on /\ Validate

-----------------------------------------------------------------------------
(* OpenID Connect.                                                          *)

\* A federated request marks its client busy in req.
Busy == To("federated", None)

FedBegin(c, kind, f) == Begin(c, kind, Busy) /\ fed' = [fed EXCEPT ![c] = f]
FedAt(c, pc)         == fed[c].pc = pc
FedGo(c, f)          == fed' = [fed EXCEPT ![c] = f] /\ UNCHANGED reqVars
FedEnd(c)            == fed' = [fed EXCEPT ![c] = NoFed] /\ Done(c)

\* Done with the provider: go on as the local request r.
FedHand(c, r)        == /\ fed' = [fed EXCEPT ![c] = NoFed]
                        /\ req' = [req EXCEPT ![c] = r] /\ UNCHANGED ops

\* The state cookie of a flow, to no user when somebody signs in.
BuildAuthorizeURL(p, to) ==
    /\ provider[p].present /\ provider[p].enabled
    /\ flow' = flow \cup {[p |-> p, to |-> to]}
    /\ UNCHANGED <<dbVars, env, provider, identity, scim, fed, claim, lateLink>>

OIDCAuthorize(p)     == Arrives("authorize") /\ UNCHANGED req /\ BuildAuthorizeURL(p, None)
OIDCLinkStart(p, u)  == Arrives("authorize") /\ UNCHANGED req /\ Authenticated(u) /\ BuildAuthorizeURL(p, u)

\* HandleCallback up to the verified id_token of subject s: the cookie is cleared, the
\* provider is read again, and a linking flow goes straight to LinkIdentity.
HandleCallback(c, f, s, verified) ==
    /\ Serving /\ req[c] = Idle /\ f \in flow /\ flow' = flow \ {f}
    /\ IF ~(provider[f.p].present /\ provider[f.p].enabled)
       THEN UNCHANGED <<reqVars, fed, claim>>
       ELSE /\ req' = [req EXCEPT ![c] = Busy] /\ UNCHANGED ops
            /\ fed' = [fed EXCEPT ![c] =
                 [NoFed EXCEPT !.p = f.p, !.s = s, !.u = f.to, !.dflt = provider[f.p].dflt,
                               !.pc = IF f.to # None THEN "link" ELSE "lookup",
                               !.off = f.to # None,
                               !.on = provider[f.p].auto /\ (provider[f.p].verify => verified)]]
            /\ claim' = IF f.to # None THEN claim \cup {<<s, f.to>>} ELSE claim
    /\ UNCHANGED <<dbVars, env, provider, identity, scim, lateLink>>

IdentityOf(p, s)   == {i \in identity : i.p = p /\ i.s = s}
GetByExternalID(s) == {u \in Users : GetByID(u) /\ user[u].ext = s}

\* resolveOrProvisionUser, 1: a known identity signs its user in, unless that user is gone.
Lookup(c) ==
    LET f == fed[c]  known == IdentityOf(f.p, f.s)
    IN  /\ FedAt(c, "lookup")
        /\ IF known = {} THEN FedGo(c, [f EXCEPT !.pc = "correlate"])
           ELSE \E i \in known : IF GetByID(i.u)
                                 THEN FedHand(c, [To("issue", i.u) EXCEPT !.ver = user[i.u].pwv])
                                 ELSE FedEnd(c)
        /\ UNCHANGED <<dbVars, env, provider, identity, scim, flow, claim, lateLink>>

\* 2: a provisioned account with this external id is linked; 3: without auto_provision
\* or a usable address there is no account.
Correlate(c) ==
    LET f == fed[c]
    IN  /\ FedAt(c, "correlate")
        /\ \/ /\ \E u \in GetByExternalID(f.s) : FedGo(c, [f EXCEPT !.pc = "link", !.u = u])
              /\ claim' = claim \cup ({f.s} \X GetByExternalID(f.s))
           \/ /\ GetByExternalID(f.s) = {} /\ UNCHANGED claim
              /\ IF f.on THEN FedGo(c, [f EXCEPT !.pc = "collide"]) ELSE FedEnd(c)
        /\ UNCHANGED <<dbVars, env, provider, identity, scim, flow, lateLink>>

\* Mutant: an account with the same address is taken for the subject's own.
MutCollide(c) ==
    LET f == fed[c]  same == GetByEmail(EmailOf[f.s])
    IN  /\ FedAt(c, "collide")
        /\ \/ \E u \in same : FedGo(c, [f EXCEPT !.pc = "link", !.u = u])
           \/ same = {} /\ FedGo(c, [f EXCEPT !.pc = "create"])
        /\ UNCHANGED <<dbVars, env, provider, identity, scim, flow, claim, lateLink>>

\* 4: an account with the same address is a collision, never a link.
Collide(c) ==
    /\ FedAt(c, "collide")
    /\ IF GetByEmail(EmailOf[fed[c].s]) # {} THEN FedEnd(c) ELSE FedGo(c, [fed[c] EXCEPT !.pc = "create"])
    /\ UNCHANGED <<dbVars, env, provider, identity, scim, flow, claim, lateLink>>

\* 5: CreateFromSCIM with the subject as external id; a unique violation ends the sign-in.
Create(c) ==
    LET f == fed[c]
    IN  /\ FedAt(c, "create")
        /\ \/ \E u \in Users : /\ InsertUser(u, EmailOf[f.s], f.s, FALSE, 0)
                               /\ FedGo(c, [f EXCEPT !.pc = "link", !.u = u, !.new = TRUE])
                               /\ claim' = claim \cup {<<f.s, u>>}
           \/ /\ ~Insertable(EmailOf[f.s], f.s) /\ FedEnd(c) /\ UNCHANGED <<user, claim>>
        /\ UNCHANGED <<notUser, env, provider, identity, scim, flow, lateLink>>

\* What follows a link: nothing in the linking flow, the default group for a new user,
\* a session for anyone else.
AfterLink(c) ==
    LET f == fed[c]
    IN  CASE f.off            -> FedEnd(c)
          [] f.new /\ ~f.off  -> FedGo(c, [f EXCEPT !.pc = "addDefault"])
          [] OTHER            -> FedHand(c, [To("issue", f.u) EXCEPT !.ver = user[f.u].pwv])

\* LinkIdentity: look first; the user's own row is success, another user's an error.
LinkIdentity(c) ==
    LET f == fed[c]  known == IdentityOf(f.p, f.s)
    IN  /\ FedAt(c, "link")
        /\ IF known = {} THEN FedGo(c, [f EXCEPT !.pc = "insert"])
           ELSE \E i \in known : IF i.u = f.u THEN AfterLink(c) ELSE FedEnd(c)
        /\ UNCHANGED <<dbVars, env, provider, identity, scim, flow, claim, lateLink>>

\* ... then insert, under UNIQUE(provider_id, subject) and the foreign key to the
\* provider; the user's row is there even when soft-deleted.
InsertIdentity(c) ==
    LET f == fed[c]  i == [p |-> f.p, s |-> f.s, u |-> f.u]
    IN  /\ FedAt(c, "insert")
        /\ IF IdentityOf(f.p, f.s) = {} /\ provider[f.p].present
           THEN /\ AfterLink(c) /\ identity' = identity \cup {i}
                /\ lateLink' = IF GetByID(f.u) THEN lateLink ELSE lateLink \cup {i}
           ELSE FedEnd(c) /\ UNCHANGED <<identity, lateLink>>
        /\ UNCHANGED <<dbVars, env, provider, scim, flow, claim>>

\* The default group of the provider as the callback read it; a deleted group is an error.
AddDefault(c) ==
    LET f == fed[c]
    IN  /\ FedAt(c, "addDefault")
        /\ IF f.dflt = None \/ (f.dflt # None /\ group[f.dflt].present)
           THEN /\ FedHand(c, [To("issue", f.u) EXCEPT !.ver = user[f.u].pwv])
                /\ members' = IF f.dflt = None THEN members ELSE [members EXCEPT ![f.dflt] = @ \cup {f.u}]
           ELSE FedEnd(c) /\ UNCHANGED members
        /\ UNCHANGED <<user, direct, group, token, link, env, provider, identity, scim, flow, claim, lateLink>>

\* UnlinkIdentity: checks the owner and that another way to sign in remains ...
OIDCUnlinkIdentity(c, i) ==
    /\ i \in identity /\ Authenticated(i.u)
    /\ user[i.u].pwv > 0 \/ Cardinality({j \in identity : j.u = i.u}) > 1
    /\ FedBegin(c, "unlink", [NoFed EXCEPT !.pc = "unlink", !.p = i.p, !.s = i.s, !.u = i.u])
    /\ UNCHANGED <<dbVars, env, provider, identity, scim, flow, claim, lateLink>>

\* ... and deletes the row.
Unlink(c) ==
    LET f == fed[c]
    IN  /\ FedAt(c, "unlink") /\ FedEnd(c)
        /\ identity' = identity \ {[p |-> f.p, s |-> f.s, u |-> f.u]}
        /\ UNCHANGED <<dbVars, env, provider, scim, flow, claim, lateLink>>

-----------------------------------------------------------------------------
(* SCIM.                                                                    *)

\* Users Create.  The read permission that follows names no granting user, which the
\* foreign key of granted_by refuses; that error is ignored.
ScimCreateUser(u, e, s) ==
    /\ Arrives("scim") /\ UNCHANGED req /\ SCIMAuth
    /\ InsertUser(u, e, s, FALSE, 0)
    /\ claim' = IF s = None THEN claim ELSE claim \cup {<<s, u>>}
    /\ UNCHANGED <<notUser, env, provider, identity, scim, flow, fed, lateLink>>

\* A request that will write u, and revoke the tokens afterwards if off; was is history:
\* the request saw a deactivation.
ScimUpdate(c, u, e, s, on, off) ==
    /\ FedBegin(c, "scim", [NoFed EXCEPT !.pc = "scimWrite", !.u = u, !.e = e, !.s = s, !.on = on, !.off = off,
                                         !.was = on = FALSE /\ GetByID(u) /\ user[u].active])
    /\ UNCHANGED <<dbVars, env, provider, identity, scim, flow, claim, lateLink>>

\* Users Patch: the row is read, and what the request leaves out is written back as read.
ScimPatch(c, u, e, s, on) ==
    SCIMAuth /\ GetByID(u) /\ ScimUpdate(c, u, e, s, on, user[u].active /\ ~on)

\* Users Replace: an absent active (None) keeps the flag as it is when written, and the
\* row is read only to see a deactivation.
ScimReplace(c, u, e, s, on) ==
    /\ SCIMAuth /\ user[u].st # "none"
    /\ ScimUpdate(c, u, e, s, on, on = FALSE /\ GetByID(u) /\ user[u].active)

\* UpdateFromSCIM writes every column of a live row, under the unique indexes; a
\* deactivation goes on to revoke the tokens.
UpdateFromSCIM(c) ==
    LET f     == fed[c]
        taken == \E v \in Users \ {f.u} : /\ user[v].st # "none"
                                           /\ \/ user[v].email = f.e
                                              \/ f.s # None /\ user[v].ext = f.s
        row   == [user[f.u] EXCEPT !.email = f.e, !.ext = f.s, !.active = IF f.on = None THEN @ ELSE f.on]
    IN  /\ FedAt(c, "scimWrite")
        /\ IF GetByID(f.u) /\ taken
           THEN FedEnd(c) /\ UNCHANGED <<user, claim, doomed>>
           ELSE /\ user' = IF GetByID(f.u) THEN [user EXCEPT ![f.u] = row] ELSE user
                /\ doomed' = IF f.was THEN doomed \cup LiveTokens(f.u) ELSE doomed
                /\ claim' = IF f.s # None /\ GetByID(f.u) THEN claim \cup {<<f.s, f.u>>} ELSE claim
                /\ IF f.off THEN FedHand(c, To("revokeAll", f.u)) ELSE FedEnd(c)
        /\ UNCHANGED <<notUser, session, boot, now, late, bounds, provider, identity, scim, flow, lateLink>>

\* Users Delete: the tokens first, then SoftDelete.
ScimDeleteUser(c, u) ==
    /\ SCIMAuth /\ user[u].st # "none"
    /\ Begin(c, "scim", To("softDelete", u))
    /\ RevokeAllByUser(u) /\ doomed' = doomed \cup LiveTokens(u)
    /\ UNCHANGED <<user, direct, group, members, link, session, boot, now, late, bounds, fedVars>>

\* Groups Create: a read group with the members given.
ScimCreateGroup(g, M) ==
    /\ Arrives("scimGroup") /\ UNCHANGED req /\ SCIMAuth /\ CreateGroup(g, "read")
    /\ members' = [members EXCEPT ![g] = {u \in M : user[u].st # "none"}]
    /\ UNCHANGED <<user, direct, token, link, env, fedVars>>

\* Groups Replace, and a Patch of displayName: GroupService.Update reads level and state ...
ScimReplaceGroup(c, g) ==
    /\ SCIMAuth /\ group[g].present
    /\ Begin(c, "scimGroup", [Idle EXCEPT !.pc = "groupWrite", !.x = g, !.on = group[g].active,
                                          !.lvl = group[g].level])
    /\ UNCHANGED <<dbVars, env, fedVars>>

\* ... and ReplaceMembers, or the add and remove operations of a Patch, set the members.
ReplaceMembers(g, M) ==
    /\ Arrives("scimGroup") /\ UNCHANGED req /\ SCIMAuth /\ group[g].present
    /\ \A u \in M : user[u].st # "none"
    /\ M # members[g] /\ members' = [members EXCEPT ![g] = M]
    /\ UNCHANGED <<user, direct, group, token, link, env, fedVars>>

ScimDeleteGroup(c, g) ==
    /\ SCIMAuth /\ Begin(c, "scimGroup", [Idle EXCEPT !.pc = "groupDelete", !.x = g])
    /\ members' = [members EXCEPT ![g] = {}]
    /\ UNCHANGED <<user, direct, group, token, link, env, fedVars>>

-----------------------------------------------------------------------------
\* Mutant: the identities of the deleted user stay.
MutDropIdentities(u) == UNCHANGED identity

\* SoftDelete drops the user's identities in its transaction.
DropIdentities(u) == identity' = {i \in identity : i.u # u}

ProviderOps ==
    \E p \in Providers :
        \/ AdminCreateOIDCProvider(p) \/ AdminDeleteOIDCProvider(p)
        \/ \E b \in BOOLEAN : AdminUpdateOIDCProvider(p, b) \/ AdminSetOIDCRequireEmailVerified(p, b)
        \/ \E b \in BOOLEAN, g \in Groups \cup {None} : AdminSetOIDCAutoProvision(p, b, g)
        \/ OIDCAuthorize(p) \/ \E u \in Users : OIDCLinkStart(p, u)

FedStep(c) ==
    \/ \E f \in flow, s \in Subjects, v \in BOOLEAN : HandleCallback(c, f, s, v)
    \/ Lookup(c) \/ Correlate(c) \/ Collide(c) \/ Create(c) \/ LinkIdentity(c) \/ InsertIdentity(c)
    \/ AddDefault(c) \/ Unlink(c) \/ UpdateFromSCIM(c)
    \/ \E i \in identity : OIDCUnlinkIdentity(c, i)
    \/ \E u \in Users : \/ ScimDeleteUser(c, u)
                        \/ \E e \in Emails, s \in Subjects \cup {None} :
                              \/ \E on \in BOOLEAN : ScimPatch(c, u, e, s, on)
                              \/ \E on \in BOOLEAN \cup {None} : ScimReplace(c, u, e, s, on)
    \/ \E g \in Groups : ScimReplaceGroup(c, g) \/ ScimDeleteGroup(c, g)

Next ==
    \/ AccStep /\ UNCHANGED fedVars
    \/ \E c \in Clients :
        \/ SoftDelete(c) /\ DropIdentities(req[c].u)
           /\ UNCHANGED <<provider, scim, flow, fed, claim, lateLink>>
        \/ GroupDelete(c, {provider[p].dflt : p \in Providers}) /\ UNCHANGED fedVars
        \/ FedStep(c)
    \/ ProviderOps \/ AdminCreateScimToken \/ AdminRevokeScimToken \/ SetScimEnabled
    \/ \E u \in Users, e \in Emails, s \in Subjects \cup {None} : ScimCreateUser(u, e, s)
    \/ \E g \in Groups, M \in SUBSET Users : ScimCreateGroup(g, M) \/ ReplaceMembers(g, M)

\* A new deployment, or one taken up where its administrator left it.
Spec == (Init \/ SetUp) /\ [][Next]_vars

-----------------------------------------------------------------------------
(* Properties.                                                              *)

\* An identity is only ever tied to a user who asked for it in the linking flow, who
\* was provisioned for it, or who carried it as external id: two accounts that share
\* an address are never joined (services/oidc_login.go: "never link by email").
NeverLinkedByEmail == \A i \in identity : <<i.s, i.u>> \in claim

\* A deleted user keeps no identity, but one that a callback under way inserted after
\* the deletion (services/user.go, SoftDelete).
DeletionDropsIdentities == \A i \in identity : user[i.u].st = "deleted" => i \in lateLink

=============================================================================
