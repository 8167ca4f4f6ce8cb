-------------------------- MODULE FederationProofs --------------------------
(***************************************************************************)
(* What the statements of concurrent requests keep of accounts, tokens,     *)
(* sessions and identities (Accounts, Federation), for every set of users,  *)
(* clients and replicas and all bounds.                                     *)
(*                                                                          *)
(* A request carries what it has read from statement to statement, so the   *)
(* invariant says of every request under way what stays true of its values  *)
(* while others write: the row it names exists, the password it compared is *)
(* not newer than the row's, the identity it links was claimed, and the     *)
(* tokens of a deletion that has revoked them are the late ones.            *)
(***************************************************************************)
EXTENDS Federation, FiniteSetTheorems, TLAPS

-----------------------------------------------------------------------------
(* Types.                                                                   *)

Kinds     == {"none", "reset", "verify"}
Places    == {"idle", "federated", "issue", "setDirect", "writeBack", "newPassword", "verifyLink",
              "insertLink", "markUsed", "setVerified", "insertToken", "setActive", "revokeAll",
              "softDelete", "groupWrite", "groupDelete"}
FedPlaces == {"idle", "lookup", "correlate", "collide", "create", "link", "insert", "addDefault",
              "unlink", "scimWrite"}

UserRow == [st : {"none", "live", "deleted"}, active : BOOLEAN, email : Emails \cup {None},
            ext : Subjects \cup {None}, svc : BOOLEAN, verified : BOOLEAN, pwv : Nat, pwAt : Nat]
GroupRow    == [present : BOOLEAN, active : BOOLEAN, level : Levels]
TokenRow    == [st : {"none", "live", "revoked"}, owner : Users \cup {None}]
LinkRow     == [st : {"none", "live", "used"}, owner : Users \cup {None}, kind : Kinds]
SessionRow  == [owner : Users, iat : Nat, ver : Nat]
ProviderRow == [present : BOOLEAN, enabled : BOOLEAN, auto : BOOLEAN, verify : BOOLEAN,
                dflt : Groups \cup {None}]
IdentityRow == [p : Providers \cup {None}, s : Subjects \cup {None}, u : Users]
FlowRow     == [p : Providers, to : Users \cup {None}]
Request     == [pc : Places, u : Users \cup {None}, x : Links \cup Groups \cup {None}, ver : Nat,
                kind : Kinds, was : BOOLEAN, on : BOOLEAN, lvl : Levels]
FedRequest  == [pc : FedPlaces, p : Providers \cup {None}, s : Subjects \cup {None},
                u : Users \cup {None}, e : Emails \cup {None}, on : BOOLEAN \cup {None},
                off : BOOLEAN, was : BOOLEAN, dflt : Groups \cup {None}, new : BOOLEAN]

TypeOK ==
    /\ user \in [Users -> UserRow] /\ group \in [Groups -> GroupRow]
    /\ token \in [Tokens -> TokenRow] /\ link \in [Links -> LinkRow]
    /\ session \subseteq SessionRow /\ req \in [Clients -> Request] /\ now \in Nat
    /\ provider \in [Providers -> ProviderRow] /\ identity \subseteq IdentityRow
    /\ flow \subseteq FlowRow /\ fed \in [Clients -> FedRequest]

-----------------------------------------------------------------------------
(* The invariant.                                                           *)

\* The row of user u exists among us, if only as a deleted one.
In(us, u) == u \in Users /\ us[u].st # "none"
Known(u)  == In(user, u)

\* A row that does not exist has no password, and no password is from the future.
RowInv ==
    \A u \in Users : /\ user[u].st = "none" => user[u].pwv = 0
                     /\ user[u].pwAt <= now

\* Whoever a live link, a token, a cookie or an identity belongs to is known.
LinkInv  == \A x \in Links : link[x].st = "live" => Known(link[x].owner)
TokenInv == \A t \in Tokens : token[t].st # "none" => Known(token[t].owner)
FlowInv  == \A f \in flow : f.to # None => Known(f.to)
OwnerInv == LinkInv /\ TokenInv /\ FlowInv /\ \A i \in identity : Known(i.u)

\* A session knows no later password than the row's, and one that knows the row's was
\* issued no earlier than the password.
SessionInv ==
    \A s \in session : /\ Known(s.owner) /\ s.ver <= user[s.owner].pwv
                       /\ s.ver = user[s.owner].pwv => s.iat >= user[s.owner].pwAt

\* Places of a request that name a user.
OfUser(r)    == r.pc \notin {"idle", "federated", "groupWrite", "groupDelete"}
FedOfUser(f) == f.pc \in {"link", "insert", "addDefault", "unlink", "scimWrite"}

\* A sign-in that still looks for the account of its subject.
Resolving(f) == f.pc \in {"lookup", "correlate", "collide", "create"}

\* What request r, with its federated part f, holds of the users us and the claims cl.
Holds(us, cl, r, f) ==
    /\ OfUser(r) => In(us, r.u)
    /\ r.pc = "issue" => r.ver <= us[r.u].pwv
    /\ f.pc # "idle" => r = Busy
    /\ FedOfUser(f) => In(us, f.u)
    /\ f.pc \in {"link", "insert"} => <<f.s, f.u>> \in cl
    /\ f.pc = "scimWrite" => (f.was => f.off)
    /\ Resolving(f) => f.s \in Subjects

ClientInv == \A c \in Clients : Holds(user, claim, req[c], fed[c])

\* A doomed token is revoked, or a request is about to revoke it.
DoomInv ==
    \A t \in doomed :
        /\ t \in Tokens
        /\ \/ token[t].st = "revoked"
           \/ token[t].st = "live" /\ \E c \in Clients : At(c, "revokeAll") /\ req[c].u = token[t].owner

\* A live token of a user whose deletion has revoked the tokens came late.
LateInv == \A t \in Tokens : token[t].st = "live" /\ Deleting(token[t].owner) => t \in late

IdentityInv == NeverLinkedByEmail /\ DeletionDropsIdentities

FedInv ==
    /\ TypeOK /\ RowInv /\ OwnerInv /\ SessionInv /\ ClientInv /\ DoomInv /\ LateInv
    /\ IdentityInv

\* Someone is an administrator in the eyes of CountAdmins.
Administrator(u) ==
    /\ user[u].st = "live" /\ user[u].active
    /\ \/ direct[u] = "admin"
       \/ \E g \in Groups : u \in members[g] /\ group[g].active /\ group[g].level = "admin"
Seeded == \E u \in Users : Administrator(u)

\* The points of a boot.
BootPlaces == {"count", "create", "grant", "check", "up"}

\* Before the first request, and unless a boot crashed: nothing but a sign-in is under
\* way, the only row is the bootstrap administrator's, and it has its permission, or
\* the replica that made it is about to grant it.
SeedInv ==
    /\ ops \in [n : Nat, kinds : RequestSets] /\ crashes \in Nat
    /\ ops.n = 0 /\ crashes = 0 =>
        /\ boot \in [Replicas -> BootPlaces] /\ DOMAIN direct = Users
        /\ flow = {} /\ \A c \in Clients : fed[c].pc = "idle" /\ req[c].pc \in {"idle", "issue"}
        /\ \A u, v \in Users : user[u].st # "none" /\ user[v].st # "none" => u = v
        /\ \A u \in Users : user[u].st # "none" =>
                user[u].st = "live" /\ user[u].active /\ user[u].email = AdminEmail
        /\ (\E u \in Users : user[u].st # "none") => Seeded \/ \E r \in Replicas : boot[r] = "grant"
        /\ \A r \in Replicas : boot[r] = "up" => Seeded

-----------------------------------------------------------------------------
(* Frames.                                                                  *)

\* What every statement keeps of the rows: none vanishes, passwords only advance, a
\* change of password carries the present time.
RowsMove ==
    /\ user' \in [Users -> UserRow] /\ now' = now
    /\ \A u \in Users : /\ user[u].st # "none" => user'[u].st # "none"
                        /\ user'[u].st = "none" => user'[u].pwv = 0
                        /\ user[u].pwv <= user'[u].pwv
                        /\ user'[u].pwv = user[u].pwv => user'[u].pwAt <= user[u].pwAt
                        /\ user'[u].pwAt <= now

NoDeletion == \A u \in Users : user'[u].st = "deleted" => user[u].st = "deleted"

\* Who is known stays known, and the rows and sessions stay sound.
LEMMA RowsKeep ==
    ASSUME FedInv, RowsMove
    PROVE  /\ RowInv' /\ \A u : Known(u) => In(user', u)
           /\ UNCHANGED session => SessionInv'
<1>1. RowInv' /\ \A u : Known(u) => In(user', u)
  BY DEF FedInv, RowInv, RowsMove, Known, In
<1>2. ASSUME UNCHANGED session PROVE SessionInv'
  <2> SUFFICES ASSUME NEW s \in session
               PROVE  /\ In(user', s.owner) /\ s.ver <= user'[s.owner].pwv
                      /\ s.ver = user'[s.owner].pwv => s.iat >= user'[s.owner].pwAt
    BY <1>2 DEF SessionInv, Known
  <2>1. s \in SessionRow /\ Known(s.owner) /\ s.ver <= user[s.owner].pwv
    BY DEF FedInv, TypeOK, SessionInv
  <2>2. user[s.owner] \in UserRow /\ user'[s.owner] \in UserRow /\ user[s.owner].pwv <= user'[s.owner].pwv
    BY <2>1 DEF FedInv, TypeOK, Known, In, RowsMove
  <2>3. s.ver \in Nat /\ user[s.owner].pwv \in Nat /\ user'[s.owner].pwv \in Nat
        /\ s.iat \in Nat /\ user[s.owner].pwAt \in Nat /\ user'[s.owner].pwAt \in Nat
    BY <2>1, <2>2 DEF SessionRow, UserRow
  <2>4. ASSUME s.ver = user'[s.owner].pwv PROVE s.iat >= user'[s.owner].pwAt
    <3>1. user'[s.owner].pwv = user[s.owner].pwv /\ s.ver = user[s.owner].pwv
      BY <2>1, <2>2, <2>3, <2>4
    <3>2. user'[s.owner].pwAt <= user[s.owner].pwAt /\ s.iat >= user[s.owner].pwAt
      BY <3>1, <2>1 DEF RowsMove, FedInv, SessionInv, Known, In
    <3>3. QED  BY <3>2, <2>3
  <2>5. QED  BY <1>1, <2>1, <2>2, <2>3, <2>4
<1>3. QED  BY <1>1, <1>2

\* A request that its step leaves alone still holds what it held.
LEMMA HoldsKeeps ==
    ASSUME FedInv, RowsMove, claim \subseteq claim', NEW r \in Request, NEW f,
           Holds(user, claim, r, f)
    PROVE  Holds(user', claim', r, f)
<1>1. \A u : Known(u) => In(user', u)
  BY RowsKeep
<1>2. ASSUME r.pc = "issue" PROVE r.ver <= user'[r.u].pwv
  <2>1. Known(r.u) /\ r.ver <= user[r.u].pwv
    BY <1>2 DEF Holds, OfUser, Known
  <2>2. user[r.u] \in UserRow /\ user'[r.u] \in UserRow /\ user[r.u].pwv <= user'[r.u].pwv
    BY <2>1 DEF FedInv, TypeOK, Known, In, RowsMove
  <2>3. QED  BY <2>1, <2>2 DEF UserRow, Request
<1>3. QED
  BY <1>1, <1>2 DEF Holds, Known

\* The requests keep what they hold when client c goes on to <<r, f>>.
LEMMA ClientsKeep ==
    ASSUME FedInv, RowsMove, claim \subseteq claim', NEW c \in Clients,
           NEW r \in Request, NEW f \in FedRequest, Holds(user', claim', r, f),
           req' = [req EXCEPT ![c] = r], fed' = [fed EXCEPT ![c] = f]
    PROVE  ClientInv' /\ req' \in [Clients -> Request] /\ fed' \in [Clients -> FedRequest]
<1>1. req' \in [Clients -> Request] /\ fed' \in [Clients -> FedRequest]
  BY DEF FedInv, TypeOK
<1>2. ASSUME NEW d \in Clients PROVE Holds(user', claim', req'[d], fed'[d])
  <2>1. CASE d = c
    BY <2>1 DEF FedInv, TypeOK
  <2>2. CASE d # c
    <3>1. req'[d] = req[d] /\ fed'[d] = fed[d] /\ req[d] \in Request
      BY <2>2 DEF FedInv, TypeOK
    <3>2. Holds(user, claim, req[d], fed[d])
      BY DEF FedInv, ClientInv
    <3>3. QED  BY <3>1, <3>2, HoldsKeeps
  <2>3. QED  BY <2>1, <2>2
<1>3. QED  BY <1>1, <1>2 DEF ClientInv

\* Tokens are accounted for as long as no revocation ends and no deletion begins.
LEMMA TokensKeep ==
    ASSUME FedInv, RowsMove, UNCHANGED <<token, doomed, late>>,
           \A c \in Clients : At(c, "revokeAll") => req'[c] = req[c],
           \A u \in Users : Deleting(u)' => Deleting(u)
    PROVE  TokenInv' /\ DoomInv' /\ LateInv'
<1>1. TokenInv'
  BY RowsKeep DEF FedInv, OwnerInv, TokenInv, Known
<1>2. DoomInv'
  BY DEF FedInv, DoomInv, At
<1>3. LateInv'
  <2> SUFFICES ASSUME NEW t \in Tokens, token[t].st = "live", Deleting(token[t].owner)' PROVE t \in late
    BY DEF LateInv
  <2>1. token[t].owner \in Users
    BY DEF FedInv, OwnerInv, TokenInv, Known, In
  <2>2. Deleting(token[t].owner)
    BY <2>1
  <2>3. QED  BY <2>2 DEF FedInv, LateInv
<1>4. QED  BY <1>1, <1>2, <1>3

\* Cookies and identities are as sound as before when no row is deleted.
LEMMA IdentitiesKeep ==
    ASSUME FedInv, RowsMove, NoDeletion, claim \subseteq claim', UNCHANGED <<identity, lateLink>>
    PROVE  IdentityInv' /\ \A i \in identity' : Known(i.u)'
<1>1. \A i \in identity : Known(i.u) /\ In(user', i.u)
  BY RowsKeep DEF FedInv, OwnerInv
<1>2. QED
  BY <1>1 DEF FedInv, IdentityInv, NeverLinkedByEmail, DeletionDropsIdentities, NoDeletion, Known, In

\* A step in which client c goes on to <<r, f>>, and which neither ends a revocation
\* nor begins or completes a deletion.
ClientStep(c, r, f) ==
    /\ c \in Clients /\ r \in Request /\ f \in FedRequest /\ Holds(user', claim', r, f)
    /\ req' = [req EXCEPT ![c] = r] /\ fed' = [fed EXCEPT ![c] = f]
    /\ req[c].pc # "revokeAll" /\ r.pc # "softDelete"
    /\ RowsMove /\ NoDeletion /\ claim \subseteq claim'

\* The tables that such a step may write keep their types and owners.
TablesMove ==
    /\ group' \in [Groups -> GroupRow] /\ link' \in [Links -> LinkRow] /\ LinkInv'
    /\ provider' \in [Providers -> ProviderRow] /\ flow' \subseteq FlowRow /\ FlowInv'

\* Tables that are left alone are among them.
LEMMA TablesStay ==
    ASSUME FedInv, RowsMove
    PROVE  /\ UNCHANGED link => link' \in [Links -> LinkRow] /\ LinkInv'
           /\ UNCHANGED group => group' \in [Groups -> GroupRow]
           /\ UNCHANGED provider => provider' \in [Providers -> ProviderRow]
           /\ UNCHANGED flow => flow' \subseteq FlowRow /\ FlowInv'
<1>1. \A u : Known(u) => In(user', u)
  BY RowsKeep
<1>2. QED
  BY <1>1 DEF FedInv, TypeOK, OwnerInv, LinkInv, FlowInv, Known

\* No deletion begins or completes in such a step.
LEMMA ClientStepDeletes ==
    ASSUME FedInv, NEW c, NEW r, NEW f, ClientStep(c, r, f)
    PROVE  /\ \A d \in Clients : At(d, "revokeAll") => req'[d] = req[d]
           /\ \A u \in Users : Deleting(u)' => Deleting(u)
<1>1. \A d \in Clients : req'[d] = IF d = c THEN r ELSE req[d]
  BY DEF FedInv, TypeOK, ClientStep
<1>2. QED
  BY <1>1 DEF ClientStep, Deleting, At, NoDeletion

\* All but the identities and the sessions, which the step may add to.
LEMMA ClientStepKeeps ==
    ASSUME FedInv, NEW c, NEW r, NEW f, ClientStep(c, r, f), TablesMove,
           UNCHANGED <<token, doomed, late>>
    PROVE  /\ RowInv' /\ LinkInv' /\ TokenInv' /\ FlowInv' /\ ClientInv' /\ DoomInv' /\ LateInv'
           /\ session' \subseteq SessionRow /\ identity' \subseteq IdentityRow => TypeOK'
<1>1. RowsMove /\ claim \subseteq claim' /\ NoDeletion
  BY DEF ClientStep
<1>2. RowInv'
  BY <1>1, RowsKeep
<1>3. ClientInv' /\ req' \in [Clients -> Request] /\ fed' \in [Clients -> FedRequest]
  BY ClientsKeep DEF ClientStep
<1>4. TokenInv' /\ DoomInv' /\ LateInv'
  BY <1>1, ClientStepDeletes, TokensKeep
<1>5. user' \in [Users -> UserRow] /\ now' \in Nat /\ token' \in [Tokens -> TokenRow]
  BY <1>1 DEF RowsMove, FedInv, TypeOK
<1>6. QED
  BY <1>2, <1>3, <1>4, <1>5 DEF TablesMove, TypeOK

\* Such a step that leaves sessions and identities alone keeps the invariant.
LEMMA ClientStepInv ==
    ASSUME FedInv, NEW c, NEW r, NEW f, ClientStep(c, r, f), TablesMove,
           UNCHANGED <<token, doomed, late, session, identity, lateLink>>
    PROVE  FedInv'
<1>1. RowsMove /\ claim \subseteq claim' /\ NoDeletion
  BY DEF ClientStep
<1>2. session' \subseteq SessionRow /\ identity' \subseteq IdentityRow
  BY DEF FedInv, TypeOK
<1>3. SessionInv'
  BY <1>1, RowsKeep
<1>4. IdentityInv' /\ \A i \in identity' : Known(i.u)'
  BY <1>1, IdentitiesKeep
<1>5. /\ RowInv' /\ LinkInv' /\ TokenInv' /\ FlowInv' /\ ClientInv' /\ DoomInv' /\ LateInv'
      /\ TypeOK'
  BY <1>2, ClientStepKeeps
<1>6. QED
  BY <1>3, <1>4, <1>5 DEF FedInv, OwnerInv

\* Users as they are.
LEMMA SameUsers ==
    ASSUME FedInv, UNCHANGED <<user, now>>
    PROVE  RowsMove /\ NoDeletion
  BY DEF FedInv, TypeOK, RowInv, RowsMove, NoDeletion, UserRow

\* A local request of client c goes on to r; only links and groups may be written too.
LocalStep(c, r) ==
    /\ c \in Clients /\ r \in Request /\ req' = [req EXCEPT ![c] = r]
    /\ OfUser(r) => In(user', r.u)
    /\ r.pc = "issue" => r.ver <= user'[r.u].pwv
    /\ req[c].pc \notin {"revokeAll", "federated"} /\ r.pc # "softDelete"
    /\ RowsMove /\ NoDeletion
    /\ group' \in [Groups -> GroupRow] /\ link' \in [Links -> LinkRow] /\ LinkInv'
    /\ UNCHANGED <<token, doomed, late, fedVars>>

\* A client that serves a local request has no federated one.
LEMMA LocalIsClientStep ==
    ASSUME FedInv, NEW c, NEW r, LocalStep(c, r)
    PROVE  ClientStep(c, r, fed[c]) /\ TablesMove
<1>1. fed[c] \in FedRequest /\ fed' = [fed EXCEPT ![c] = fed[c]] /\ fed[c].pc = "idle"
  <2>1. Holds(user, claim, req[c], fed[c]) /\ fed \in [Clients -> FedRequest] /\ fed' = fed
    BY DEF FedInv, ClientInv, TypeOK, LocalStep, fedVars
  <2>2. req[c] # Busy
    BY DEF LocalStep, Busy, To, Idle
  <2>3. QED  BY <2>1, <2>2 DEF Holds, LocalStep
<1>2. Holds(user', claim', r, fed[c])
  BY <1>1 DEF Holds, FedOfUser, Resolving, LocalStep
<1>3. TablesMove
  BY TablesStay DEF TablesMove, LocalStep, fedVars
<1>4. QED
  BY <1>1, <1>2, <1>3 DEF ClientStep, LocalStep, fedVars

\* A step of a local request keeps the invariant.
LEMMA LocalStepInv ==
    ASSUME FedInv, NEW c, NEW r, LocalStep(c, r), UNCHANGED session
    PROVE  FedInv'
  BY LocalIsClientStep, ClientStepInv DEF LocalStep, fedVars

\* A step of nobody's request: users, requests, sessions and tokens stay.
LEMMA StillStepInv ==
    ASSUME FedInv, UNCHANGED <<user, now, session, token, doomed, late, link, req, fed, claim>>,
           group' \in [Groups -> GroupRow], provider' \in [Providers -> ProviderRow],
           flow' \subseteq FlowRow, FlowInv', identity' \subseteq identity, UNCHANGED lateLink
    PROVE  FedInv'
<1>1. TypeOK'
  BY DEF FedInv, TypeOK
<1>2. RowInv' /\ SessionInv' /\ ClientInv' /\ DoomInv' /\ LateInv' /\ LinkInv' /\ TokenInv'
  BY DEF FedInv, RowInv, OwnerInv, SessionInv, ClientInv, DoomInv, LateInv, LinkInv, TokenInv,
     Known, At, Deleting
<1>3. IdentityInv' /\ \A i \in identity' : Known(i.u)'
  BY DEF FedInv, OwnerInv, IdentityInv, NeverLinkedByEmail, DeletionDropsIdentities, Known
<1>4. QED
  BY <1>1, <1>2, <1>3 DEF FedInv, OwnerInv

-----------------------------------------------------------------------------
(* Statements on users.                                                     *)

\* A row that exists is replaced by another one of the same password.
LEMMA WriteMoves ==
    ASSUME FedInv, UNCHANGED now, NEW u, NEW row \in UserRow, user' = [user EXCEPT ![u] = row],
           Known(u), row.st # "none", row.pwv = user[u].pwv, row.pwAt = user[u].pwAt
    PROVE  RowsMove /\ (row.st = user[u].st => NoDeletion)
<1>1. \A v \in Users : user'[v] = IF v = u THEN row ELSE user[v]
  BY DEF FedInv, TypeOK
<1>2. user' \in [Users -> UserRow]
  BY DEF FedInv, TypeOK
<1>3. \A v \in Users : user[v].pwv \in Nat /\ user[v].pwAt \in Nat /\ user[v].pwAt <= now
  BY DEF FedInv, TypeOK, UserRow, RowInv
<1>4. QED
  BY <1>1, <1>2, <1>3 DEF FedInv, RowInv, RowsMove, NoDeletion, Known, In

\* InsertUser.
LEMMA InsertMoves ==
    ASSUME FedInv, UNCHANGED now, NEW u \in Users, NEW e \in Emails, NEW s \in Subjects \cup {None},
           NEW svc \in BOOLEAN, NEW pwv \in Nat, InsertUser(u, e, s, svc, pwv)
    PROVE  RowsMove /\ NoDeletion /\ In(user', u)
<1> DEFINE row == [st |-> "live", active |-> TRUE, email |-> e, ext |-> s,
                   svc |-> svc, verified |-> FALSE, pwv |-> pwv, pwAt |-> 0]
<1>1. row \in UserRow /\ row.st = "live" /\ row.pwv = pwv /\ row.pwAt = 0
  BY DEF UserRow
<1>2. user' = [user EXCEPT ![u] = row] /\ user[u].st = "none"
  BY DEF InsertUser
<1> HIDE DEF row
<1>3. \A v \in Users : user'[v] = IF v = u THEN row ELSE user[v]
  BY <1>2 DEF FedInv, TypeOK
<1>4. user' \in [Users -> UserRow]
  BY <1>1, <1>2 DEF FedInv, TypeOK
<1>5. \A v \in Users : user[v].pwv \in Nat /\ user[v].pwAt \in Nat /\ user[v].pwAt <= now
  BY DEF FedInv, TypeOK, UserRow, RowInv
<1>6. user[u].pwv = 0 /\ now \in Nat
  BY <1>2 DEF FedInv, RowInv, TypeOK
<1>7. QED
  BY <1>1, <1>2, <1>3, <1>4, <1>5, <1>6 DEF FedInv, RowInv, RowsMove, NoDeletion, In

\* UpdatePassword.
LEMMA PasswordMoves ==
    ASSUME FedInv, UNCHANGED now, NEW u, Known(u), UpdatePassword(u)
    PROVE  RowsMove /\ NoDeletion
<1>1. user \in [Users -> UserRow] /\ u \in Users /\ now \in Nat
  BY DEF FedInv, TypeOK, Known, In
<1>2. \A v \in Users : v # u => user'[v] = user[v]
  BY <1>1 DEF UpdatePassword
<1>3. user'[u].st = user[u].st /\ user'[u].pwv = user[u].pwv + 1 /\ user'[u].pwAt = now
  BY <1>1 DEF UpdatePassword, UserRow
<1>4. user' \in [Users -> UserRow]
  <2>1. PICK m : m = [user EXCEPT ![u].pwv = @ + 1]
    OBVIOUS
  <2>2. m \in [Users -> UserRow]
    BY <1>1, <2>1 DEF UserRow
  <2>3. user' = [m EXCEPT ![u].pwAt = now]
    BY <1>1, <2>1 DEF UpdatePassword
  <2>4. QED
    BY <1>1, <2>2, <2>3 DEF UserRow
<1>5. \A v \in Users : user[v].pwv \in Nat /\ user[v].pwAt \in Nat /\ user[v].pwAt <= now
  BY DEF FedInv, TypeOK, UserRow, RowInv
<1>6. QED
  BY <1>1, <1>2, <1>3, <1>4, <1>5 DEF FedInv, RowInv, RowsMove, NoDeletion, Known, In

-----------------------------------------------------------------------------
(* Local requests.                                                          *)

\* The records of requests.
LEMMA RequestTypes ==
    /\ Idle \in Request /\ ~OfUser(Idle) /\ Busy \in Request /\ Busy.pc = "federated"
    /\ \A pc \in Places, u \in Users :
          To(pc, u) \in Request /\ To(pc, u).pc = pc /\ To(pc, u).u = u
<1>1. Idle \in Request /\ Idle.pc = "idle"
  BY DEF Idle, Request, Places, Kinds, Levels
<1>2. ASSUME NEW pc \in Places, NEW u \in Users \cup {None}
      PROVE  To(pc, u) \in Request /\ To(pc, u).pc = pc /\ To(pc, u).u = u
  BY <1>1 DEF To, Request
<1>3. QED
  BY <1>1, <1>2 DEF Busy, OfUser, Places

\* Whoever authenticates has a row.
LEMMA AuthenticatedKnown ==
    ASSUME FedInv, NEW u \in Users, Authenticated(u)
    PROVE  Known(u)
  BY DEF Authenticated, SessionAccepted, ValidateSecret, GetByID, Known, In

\* A request of an idle client begins.
LEMMA BeginStep ==
    ASSUME FedInv, NEW c \in Clients, NEW r \in Request, req[c] = Idle,
           req' = [req EXCEPT ![c] = r],
           OfUser(r) => In(user', r.u), r.pc = "issue" => r.ver <= user'[r.u].pwv,
           r.pc # "softDelete", RowsMove, NoDeletion,
           link' \in [Links -> LinkRow], LinkInv',
           UNCHANGED <<group, token, doomed, late, session, fedVars>>
    PROVE  FedInv'
<1>1. req[c].pc = "idle"
  BY DEF Idle
<1>2. group' \in [Groups -> GroupRow]
  BY TablesStay
<1>3. QED
  BY <1>1, <1>2, LocalStepInv DEF LocalStep

\* ... and reads the database, at most.
LEMMA ReadStep ==
    ASSUME FedInv, NEW c \in Clients, NEW r \in Request, req[c] = Idle,
           req' = [req EXCEPT ![c] = r],
           OfUser(r) => Known(r.u), r.pc = "issue" => r.ver = user[r.u].pwv, r.pc # "softDelete",
           UNCHANGED <<user, now, link, group, token, doomed, late, session, fedVars>>
    PROVE  FedInv'
<1>1. RowsMove /\ NoDeletion
  BY SameUsers
<1>2. link' \in [Links -> LinkRow] /\ LinkInv'
  BY <1>1, TablesStay
<1>3. OfUser(r) => In(user', r.u)
  BY DEF Known
<1>4. ASSUME r.pc = "issue" PROVE r.ver <= user'[r.u].pwv
  BY <1>4, <1>3 DEF Request, OfUser, In
<1>5. QED
  BY <1>1, <1>2, <1>3, <1>4, BeginStep

\* SpendLinks takes no link from its owner.
LEMMA SpendMoves ==
    ASSUME FedInv, RowsMove, NEW u, NEW kind, SpendLinks(u, kind)
    PROVE  link' \in [Links -> LinkRow] /\ LinkInv'
<1>1. \A v : Known(v) => In(user', v)
  BY RowsKeep
<1>2. \A x \in Links : link[x] \in LinkRow /\ link'[x] \in LinkRow /\ link'[x].owner = link[x].owner
                       /\ (link'[x].st = "live" => link[x].st = "live")
  BY DEF FedInv, TypeOK, SpendLinks, LinkRow
<1>3. link' \in [Links -> LinkRow]
  BY <1>2 DEF SpendLinks
<1>4. QED
  BY <1>1, <1>2, <1>3 DEF FedInv, OwnerInv, LinkInv, Known

\* Sign-in, password changes and the requests for links.
LEMMA SignInStep ==
    ASSUME FedInv, UNCHANGED fedVars, NEW c \in Clients, NEW u \in Users, SignIn(c, u)
    PROVE  FedInv'
<1>1. CASE Login(c, u)
  <2>1. PICK r : r = [To("issue", u) EXCEPT !.ver = user[u].pwv]
    OBVIOUS
  <2>2. r \in Request /\ r.pc = "issue" /\ r.u = u /\ r.ver = user[u].pwv
    BY <2>1, RequestTypes DEF Request, Places, FedInv, TypeOK, UserRow
  <2>3. QED
    BY <1>1, <2>1, <2>2, ReadStep DEF Login, dbVars, env, hist, GetByID, Known, In
<1>2. CASE ChangePassword(c, u)
  <2>1. To("newPassword", u) \in Request
        /\ To("newPassword", u).pc = "newPassword" /\ To("newPassword", u).u = u
    BY RequestTypes DEF Places
  <2>2. QED
    BY <1>2, <2>1, AuthenticatedKnown, ReadStep DEF ChangePassword, Begin, dbVars, env, hist
<1>3. CASE ForgotPassword(c, u)
  <2>1. PICK r : r = [To("insertLink", u) EXCEPT !.kind = "reset"]
    OBVIOUS
  <2>2. r \in Request /\ r.pc = "insertLink" /\ r.u = u
    BY <2>1, RequestTypes DEF Request, Places, Kinds
  <2>3. UNCHANGED <<user, now, group, token, doomed, late, session>> /\ Known(u) /\ req[c] = Idle
        /\ req' = [req EXCEPT ![c] = r] /\ SpendLinks(u, "reset")
    BY <1>3, <2>1 DEF ForgotPassword, Begin, env, hist, GetByID, Known, In
  <2>4. RowsMove /\ NoDeletion
    BY <2>3, SameUsers
  <2>5. link' \in [Links -> LinkRow] /\ LinkInv'
    BY <2>3, <2>4, SpendMoves
  <2>6. QED
    BY <2>2, <2>3, <2>4, <2>5, BeginStep DEF Known
<1>4. CASE ResendVerification(c, u)
  <2>1. To("verifyLink", u) \in Request
        /\ To("verifyLink", u).pc = "verifyLink" /\ To("verifyLink", u).u = u
    BY RequestTypes DEF Places
  <2>2. QED
    BY <1>4, <2>1, AuthenticatedKnown, ReadStep DEF ResendVerification, Begin, dbVars, env, hist
<1>5. QED
  BY <1>1, <1>2, <1>3, <1>4 DEF SignIn

\* The requests of a user, and the use of a link.
LEMMA OwnRequestStep ==
    ASSUME FedInv, UNCHANGED fedVars, NEW c \in Clients,
           \/ \E u \in Users : UpdateProfile(c, u) \/ CreateToken(c, u)
           \/ \E x \in Links : ResetPassword(c, x)
    PROVE  FedInv'
<1>1. ASSUME NEW u \in Users, UpdateProfile(c, u) PROVE FedInv'
  <2>1. PICK r : r = [To("writeBack", u) EXCEPT !.on = user[u].active]
    OBVIOUS
  <2>2. r \in Request /\ r.pc = "writeBack" /\ r.u = u
    BY <2>1, RequestTypes DEF Request, Places, FedInv, TypeOK, UserRow
  <2>3. QED
    BY <1>1, <2>1, <2>2, ReadStep
       DEF UpdateProfile, AsAdmin, Begin, dbVars, env, hist, GetByID, Known, In
<1>2. ASSUME NEW u \in Users, CreateToken(c, u) PROVE FedInv'
  <2>1. To("insertToken", u) \in Request
        /\ To("insertToken", u).pc = "insertToken" /\ To("insertToken", u).u = u
    BY RequestTypes DEF Places
  <2>2. QED
    BY <1>2, <2>1, AuthenticatedKnown, ReadStep DEF CreateToken, Begin, dbVars, env, hist
<1>3. ASSUME NEW x \in Links, ResetPassword(c, x) PROVE FedInv'
  <2>1. PICK u : u = link[x].owner
    OBVIOUS
  <2>2. Known(u) /\ u \in Users
    BY <1>3, <2>1 DEF ResetPassword, FedInv, OwnerInv, LinkInv, Known, In
  <2>3. PICK r : r = [To("markUsed", u) EXCEPT !.x = x]
    OBVIOUS
  <2>4. r \in Request /\ r.pc = "markUsed" /\ r.u = u
    BY <2>2, <2>3, RequestTypes DEF Request, Places
  <2>5. QED
    BY <1>3, <2>1, <2>2, <2>3, <2>4, ReadStep DEF ResetPassword, Begin, dbVars, env, hist
<1>4. QED
  BY <1>1, <1>2, <1>3

\* A new account: the row, and the request that goes on to its permission.
LEMMA AccountStep ==
    ASSUME FedInv, UNCHANGED fedVars, NEW c \in Clients, NEW u \in Users, NEW e \in Emails,
           \/ Register(c, u, e)
           \/ \E l \in Grants : AdminCreateUser(c, u, e, l) \/ AdminCreateServiceAccount(c, u, e, l)
    PROVE  FedInv'
<1>1. ASSUME NEW svc \in BOOLEAN, NEW pwv \in Nat, NEW r \in Request, r.pc = "setDirect", r.u = u,
             InsertUser(u, e, None, svc, pwv), req[c] = Idle, req' = [req EXCEPT ![c] = r],
             UNCHANGED <<notUser, env>>
      PROVE  FedInv'
  <2>1. RowsMove /\ NoDeletion /\ In(user', u)
    BY <1>1, InsertMoves DEF env
  <2>2. link' \in [Links -> LinkRow] /\ LinkInv'
    BY <1>1, <2>1, TablesStay DEF notUser
  <2>3. QED
    BY <1>1, <2>1, <2>2, BeginStep DEF notUser, env, hist
<1>2. ASSUME NEW l \in Levels
      PROVE  LET r == [To("setDirect", u) EXCEPT !.lvl = l]
             IN  r \in Request /\ r.pc = "setDirect" /\ r.u = u
  BY RequestTypes DEF Request, Places
<1>3. CASE Register(c, u, e)
  <2>1. PICK q : q = [To("setDirect", u) EXCEPT !.lvl = "read"]
    OBVIOUS
  <2>2. q \in Request /\ q.pc = "setDirect" /\ q.u = u
    BY <1>2, <2>1 DEF Levels
  <2>3. PICK r : r = [q EXCEPT !.on = TRUE]
    OBVIOUS
  <2>4. r \in Request /\ r.pc = "setDirect" /\ r.u = u
    BY <2>2, <2>3 DEF Request
  <2>5. r = [To("setDirect", u) EXCEPT !.lvl = "read", !.on = TRUE]
    BY <2>1, <2>3
  <2>6. QED
    BY <1>1, <1>3, <2>4, <2>5 DEF Register, Begin
<1>4. ASSUME NEW l \in Grants, AdminCreateUser(c, u, e, l) PROVE FedInv'
  BY <1>1, <1>2, <1>4 DEF AdminCreateUser, AsAdmin, Begin, Levels, Grants
<1>5. ASSUME NEW l \in Grants, AdminCreateServiceAccount(c, u, e, l) PROVE FedInv'
  BY <1>1, <1>2, <1>5 DEF AdminCreateServiceAccount, AsAdmin, Begin, Levels, Grants
<1>6. QED
  BY <1>3, <1>4, <1>5

\* AdminUpdateUser and AdminSetPermissions, up to their first write.
LEMMA AdminReadStep ==
    ASSUME FedInv, UNCHANGED fedVars, NEW c \in Clients, NEW u \in Users,
           \/ \E on \in BOOLEAN : AdminUpdateUser(c, u, on)
           \/ \E l \in Grants : AdminSetPermissions(c, u, l)
    PROVE  FedInv'
<1>1. ASSUME NEW on \in BOOLEAN, AdminUpdateUser(c, u, on) PROVE FedInv'
  <2>1. PICK q : q = [To("setActive", u) EXCEPT !.on = on]
    OBVIOUS
  <2>2. q \in Request /\ q.pc = "setActive" /\ q.u = u
    BY <2>1, RequestTypes DEF Request, Places
  <2>3. PICK w \in BOOLEAN : w = (user[u].active /\ ~on)
    OBVIOUS
  <2>4. PICK r : r = [q EXCEPT !.was = w]
    OBVIOUS
  <2>5. r \in Request /\ r.pc = "setActive" /\ r.u = u
    BY <2>2, <2>4 DEF Request
  <2>6. r = [To("setActive", u) EXCEPT !.on = on, !.was = user[u].active /\ ~on]
    BY <2>1, <2>3, <2>4
  <2>7. QED
    BY <1>1, <2>5, <2>6, ReadStep
       DEF AdminUpdateUser, AsAdmin, Begin, dbVars, env, hist, GetByID, Known, In
<1>2. ASSUME NEW l \in Grants, AdminSetPermissions(c, u, l) PROVE FedInv'
  <2>1. PICK r : r = [To("setDirect", u) EXCEPT !.lvl = l]
    OBVIOUS
  <2>2. r \in Request /\ r.pc = "setDirect" /\ r.u = u
    BY <2>1, RequestTypes DEF Request, Places, Levels, Grants
  <2>3. QED
    BY <1>2, <2>1, <2>2, ReadStep DEF AdminSetPermissions, AsAdmin, Begin, dbVars, env, hist, Known, In
<1>3. QED
  BY <1>1, <1>2

\* A request about a group, before and after it has read the row.
LEMMA GroupRequest ==
    ASSUME NEW pc \in {"groupWrite", "groupDelete"}, NEW g \in Groups
    PROVE  LET q == [Idle EXCEPT !.pc = pc, !.x = g] IN q \in Request /\ q.pc = pc
  BY RequestTypes DEF Request, Places

\* The request of a group write is well typed.
LEMMA GroupWriteRequest ==
    ASSUME NEW g \in Groups, NEW on \in BOOLEAN, NEW l \in Levels, NEW w,
           w = [Idle EXCEPT !.pc = "groupWrite", !.x = g, !.on = on, !.lvl = l]
    PROVE  w \in Request /\ w.pc = "groupWrite"
<1>1. PICK q : q = [Idle EXCEPT !.pc = "groupWrite", !.x = g]
  OBVIOUS
<1>2. q \in Request /\ q.pc = "groupWrite"
  BY <1>1, GroupRequest
<1>3. PICK r : r = [q EXCEPT !.on = on]
  OBVIOUS
<1>4. r \in Request /\ r.pc = "groupWrite"
  BY <1>2, <1>3 DEF Request
<1>5. w = [r EXCEPT !.lvl = l]
  BY <1>1, <1>3
<1>6. QED
  BY <1>4, <1>5 DEF Request

\* Requests about groups, up to their last write, and the single statements.
LEMMA GroupStep ==
    ASSUME FedInv, UNCHANGED fedVars,
           \/ \E c \in Clients, g \in Groups : GroupOps(c, g) \/ ScimReplaceGroup(c, g) \/ ScimDeleteGroup(c, g)
           \/ \E g \in Groups, M \in SUBSET Users : ScimCreateGroup(g, M) \/ ReplaceMembers(g, M)
    PROVE  FedInv'
<1>1. ASSUME UNCHANGED <<user, now, session, token, doomed, late, link, req>>,
             group' \in [Groups -> GroupRow]
      PROVE  FedInv'
  <2>1. RowsMove
    BY <1>1, SameUsers
  <2>2. QED
    BY <1>1, <2>1, TablesStay, StillStepInv DEF fedVars
<1>2. ASSUME NEW g \in Groups, NEW l \in Levels, CreateGroup(g, l) PROVE group' \in [Groups -> GroupRow]
  BY <1>2 DEF CreateGroup, FedInv, TypeOK, GroupRow
<1>3. group \in [Groups -> GroupRow]
  BY DEF FedInv, TypeOK
<1>4. ASSUME NEW c \in Clients, NEW r \in Request, ~OfUser(r), r.pc \in {"groupWrite", "groupDelete"},
             req[c] = Idle, req' = [req EXCEPT ![c] = r],
             UNCHANGED <<user, now, link, group, token, doomed, late, session>>
      PROVE  FedInv'
  BY <1>4, ReadStep
<1>5. ASSUME NEW c \in Clients, NEW g \in Groups, GroupOps(c, g) PROVE FedInv'
  <2>1. ASSUME NEW l \in Grants, AdminCreateGroup(g, l) PROVE FedInv'
    BY <2>1, <1>1, <1>2 DEF AdminCreateGroup, env, hist, Grants, Levels
  <2>2. ASSUME NEW on \in BOOLEAN, NEW l \in Grants, AdminUpdateGroup(c, g, on, l) PROVE FedInv'
    <3>1. PICK r : r = [Idle EXCEPT !.pc = "groupWrite", !.x = g, !.on = on, !.lvl = l]
      OBVIOUS
    <3>2. r \in Request /\ r.pc = "groupWrite"
      BY <3>1, GroupWriteRequest DEF Grants, Levels
    <3>3. QED
      BY <2>2, <3>1, <3>2, <1>4 DEF AdminUpdateGroup, AsAdmin, Begin, dbVars, env, hist, OfUser
  <2>3. CASE AdminDeleteGroup(c, g)
    <3>1. PICK r : r = [Idle EXCEPT !.pc = "groupDelete", !.x = g]
      OBVIOUS
    <3>2. r \in Request /\ r.pc = "groupDelete"
      BY <3>1, GroupRequest
    <3>3. QED
      BY <2>3, <3>1, <3>2, <1>4 DEF AdminDeleteGroup, AsAdmin, Begin, env, hist, OfUser
  <2>4. ASSUME NEW u \in Users, AdminAddGroupMember(g, u) \/ AdminRemoveGroupMember(g, u) PROVE FedInv'
    BY <2>4, <1>1, <1>3 DEF AdminAddGroupMember, AdminRemoveGroupMember, env, hist
  <2>5. QED
    BY <1>5, <2>1, <2>2, <2>3, <2>4 DEF GroupOps
<1>6. ASSUME NEW c \in Clients, NEW g \in Groups, ScimReplaceGroup(c, g) PROVE FedInv'
  <2>1. PICK on \in BOOLEAN, l \in Levels : on = group[g].active /\ l = group[g].level
    BY <1>3 DEF GroupRow
  <2>2. PICK r : r = [Idle EXCEPT !.pc = "groupWrite", !.x = g, !.on = on, !.lvl = l]
    OBVIOUS
  <2>3. r \in Request /\ r.pc = "groupWrite"
    BY <2>2, GroupWriteRequest
  <2>4. QED
    BY <1>6, <2>1, <2>2, <2>3, <1>4 DEF ScimReplaceGroup, Begin, dbVars, env, hist, OfUser
<1>7. ASSUME NEW c \in Clients, NEW g \in Groups, ScimDeleteGroup(c, g) PROVE FedInv'
  <2>1. PICK r : r = [Idle EXCEPT !.pc = "groupDelete", !.x = g]
    OBVIOUS
  <2>2. r \in Request /\ r.pc = "groupDelete"
    BY <2>1, GroupRequest
  <2>3. QED
    BY <1>7, <2>1, <2>2, <1>4 DEF ScimDeleteGroup, Begin, env, hist, OfUser
<1>8. ASSUME NEW g \in Groups, NEW M, ScimCreateGroup(g, M) \/ ReplaceMembers(g, M) PROVE FedInv'
  BY <1>8, <1>1, <1>2, <1>3 DEF ScimCreateGroup, ReplaceMembers, env, hist, Levels
<1>9. QED
  BY <1>5, <1>6, <1>7, <1>8

\* A request of a user that goes on, for the same user, or ends.
LEMMA GoesOn ==
    ASSUME FedInv, NEW c \in Clients, NEW r \in Request, req' = [req EXCEPT ![c] = r],
           req[c].pc \notin {"idle", "federated", "revokeAll"}, r.pc \notin {"issue", "softDelete"},
           OfUser(r) => OfUser(req[c]) /\ r.u = req[c].u,
           RowsMove, NoDeletion, group' \in [Groups -> GroupRow], link' \in [Links -> LinkRow], LinkInv',
           UNCHANGED <<token, doomed, late, session, fedVars>>
    PROVE  FedInv'
<1>1. ASSUME OfUser(r) PROVE In(user', r.u)
  <2>1. Known(r.u)
    BY <1>1 DEF FedInv, ClientInv, Holds, Known
  <2>2. QED
    BY <2>1, RowsKeep
<1>2. QED
  BY <1>1, LocalStepInv DEF LocalStep

\* The statements of local requests that leave tokens and sessions alone.
LEMMA ContinueStep ==
    ASSUME FedInv, UNCHANGED fedVars, NEW c \in Clients,
           \/ SetDirect(c) \/ WriteBack(c) \/ StorePassword(c) \/ VerifyLink(c) \/ MarkUsed(c)
           \/ VerifyEmail(c) \/ GroupWrite(c) \/ \E keep : GroupDelete(c, keep)
           \/ \E x \in Links : InsertLink(c, x)
    PROVE  FedInv'
<1>1. PICK q \in Request : q = req[c]
  BY DEF FedInv, TypeOK
<1>2. OfUser(q) => Known(q.u) /\ q.u \in Users
  BY <1>1 DEF FedInv, ClientInv, Holds, Known, In
<1>3. UNCHANGED <<user, now>> => RowsMove /\ NoDeletion
  BY SameUsers
<1>4. ASSUME RowsMove PROVE /\ UNCHANGED link => link' \in [Links -> LinkRow] /\ LinkInv'
                            /\ UNCHANGED group => group' \in [Groups -> GroupRow]
  BY <1>4, TablesStay
<1>5. Idle \in Request /\ ~OfUser(Idle) /\ Idle.pc = "idle"
  BY RequestTypes DEF Idle
<1>6. ASSUME NEW pc \in Places PROVE LET r == [q EXCEPT !.pc = pc]
                                      IN  r \in Request /\ r.pc = pc /\ r.u = q.u
  BY DEF Request
<1>7. ASSUME NEW pc, Move(c, pc) PROVE req' = [req EXCEPT ![c] = [q EXCEPT !.pc = pc]]
  BY <1>1, <1>7 DEF Move, FedInv, TypeOK
<1>10. CASE SetDirect(c)
  <2>1. UNCHANGED <<user, now, link, group, token, doomed, late, session>> /\ q.pc = "setDirect"
    BY <1>1, <1>10 DEF SetDirect, At, env, hist
  <2>2. CASE Move(c, "verifyLink")
    <3>1. PICK r : r = [q EXCEPT !.pc = "verifyLink"]
      OBVIOUS
    <3>2. r \in Request /\ r.pc = "verifyLink" /\ r.u = q.u
      BY <3>1, <1>6 DEF Places
    <3>3. QED
      BY <1>1, <1>3, <1>4, <1>7, <2>1, <2>2, <3>1, <3>2, GoesOn DEF OfUser
  <2>3. CASE Done(c)
    BY <1>1, <1>3, <1>4, <1>5, <2>1, <2>3, GoesOn DEF Done
  <2>4. QED
    BY <1>10, <2>2, <2>3 DEF SetDirect
<1>11. CASE WriteBack(c)
  <2>1. /\ UNCHANGED <<now, link, group, token, doomed, late, session>>
        /\ q.pc = "writeBack" /\ req' = [req EXCEPT ![c] = Idle]
        /\ user' = [user EXCEPT ![q.u].active = q.on]
    BY <1>1, <1>11 DEF WriteBack, At, Done, env, hist, notUser
  <2>2. Known(q.u) /\ q.u \in Users /\ q.on \in BOOLEAN
    BY <1>2, <2>1 DEF OfUser, Request
  <2>3. PICK row : row = [user[q.u] EXCEPT !.active = q.on]
    OBVIOUS
  <2>4. row \in UserRow /\ row.st = user[q.u].st /\ row.pwv = user[q.u].pwv /\ row.pwAt = user[q.u].pwAt
    BY <2>2, <2>3 DEF FedInv, TypeOK, UserRow
  <2>5. user' = [user EXCEPT ![q.u] = row]
    BY <2>1, <2>2, <2>3 DEF FedInv, TypeOK
  <2>6. RowsMove /\ NoDeletion
    BY <2>1, <2>2, <2>4, <2>5, WriteMoves DEF Known, In
  <2>7. QED
    BY <1>1, <1>4, <1>5, <2>1, <2>6, GoesOn
<1>12. CASE StorePassword(c)
  <2>1. /\ UNCHANGED <<now, link, group, token, doomed, late, session>>
        /\ q.pc = "newPassword" /\ req' = [req EXCEPT ![c] = Idle] /\ UpdatePassword(q.u)
    BY <1>1, <1>12 DEF StorePassword, At, Done, env, hist, notUser
  <2>2. RowsMove /\ NoDeletion
    BY <1>2, <2>1, PasswordMoves DEF OfUser
  <2>3. QED
    BY <1>1, <1>4, <1>5, <2>1, <2>2, GoesOn
<1>13. CASE VerifyLink(c)
  <2>1. PICK r : r = [To("insertLink", q.u) EXCEPT !.kind = "verify"]
    OBVIOUS
  <2>2. /\ UNCHANGED <<user, now, group, token, doomed, late, session>>
        /\ q.pc = "verifyLink" /\ req' = [req EXCEPT ![c] = r] /\ SpendLinks(q.u, "verify")
    BY <1>1, <1>13, <2>1 DEF VerifyLink, At, env, hist
  <2>3. r \in Request /\ r.pc = "insertLink" /\ r.u = q.u
    BY <1>2, <2>1, <2>2, RequestTypes DEF Request, Places, Kinds, OfUser
  <2>4. link' \in [Links -> LinkRow] /\ LinkInv'
    BY <1>3, <2>2, SpendMoves
  <2>5. QED
    BY <1>1, <1>3, <1>4, <2>2, <2>3, <2>4, GoesOn DEF OfUser
<1>14. CASE MarkUsed(c)
  <2>1. PICK pc \in {"newPassword", "setVerified"} : Move(c, pc)
    BY <1>14 DEF MarkUsed
  <2>2. PICK r : r = [q EXCEPT !.pc = pc]
    OBVIOUS
  <2>3. r \in Request /\ r.pc = pc /\ r.u = q.u
    BY <1>6, <2>2 DEF Places
  <2>4. /\ UNCHANGED <<user, now, group, token, doomed, late, session>>
        /\ q.pc = "markUsed" /\ req' = [req EXCEPT ![c] = r] /\ link' = [link EXCEPT ![q.x].st = "used"]
    BY <1>1, <1>7, <1>14, <2>1, <2>2 DEF MarkUsed, At, env, hist
  <2>5. /\ link' \in [Links -> LinkRow]
        /\ \A x \in Links : link'[x] = link[x] \/ link'[x].st = "used"
    BY <2>4 DEF FedInv, TypeOK, LinkRow
  <2>6. LinkInv'
    BY <2>4, <2>5 DEF FedInv, OwnerInv, LinkInv, Known
  <2>7. QED
    BY <1>1, <1>3, <1>4, <2>3, <2>4, <2>5, <2>6, GoesOn DEF OfUser
<1>15. CASE VerifyEmail(c)
  <2>1. /\ UNCHANGED <<now, link, group, token, doomed, late, session>>
        /\ q.pc = "setVerified" /\ req' = [req EXCEPT ![c] = Idle]
        /\ user' = [user EXCEPT ![q.u].verified = TRUE] \/ user' = user
    BY <1>1, <1>15 DEF VerifyEmail, At, Done, env, hist, notUser
  <2>2. Known(q.u) /\ q.u \in Users
    BY <1>2, <2>1 DEF OfUser
  <2>3. PICK row : row = [user[q.u] EXCEPT !.verified = TRUE]
    OBVIOUS
  <2>4. row \in UserRow /\ row.st = user[q.u].st /\ row.pwv = user[q.u].pwv /\ row.pwAt = user[q.u].pwAt
    BY <2>2, <2>3 DEF FedInv, TypeOK, UserRow
  <2>5. user' = [user EXCEPT ![q.u] = row] \/ user' = user
    BY <2>1, <2>2, <2>3 DEF FedInv, TypeOK
  <2>6. RowsMove /\ NoDeletion
    BY <1>3, <2>1, <2>2, <2>4, <2>5, WriteMoves DEF Known, In
  <2>7. QED
    BY <1>1, <1>4, <1>5, <2>1, <2>6, GoesOn
<1>16. CASE GroupWrite(c) \/ \E keep : GroupDelete(c, keep)
  <2>1. /\ UNCHANGED <<user, now, link, token, doomed, late, session>>
        /\ q.pc \in {"groupWrite", "groupDelete"} /\ req' = [req EXCEPT ![c] = Idle]
    BY <1>1, <1>16 DEF GroupWrite, GroupDelete, At, Done, env, hist
  <2>2. group' \in [Groups -> GroupRow]
    <3>1. CASE GroupWrite(c)
      BY <1>1, <3>1 DEF GroupWrite, FedInv, TypeOK, GroupRow, Request
    <3>2. CASE \E keep : GroupDelete(c, keep)
      <4>1. NoGroup \in GroupRow
        BY DEF NoGroup, GroupRow, Levels
      <4>2. group' = [group EXCEPT ![req[c].x] = NoGroup] \/ group' = group
        BY <3>2 DEF GroupDelete
      <4>3. QED
        BY <4>1, <4>2 DEF FedInv, TypeOK
    <3>3. QED  BY <1>16, <3>1, <3>2
  <2>3. QED
    BY <1>1, <1>3, <1>4, <1>5, <2>1, <2>2, GoesOn
<1>17. ASSUME NEW x \in Links, InsertLink(c, x) PROVE FedInv'
  <2>1. PICK row : row = [st |-> "live", owner |-> q.u, kind |-> q.kind]
    OBVIOUS
  <2>2. /\ UNCHANGED <<user, now, group, token, doomed, late, session>>
        /\ q.pc = "insertLink" /\ req' = [req EXCEPT ![c] = Idle] /\ link' = [link EXCEPT ![x] = row]
    BY <1>1, <1>17, <2>1 DEF InsertLink, At, Done, env, hist
  <2>3. row \in LinkRow /\ Known(row.owner) /\ In(user', row.owner)
    BY <1>2, <2>1, <2>2 DEF LinkRow, Request, OfUser, Known
  <2>4. link' \in [Links -> LinkRow] /\ LinkInv'
    <3>1. \A y \in Links : link'[y] = IF y = x THEN row ELSE link[y]
      BY <2>2 DEF FedInv, TypeOK
    <3>2. QED
      BY <2>2, <2>3, <3>1 DEF FedInv, TypeOK, OwnerInv, LinkInv, Known
  <2>5. QED
    BY <1>1, <1>3, <1>4, <1>5, <2>2, <2>4, GoesOn
<1>18. QED
  BY <1>10, <1>11, <1>12, <1>13, <1>14, <1>15, <1>16, <1>17

-----------------------------------------------------------------------------
(* Sessions, tokens and deletions.                                          *)

\* GenerateToken: the session is issued now, for a password that was the row's.
LEMMA SessionStep ==
    ASSUME FedInv, UNCHANGED fedVars, NEW c \in Clients, GenerateToken(c)
    PROVE  FedInv'
<1>1. PICK q \in Request : q = req[c]
  BY DEF FedInv, TypeOK
<1>2. PICK n : n = [owner |-> q.u, iat |-> now, ver |-> q.ver]
  OBVIOUS
<1>3. /\ UNCHANGED <<user, now, link, group, token, doomed, late>> /\ q.pc = "issue"
      /\ req' = [req EXCEPT ![c] = Idle] /\ session' = session \cup {n}
  BY <1>1, <1>2 DEF GenerateToken, At, Done, dbVars, hist
<1>4. Known(q.u) /\ q.u \in Users /\ q.ver <= user[q.u].pwv /\ q.ver \in Nat /\ now \in Nat
  BY <1>1, <1>3 DEF FedInv, ClientInv, Holds, OfUser, Known, In, Request, TypeOK
<1>5. RowsMove /\ NoDeletion
  BY <1>3, SameUsers
<1>6. Idle \in Request /\ ~OfUser(Idle) /\ Idle.pc = "idle"
  BY RequestTypes DEF Idle
<1>7. LocalStep(c, Idle)
  BY <1>1, <1>3, <1>5, <1>6, TablesStay DEF LocalStep
<1>8. n \in SessionRow /\ session' \subseteq SessionRow /\ identity' \subseteq IdentityRow
  BY <1>2, <1>3, <1>4 DEF FedInv, TypeOK, SessionRow, fedVars
<1>9. /\ RowInv' /\ LinkInv' /\ TokenInv' /\ FlowInv' /\ ClientInv' /\ DoomInv' /\ LateInv'
      /\ TypeOK'
  BY <1>3, <1>7, <1>8, LocalIsClientStep, ClientStepKeeps
<1>10. IdentityInv' /\ \A i \in identity' : Known(i.u)'
  BY <1>5, IdentitiesKeep DEF fedVars
<1>11. SessionInv'
  <2>1. \A s \in session : /\ Known(s.owner) /\ s.ver <= user[s.owner].pwv
                           /\ s.ver = user[s.owner].pwv => s.iat >= user[s.owner].pwAt
    BY DEF FedInv, SessionInv
  <2>2. user[q.u].pwAt <= now /\ n.owner = q.u /\ n.iat = now /\ n.ver = q.ver
        /\ user[q.u].pwAt \in Nat
    BY <1>2, <1>4 DEF FedInv, RowInv, TypeOK, UserRow
  <2>3. Known(n.owner) /\ n.ver <= user[n.owner].pwv /\ n.iat >= user[n.owner].pwAt
    BY <2>2, <1>4
  <2>4. QED
    BY <1>3, <2>1, <2>3 DEF SessionInv, Known
<1>12. QED
  BY <1>9, <1>10, <1>11 DEF FedInv, OwnerInv

\* What a step on tokens or users of a local request keeps of the rest.
LEMMA RestKeeps ==
    ASSUME FedInv, RowsMove, NEW c \in Clients, NEW r \in Request, req' = [req EXCEPT ![c] = r],
           req[c].pc # "federated", OfUser(r) => In(user', r.u), r.pc # "issue",
           UNCHANGED <<link, group, session, provider, flow, fed, claim>>,
           token' \in [Tokens -> TokenRow], identity' \subseteq identity
    PROVE  TypeOK' /\ RowInv' /\ LinkInv' /\ FlowInv' /\ SessionInv' /\ ClientInv'
<1>1. fed[c] \in FedRequest /\ fed' = [fed EXCEPT ![c] = fed[c]] /\ fed[c].pc = "idle"
  <2>1. Holds(user, claim, req[c], fed[c]) /\ fed \in [Clients -> FedRequest] /\ fed' = fed
    BY DEF FedInv, ClientInv, TypeOK
  <2>2. req[c] # Busy
    BY RequestTypes
  <2>3. QED  BY <2>1, <2>2 DEF Holds
<1>2. Holds(user', claim', r, fed[c])
  BY <1>1 DEF Holds, FedOfUser, Resolving
<1>3. ClientInv' /\ req' \in [Clients -> Request] /\ fed' \in [Clients -> FedRequest]
  BY <1>1, <1>2, ClientsKeep
<1>4. RowInv' /\ SessionInv'
  BY RowsKeep
<1>5. LinkInv' /\ FlowInv'
  BY TablesStay
<1>6. TypeOK'
  BY <1>3 DEF FedInv, TypeOK, RowsMove
<1>7. QED
  BY <1>3, <1>4, <1>5, <1>6

\* Revoke leaves no live token of S, and takes none from its owner.
LEMMA RevokeMoves ==
    ASSUME FedInv, NEW S, Revoke(S)
    PROVE  /\ token' \in [Tokens -> TokenRow]
           /\ \A t \in Tokens :
                 /\ token'[t].owner = token[t].owner
                 /\ token'[t].st = "live" => token[t].st = "live" /\ t \notin S
                 /\ token[t].st = "live" => token'[t].st \in {"live", "revoked"}
                 /\ token[t].st = "revoked" => token'[t].st = "revoked"
                 /\ token'[t].st # "none" => token[t].st # "none"
<1>1. \A t \in Tokens : token[t] \in TokenRow
  BY DEF FedInv, TypeOK
<1>2. \A t \in Tokens :
        LET row == token'[t]
        IN  /\ row \in TokenRow /\ row.owner = token[t].owner
            /\ row.st = IF t \in S /\ token[t].st = "live" THEN "revoked" ELSE token[t].st
  BY <1>1 DEF Revoke, TokenRow
<1>3. token' \in [Tokens -> TokenRow]
  BY <1>2 DEF Revoke
<1>4. QED
  BY <1>2, <1>3

\* RevokeToken and AdminBulkRevokeTokens.
LEMMA RevokeStep ==
    ASSUME FedInv, UNCHANGED fedVars,
           \/ \E t \in Tokens : RevokeToken(t)
           \/ \E S \in SUBSET Tokens : AdminBulkRevokeTokens(S)
    PROVE  FedInv'
<1>1. PICK S : Revoke(S)
  BY DEF RevokeToken, AdminBulkRevokeTokens
<1>2. UNCHANGED <<user, direct, group, members, link, req, session, now, doomed, late>>
  BY DEF RevokeToken, AdminBulkRevokeTokens, env, hist
<1>3. TypeOK'
  BY <1>1, <1>2, RevokeMoves DEF FedInv, TypeOK, fedVars
<1>4. RowInv' /\ SessionInv' /\ ClientInv' /\ LinkInv' /\ FlowInv' /\ IdentityInv'
      /\ \A i \in identity' : Known(i.u)'
  BY <1>2 DEF FedInv, RowInv, OwnerInv, SessionInv, ClientInv, LinkInv, FlowInv, Known, fedVars,
     IdentityInv, NeverLinkedByEmail, DeletionDropsIdentities
<1>5. TokenInv' /\ DoomInv' /\ LateInv'
  BY <1>1, <1>2, RevokeMoves
     DEF FedInv, OwnerInv, TokenInv, DoomInv, LateInv, Known, At, Deleting
<1>6. QED
  BY <1>3, <1>4, <1>5 DEF FedInv, OwnerInv

\* RevokeAll, which takes the tokens of its user or, failing, gives them up.
LEMMA RevokeAllStep ==
    ASSUME FedInv, UNCHANGED fedVars, NEW c \in Clients, RevokeAll(c)
    PROVE  FedInv'
<1>1. PICK u : u = req[c].u
  OBVIOUS
<1>2. /\ UNCHANGED <<user, now, group, link, session, late>> /\ req[c].pc = "revokeAll"
      /\ req' = [req EXCEPT ![c] = Idle]
  BY DEF RevokeAll, At, Done
<1>3. RowsMove /\ NoDeletion
  BY <1>2, SameUsers
<1>4. /\ token' \in [Tokens -> TokenRow]
      /\ \A t \in Tokens :
                 /\ token'[t].owner = token[t].owner
                 /\ token'[t].st = "live" => token[t].st = "live"
                 /\ token[t].st = "live" => token'[t].st \in {"live", "revoked"}
                 /\ token[t].st = "revoked" => token'[t].st = "revoked"
                 /\ token'[t].st # "none" => token[t].st # "none"
      /\ doomed' \subseteq doomed
      /\ \A t \in doomed' : t \in Tokens /\ token[t].owner = u => token'[t].st # "live"
  <2>1. CASE RevokeAllByUser(u) /\ UNCHANGED doomed
    BY <2>1, RevokeMoves DEF RevokeAllByUser
  <2>2. CASE UNCHANGED token /\ doomed' = doomed \ LiveTokens(u)
    BY <2>2 DEF LiveTokens, FedInv, TypeOK, TokenRow
  <2>3. QED
    BY <1>1, <2>1, <2>2 DEF RevokeAll
<1>5. Idle \in Request /\ ~OfUser(Idle) /\ Idle.pc = "idle"
  BY RequestTypes DEF Idle
<1>6. TypeOK' /\ RowInv' /\ LinkInv' /\ FlowInv' /\ SessionInv' /\ ClientInv'
  BY <1>2, <1>3, <1>4, <1>5, RestKeeps DEF fedVars
<1>7. IdentityInv' /\ \A i \in identity' : Known(i.u)'
  BY <1>3, IdentitiesKeep DEF fedVars
<1>8. \A d \in Clients : req'[d] = IF d = c THEN Idle ELSE req[d]
  BY <1>2 DEF FedInv, TypeOK
<1>9. TokenInv'
  BY <1>2, <1>4 DEF FedInv, OwnerInv, TokenInv, Known
<1>10. DoomInv'
  <2> SUFFICES ASSUME NEW t \in doomed'
               PROVE  /\ t \in Tokens
                      /\ \/ token'[t].st = "revoked"
                         \/ token'[t].st = "live" /\ \E d \in Clients : req'[d].pc = "revokeAll" /\ req'[d].u = token'[t].owner
    BY DEF DoomInv, At
  <2>1. t \in doomed /\ t \in Tokens
    BY <1>4 DEF FedInv, DoomInv
  <2>2. CASE token'[t].st = "live"
    <3>1. token[t].st = "live" /\ token[t].owner # u
      BY <1>4, <2>1, <2>2
    <3>2. PICK d \in Clients : req[d].pc = "revokeAll" /\ req[d].u = token[t].owner
      BY <2>1, <3>1 DEF FedInv, DoomInv, At
    <3>3. QED
      BY <1>1, <1>4, <1>8, <2>1, <2>2, <3>1, <3>2
  <2>3. CASE token'[t].st # "live"
    BY <1>4, <2>1, <2>3 DEF FedInv, DoomInv
  <2>4. QED  BY <2>2, <2>3
<1>11. LateInv'
  BY <1>2, <1>4, <1>5, <1>8 DEF FedInv, LateInv, Deleting, At
<1>12. QED
  BY <1>6, <1>7, <1>9, <1>10, <1>11 DEF FedInv, OwnerInv

\* A deactivation is written, and the tokens it dooms have a request about to revoke them.
LEMMA DoomStep ==
    ASSUME FedInv, NEW c \in Clients, NEW u, NEW r \in Request, req' = [req EXCEPT ![c] = r],
           req[c].pc # "revokeAll", RowsMove, NoDeletion, UNCHANGED <<token, late>>,
           r.pc # "softDelete",
           \/ UNCHANGED doomed
           \/ doomed' = doomed \cup LiveTokens(u) /\ r.pc = "revokeAll" /\ r.u = u
    PROVE  TokenInv' /\ DoomInv' /\ LateInv'
<1>1. \A d \in Clients : req'[d] = IF d = c THEN r ELSE req[d]
  BY DEF FedInv, TypeOK
<1>2. TokenInv'
  BY RowsKeep DEF FedInv, OwnerInv, TokenInv, Known
<1>3. LateInv'
  <2> SUFFICES ASSUME NEW t \in Tokens, token[t].st = "live", Deleting(token[t].owner)' PROVE t \in late
    BY DEF LateInv
  <2>1. token[t].owner \in Users
    BY DEF FedInv, OwnerInv, TokenInv, Known, In
  <2>2. Deleting(token[t].owner)
    BY <1>1, <2>1 DEF Deleting, At, NoDeletion
  <2>3. QED  BY <2>2 DEF FedInv, LateInv
<1>4. DoomInv'
  <2> SUFFICES ASSUME NEW t \in doomed'
               PROVE  /\ t \in Tokens
                      /\ \/ token[t].st = "revoked"
                         \/ token[t].st = "live" /\ \E d \in Clients : req'[d].pc = "revokeAll" /\ req'[d].u = token[t].owner
    BY DEF DoomInv, At
  <2>1. CASE t \in doomed
    BY <1>1, <2>1 DEF FedInv, DoomInv, At
  <2>2. CASE t \notin doomed
    BY <1>1, <2>2 DEF LiveTokens
  <2>3. QED  BY <2>1, <2>2
<1>5. QED  BY <1>2, <1>3, <1>4

\* SetActive.
LEMMA SetActiveStep ==
    ASSUME FedInv, UNCHANGED fedVars, NEW c \in Clients, SetActive(c)
    PROVE  FedInv'
<1>1. PICK q \in Request : q = req[c]
  BY DEF FedInv, TypeOK
<1>2. UNCHANGED <<now, token, group, link, session, late>> /\ q.pc = "setActive"
  BY <1>1 DEF SetActive, notUser, At
<1>3. Known(q.u) /\ q.u \in Users /\ q.on \in BOOLEAN
  BY <1>1, <1>2 DEF FedInv, ClientInv, Holds, OfUser, Known, In, Request
<1>4. Idle \in Request /\ ~OfUser(Idle) /\ Idle.pc = "idle"
  BY RequestTypes DEF Idle
<1>5. PICK a : a = [q EXCEPT !.pc = "revokeAll"]
  OBVIOUS
<1>6. a \in Request /\ a.pc = "revokeAll" /\ a.u = q.u
  BY <1>5 DEF Request, Places
<1>7. PICK r \in {Idle, a} : /\ req' = [req EXCEPT ![c] = r]
                             /\ doomed' = doomed \/ (r = a /\ doomed' = doomed \cup LiveTokens(q.u))
  <2>1. CASE GetByID(q.u) /\ q.was
    BY <1>1, <1>5, <2>1 DEF SetActive
  <2>2. CASE ~(GetByID(q.u) /\ q.was)
    BY <1>1, <2>2 DEF SetActive
  <2>3. QED  BY <2>1, <2>2
<1>8. RowsMove /\ NoDeletion
  <2>1. PICK row : row = [user[q.u] EXCEPT !.active = q.on]
    OBVIOUS
  <2>2. row \in UserRow /\ row.st = user[q.u].st /\ row.pwv = user[q.u].pwv /\ row.pwAt = user[q.u].pwAt
    BY <1>3, <2>1 DEF FedInv, TypeOK, UserRow
  <2>3. user' = [user EXCEPT ![q.u] = row] \/ user' = user
    BY <1>1, <1>3, <2>1 DEF SetActive, FedInv, TypeOK
  <2>4. QED
    BY <1>2, <1>3, <2>2, <2>3, SameUsers, WriteMoves DEF Known, In
<1>9. OfUser(r) => In(user', r.u)
  BY <1>3, <1>4, <1>6, <1>8, RowsKeep
<1>10. TypeOK' /\ RowInv' /\ LinkInv' /\ FlowInv' /\ SessionInv' /\ ClientInv'
  <2>1. r \in Request /\ r.pc # "issue" /\ req[c].pc # "federated"
    BY <1>1, <1>2, <1>4, <1>6
  <2>2. token' \in [Tokens -> TokenRow]
    BY <1>2 DEF FedInv, TypeOK
  <2>3. QED
    BY <1>2, <1>7, <1>8, <1>9, <2>1, <2>2, RestKeeps DEF fedVars
<1>11. IdentityInv' /\ \A i \in identity' : Known(i.u)'
  BY <1>8, IdentitiesKeep DEF fedVars
<1>12. TokenInv' /\ DoomInv' /\ LateInv'
  BY <1>1, <1>2, <1>4, <1>6, <1>7, <1>8, DoomStep
<1>13. QED
  BY <1>10, <1>11, <1>12 DEF FedInv, OwnerInv

\* InsertToken: a token of a user whose deletion is under way is a late one.
LEMMA InsertTokenStep ==
    ASSUME FedInv, UNCHANGED fedVars, NEW c \in Clients, NEW t \in Tokens, InsertToken(c, t)
    PROVE  FedInv'
<1>1. PICK q \in Request : q = req[c]
  BY DEF FedInv, TypeOK
<1>2. PICK row : row = [st |-> "live", owner |-> q.u]
  OBVIOUS
<1>3. /\ UNCHANGED <<user, now, group, link, session, doomed>> /\ q.pc = "insertToken"
      /\ req' = [req EXCEPT ![c] = Idle] /\ token[t].st = "none"
      /\ token' = [token EXCEPT ![t] = row]
      /\ late' = IF Deleting(q.u) THEN late \cup {t} ELSE late
  BY <1>1, <1>2 DEF InsertToken, At, Done
<1>4. Known(q.u) /\ q.u \in Users
  BY <1>1, <1>3 DEF FedInv, ClientInv, Holds, OfUser, Known, In
<1>5. RowsMove /\ NoDeletion
  BY <1>3, SameUsers
<1>6. Idle \in Request /\ ~OfUser(Idle) /\ Idle.pc = "idle"
  BY RequestTypes DEF Idle
<1>7. row \in TokenRow /\ row.st = "live" /\ row.owner = q.u /\ token' \in [Tokens -> TokenRow]
      /\ \A x \in Tokens : token'[x] = IF x = t THEN row ELSE token[x]
  BY <1>2, <1>3, <1>4 DEF TokenRow, FedInv, TypeOK
<1>8. TypeOK' /\ RowInv' /\ LinkInv' /\ FlowInv' /\ SessionInv' /\ ClientInv'
  BY <1>1, <1>3, <1>5, <1>6, <1>7, RestKeeps DEF fedVars
<1>9. IdentityInv' /\ \A i \in identity' : Known(i.u)'
  BY <1>5, IdentitiesKeep DEF fedVars
<1>10. \A d \in Clients : req'[d] = IF d = c THEN Idle ELSE req[d]
  BY <1>3 DEF FedInv, TypeOK
<1>11. TokenInv'
  BY <1>3, <1>4, <1>7 DEF FedInv, OwnerInv, TokenInv, Known
<1>12. DoomInv'
  <2>1. t \notin doomed
    BY <1>3 DEF FedInv, DoomInv
  <2>2. QED
    BY <1>1, <1>3, <1>7, <1>10, <2>1 DEF FedInv, DoomInv, At
<1>13. LateInv'
  <2> SUFFICES ASSUME NEW x \in Tokens, token'[x].st = "live", Deleting(token[x].owner)' PROVE x \in late'
    BY DEF LateInv
  <2>2. CASE x = t
    <3>1. Deleting(q.u)
      BY <1>3, <1>6, <1>7, <1>10, <2>2 DEF Deleting, At
    <3>2. QED  BY <1>3, <2>2, <3>1
  <2>3. CASE x # t
    <3>1. token[x].st = "live" /\ Deleting(token[x].owner)
      BY <1>3, <1>6, <1>7, <1>10, <2>3 DEF Deleting, At
    <3>2. QED  BY <1>3, <3>1 DEF FedInv, LateInv
  <2>4. QED  BY <2>2, <2>3
<1>14. QED
  BY <1>8, <1>9, <1>11, <1>12, <1>13 DEF FedInv, OwnerInv

\* A deletion begins: the user's tokens are revoked, and those are doomed.
LEMMA DeletionBegins ==
    ASSUME FedInv, UNCHANGED fedVars, NEW c \in Clients, NEW u \in Users, user[u].st # "none",
           req[c] = Idle, req' = [req EXCEPT ![c] = To("softDelete", u)], RevokeAllByUser(u),
           doomed' = doomed \cup LiveTokens(u), UNCHANGED <<user, now, group, link, session, late>>
    PROVE  FedInv'
<1>1. PICK r : r = To("softDelete", u)
  OBVIOUS
<1>2. r \in Request /\ r.pc = "softDelete" /\ r.u = u /\ req[c].pc = "idle"
  BY <1>1, RequestTypes DEF Places, Idle
<1>3. RowsMove /\ NoDeletion
  BY SameUsers
<1>4. /\ token' \in [Tokens -> TokenRow]
      /\ \A t \in Tokens :
                 /\ token'[t].owner = token[t].owner
                 /\ token'[t].st = "live" => token[t].st = "live" /\ token[t].owner # u
                 /\ token[t].st = "live" => token'[t].st \in {"live", "revoked"}
                 /\ token[t].st = "revoked" => token'[t].st = "revoked"
                 /\ token'[t].st # "none" => token[t].st # "none"
  BY RevokeMoves DEF RevokeAllByUser
<1>5. TypeOK' /\ RowInv' /\ LinkInv' /\ FlowInv' /\ SessionInv' /\ ClientInv'
  <2>1. OfUser(r) => In(user', r.u)
    BY <1>2 DEF In
  <2>2. QED
    BY <1>1, <1>2, <1>3, <1>4, <2>1, RestKeeps DEF fedVars
<1>6. IdentityInv' /\ \A i \in identity' : Known(i.u)'
  BY <1>3, IdentitiesKeep DEF fedVars
<1>7. \A d \in Clients : req'[d] = IF d = c THEN r ELSE req[d]
  BY <1>1 DEF FedInv, TypeOK
<1>8. TokenInv'
  BY <1>4 DEF FedInv, OwnerInv, TokenInv, Known
<1>9. DoomInv'
  <2> SUFFICES ASSUME NEW t \in doomed'
               PROVE  /\ t \in Tokens
                      /\ \/ token'[t].st = "revoked"
                         \/ token'[t].st = "live" /\ \E d \in Clients : req'[d].pc = "revokeAll" /\ req'[d].u = token'[t].owner
    BY DEF DoomInv, At
  <2>1. CASE t \in doomed
    BY <1>2, <1>4, <1>7, <2>1 DEF FedInv, DoomInv, At
  <2>2. CASE t \in LiveTokens(u)
    BY <1>4, <2>2 DEF LiveTokens
  <2>3. QED  BY <2>1, <2>2
<1>10. LateInv'
  <2> SUFFICES ASSUME NEW t \in Tokens, token'[t].st = "live", Deleting(token[t].owner)' PROVE t \in late
    BY DEF LateInv
  <2>1. token[t].st = "live" /\ token[t].owner # u /\ token'[t].owner = token[t].owner
    BY <1>4
  <2>2. Deleting(token[t].owner)
    BY <1>2, <1>7, <2>1 DEF Deleting, At
  <2>3. QED  BY <2>1, <2>2 DEF FedInv, LateInv
<1>11. QED
  BY <1>5, <1>6, <1>8, <1>9, <1>10 DEF FedInv, OwnerInv

\* AdminDeleteUser, and the deletion over SCIM.
LEMMA DeleteUserStep ==
    ASSUME FedInv, UNCHANGED fedVars, NEW c \in Clients, NEW u \in Users,
           ScimDeleteUser(c, u) \/ \E w \in Users : AdminDeleteUser(c, w, u)
    PROVE  FedInv'
<1>1. CASE ScimDeleteUser(c, u)
  BY <1>1, DeletionBegins DEF ScimDeleteUser, Begin
<1>2. ASSUME NEW w \in Users, AdminDeleteUser(c, w, u) PROVE FedInv'
  <2>1. UNCHANGED <<user, now, group, link, session, late>> /\ req[c] = Idle /\ user[u].st # "none"
    BY <1>2 DEF AdminDeleteUser
  <2>2. CASE /\ RevokeAllByUser(u) /\ doomed' = doomed \cup LiveTokens(u)
             /\ req' = [req EXCEPT ![c] = To("softDelete", u)]
    BY <2>1, <2>2, DeletionBegins
  <2>3. CASE UNCHANGED <<token, doomed, req>>
    <3>1. RowsMove
      BY <2>1, SameUsers
    <3>2. QED
      BY <2>1, <2>3, <3>1, TablesStay, StillStepInv DEF fedVars
  <2>4. QED
    BY <1>2, <2>2, <2>3 DEF AdminDeleteUser
<1>3. QED
  BY <1>1, <1>2

\* SoftDelete: the tokens that are still live are late ones, the identities go.
LEMMA SoftDeleteStep ==
    ASSUME FedInv, NEW c \in Clients, SoftDelete(c), DropIdentities(req[c].u),
           UNCHANGED <<provider, scim, flow, fed, claim, lateLink>>
    PROVE  FedInv'
<1>1. PICK q \in Request : q = req[c]
  BY DEF FedInv, TypeOK
<1>2. /\ UNCHANGED <<now, group, link, token, session, doomed, late>> /\ q.pc = "softDelete"
      /\ req' = [req EXCEPT ![c] = Idle]
      /\ user' = [user EXCEPT ![q.u].st = "deleted", ![q.u].email = None]
  BY <1>1 DEF SoftDelete, At, Done, notUser, env, hist
<1>3. Known(q.u) /\ q.u \in Users
  BY <1>1, <1>2 DEF FedInv, ClientInv, Holds, OfUser, Known, In
<1>4. PICK row : row = [user[q.u] EXCEPT !.st = "deleted", !.email = None]
  OBVIOUS
<1>5. row \in UserRow /\ row.st = "deleted" /\ row.pwv = user[q.u].pwv /\ row.pwAt = user[q.u].pwAt
  BY <1>3, <1>4 DEF FedInv, TypeOK, UserRow
<1>6. user' = [user EXCEPT ![q.u] = row]
  BY <1>2, <1>3, <1>4 DEF FedInv, TypeOK
<1>7. RowsMove /\ \A v \in Users : user'[v] = IF v = q.u THEN row ELSE user[v]
  BY <1>2, <1>3, <1>5, <1>6, WriteMoves DEF FedInv, TypeOK
<1>8. Idle \in Request /\ ~OfUser(Idle) /\ Idle.pc = "idle"
  BY RequestTypes DEF Idle
<1>9. TypeOK' /\ RowInv' /\ LinkInv' /\ FlowInv' /\ SessionInv' /\ ClientInv'
  <2>1. token' \in [Tokens -> TokenRow] /\ identity' \subseteq identity /\ req[c].pc # "federated"
    BY <1>1, <1>2 DEF FedInv, TypeOK, DropIdentities
  <2>2. QED
    BY <1>2, <1>7, <1>8, <2>1, RestKeeps
<1>10. \A d \in Clients : req'[d] = IF d = c THEN Idle ELSE req[d]
  BY <1>2 DEF FedInv, TypeOK
<1>11. TokenInv' /\ DoomInv' /\ LateInv'
  <2>1. \A d \in Clients : At(d, "revokeAll") => req'[d] = req[d]
    BY <1>1, <1>2, <1>10 DEF At
  <2>2. \A u \in Users : Deleting(u)' => Deleting(u)
    BY <1>1, <1>2, <1>5, <1>7, <1>8, <1>10 DEF Deleting, At
  <2>3. QED
    BY <1>2, <1>7, <2>1, <2>2, TokensKeep
<1>12. IdentityInv' /\ \A i \in identity' : Known(i.u)'
  <2>1. \A i \in identity' : i \in identity /\ i.u # q.u /\ Known(i.u)
    BY <1>1 DEF DropIdentities, FedInv, OwnerInv
  <2>2. \A i \in identity' : user'[i.u] = user[i.u]
    BY <1>7, <2>1 DEF Known, In
  <2>3. QED
    BY <2>1, <2>2 DEF FedInv, IdentityInv, NeverLinkedByEmail, DeletionDropsIdentities, Known, In
<1>13. QED
  BY <1>9, <1>11, <1>12 DEF FedInv, OwnerInv

-----------------------------------------------------------------------------
(* The boot, and the clock.                                                 *)

\* A step that leaves the requests alone and writes at most rows of users.
LEMMA RowsOnlyInv ==
    ASSUME FedInv, RowsMove, NoDeletion,
           UNCHANGED <<req, fed, token, doomed, late, session, link, group, provider, flow, identity, lateLink>>,
           claim \subseteq claim'
    PROVE  FedInv'
<1>1. RowInv' /\ SessionInv'
  BY RowsKeep
<1>2. LinkInv' /\ FlowInv'
  BY TablesStay
<1>3. TokenInv' /\ DoomInv' /\ LateInv'
  BY TokensKeep DEF Deleting, At, NoDeletion
<1>4. IdentityInv' /\ \A i \in identity' : Known(i.u)'
  BY IdentitiesKeep
<1>5. ClientInv'
  BY HoldsKeeps DEF FedInv, ClientInv, TypeOK
<1>6. TypeOK'
  BY DEF FedInv, TypeOK, RowsMove
<1>7. QED
  BY <1>1, <1>2, <1>3, <1>4, <1>5, <1>6 DEF FedInv, OwnerInv

\* The boot of a replica.
LEMMA BootStepInv ==
    ASSUME FedInv, UNCHANGED fedVars, NEW r \in Replicas, BootStep(r)
    PROVE  FedInv'
<1>1. UNCHANGED <<now, req, token, doomed, late, session, link, group>>
  BY DEF BootStep, BootCount, BootCreate, BootGrant, BootCheck, BootCrash, dbVars, notUser, hist, reqVars
<1>2. CASE UNCHANGED user
  BY <1>1, <1>2, SameUsers, RowsOnlyInv DEF fedVars
<1>3. ASSUME NEW u \in Users, InsertUser(u, AdminEmail, None, FALSE, 1) PROVE FedInv'
  BY <1>1, <1>3, AccountAssumption, InsertMoves, RowsOnlyInv DEF fedVars
<1>4. QED
  BY <1>2, <1>3 DEF BootStep, BootCount, BootCreate, BootGrant, BootCheck, BootCrash, dbVars

\* The clock only makes passwords and sessions older.
LEMMA TickStep ==
    ASSUME FedInv, UNCHANGED fedVars, Tick
    PROVE  FedInv'
<1>1. UNCHANGED <<user, req, token, doomed, late, session, link, group>> /\ now' = now + 1
  BY DEF Tick, dbVars, reqVars, hist
<1>2. TypeOK'
  BY <1>1 DEF FedInv, TypeOK, fedVars
<1>3. RowInv'
  BY <1>1 DEF FedInv, TypeOK, RowInv, UserRow
<1>4. SessionInv' /\ ClientInv' /\ DoomInv' /\ LateInv' /\ OwnerInv' /\ IdentityInv'
  BY <1>1 DEF FedInv, OwnerInv, SessionInv, ClientInv, DoomInv, LateInv, LinkInv, TokenInv, FlowInv,
     Known, At, Deleting, IdentityInv, NeverLinkedByEmail, DeletionDropsIdentities, fedVars
<1>5. QED
  BY <1>2, <1>3, <1>4 DEF FedInv

\* The steps of Accounts.
LEMMA AccountsKeep ==
    ASSUME FedInv, AccStep, UNCHANGED fedVars
    PROVE  FedInv'
<1>1. ASSUME NEW c \in Clients, Continue(c) PROVE FedInv'
  BY <1>1, SessionStep, ContinueStep, SetActiveStep, RevokeAllStep, InsertTokenStep DEF Continue
<1>2. ASSUME NEW c \in Clients, NEW u \in Users, Admin(c, u) PROVE FedInv'
  BY <1>2, AdminReadStep, DeleteUserStep, AccountStep DEF Admin
<1>3. ASSUME NEW c \in Clients, NEW g \in Groups, GroupOps(c, g) PROVE FedInv'
  BY <1>3, GroupStep
<1>4. ASSUME NEW c \in Clients, NEW u \in Users,
             SignIn(c, u) \/ UpdateProfile(c, u) \/ CreateToken(c, u) \/ \E e \in Emails : Register(c, u, e)
      PROVE FedInv'
  BY <1>4, SignInStep, OwnRequestStep, AccountStep
<1>5. ASSUME NEW c \in Clients, NEW x \in Links, ResetPassword(c, x) PROVE FedInv'
  BY <1>5, OwnRequestStep
<1>6. QED
  BY <1>1, <1>2, <1>3, <1>4, <1>5, BootStepInv, RevokeStep, TickStep DEF AccStep

-----------------------------------------------------------------------------
(* Federated requests.                                                      *)

\* The record of no federated request.
LEMMA NoFedType == NoFed \in FedRequest /\ NoFed.pc = "idle"
  BY DEF NoFed, FedRequest, FedPlaces

\* What a federated request may hold next.
Bound(f) ==
    /\ FedOfUser(f) => In(user', f.u)
    /\ f.pc \in {"link", "insert"} => <<f.s, f.u>> \in claim'
    /\ f.pc = "scimWrite" => (f.was => f.off)
    /\ Resolving(f) => f.s \in Subjects

\* A federated request begins, goes on, ends, or hands over to a local one.
LEMMA FedBegins ==
    ASSUME FedInv, NEW c \in Clients, req[c] = Idle, NEW f \in FedRequest, Bound(f),
           req' = [req EXCEPT ![c] = Busy], fed' = [fed EXCEPT ![c] = f],
           RowsMove, NoDeletion, claim \subseteq claim'
    PROVE  ClientStep(c, Busy, f)
  BY RequestTypes DEF ClientStep, Holds, OfUser, Bound, Idle

\* A federated request that moves on to its next statement.
LEMMA FedGoes ==
    ASSUME FedInv, NEW c \in Clients, fed[c].pc # "idle", NEW f \in FedRequest, Bound(f),
           FedGo(c, f), RowsMove, NoDeletion, claim \subseteq claim'
    PROVE  ClientStep(c, Busy, f)
<1>1. req[c] = Busy /\ req \in [Clients -> Request]
  BY DEF FedInv, ClientInv, Holds, TypeOK
<1>2. req' = [req EXCEPT ![c] = Busy]
  BY <1>1 DEF FedGo, reqVars
<1>3. QED
  BY <1>1, <1>2, RequestTypes DEF ClientStep, Holds, OfUser, Bound, FedGo

\* A federated request that hands over to a local one.
LEMMA FedHands ==
    ASSUME FedInv, NEW c \in Clients, fed[c].pc # "idle", NEW r \in Request, FedHand(c, r),
           OfUser(r) => In(user', r.u), r.pc = "issue" => r.ver <= user'[r.u].pwv,
           r.pc # "softDelete", RowsMove, NoDeletion, claim \subseteq claim'
    PROVE  ClientStep(c, r, NoFed)
<1>1. req[c] = Busy
  BY DEF FedInv, ClientInv, Holds
<1>2. QED
  BY <1>1, RequestTypes, NoFedType DEF ClientStep, Holds, FedOfUser, Resolving, FedHand

\* A federated request that ends.
LEMMA FedEnds ==
    ASSUME FedInv, NEW c \in Clients, fed[c].pc # "idle", FedEnd(c),
           RowsMove, NoDeletion, claim \subseteq claim'
    PROVE  ClientStep(c, Idle, NoFed)
<1>1. FedHand(c, Idle) /\ Idle \in Request /\ ~OfUser(Idle) /\ Idle.pc = "idle"
  BY RequestTypes DEF FedEnd, FedHand, Done, Idle
<1>2. QED
  BY <1>1, FedHands

\* The session of a user that is known.
LEMMA IssueRequest ==
    ASSUME FedInv, NEW u, Known(u), UNCHANGED user, NEW r, r = [To("issue", u) EXCEPT !.ver = user[u].pwv]
    PROVE  r \in Request /\ In(user', r.u) /\ r.ver <= user'[r.u].pwv /\ r.pc = "issue"
<1>1. u \in Users /\ user[u].pwv \in Nat
  BY DEF Known, In, FedInv, TypeOK, UserRow
<1>2. r \in Request /\ r.pc = "issue" /\ r.u = u /\ r.ver = user[u].pwv
  BY <1>1, RequestTypes DEF Request, Places
<1>3. QED
  BY <1>1, <1>2 DEF Known

\* A step of a federated request that writes nothing but the claims.
LEMMA FedQuiet ==
    ASSUME FedInv, NEW c, NEW r, NEW f, ClientStep(c, r, f),
           UNCHANGED <<link, group, token, doomed, late, session, provider, flow, identity, lateLink>>
    PROVE  FedInv'
<1>1. RowsMove
  BY DEF ClientStep
<1>2. TablesMove
  BY <1>1, TablesStay DEF TablesMove
<1>3. QED
  BY <1>2, ClientStepInv

\* Lookup, Correlate and Collide.
LEMMA ResolveStep ==
    ASSUME FedInv, NEW c \in Clients, Lookup(c) \/ Correlate(c) \/ Collide(c)
    PROVE  FedInv'
<1>1. PICK f \in FedRequest : f = fed[c]
  BY DEF FedInv, TypeOK
<1>2. /\ UNCHANGED <<user, now, link, group, token, doomed, late, session, provider, flow, identity, lateLink>>
      /\ claim \subseteq claim' /\ fed[c].pc \in {"lookup", "correlate", "collide"}
  BY DEF Lookup, Correlate, Collide, dbVars, env, hist, FedAt
<1>3. RowsMove /\ NoDeletion
  BY <1>2, SameUsers
<1>4. CASE FedEnd(c)
  BY <1>2, <1>3, <1>4, FedEnds, FedQuiet
<1>5. ASSUME NEW pc \in {"correlate", "collide", "create"}, FedGo(c, [f EXCEPT !.pc = pc]) PROVE FedInv'
  <2>1. PICK g : g = [f EXCEPT !.pc = pc]
    OBVIOUS
  <2>2. g \in FedRequest /\ g.pc = pc /\ g.s = f.s /\ f.s \in Subjects
    BY <1>1, <1>2, <2>1 DEF FedRequest, FedPlaces, FedInv, ClientInv, Holds, Resolving
  <2>3. QED
    BY <1>2, <1>3, <1>5, <2>1, <2>2, FedGoes, FedQuiet DEF Bound, FedOfUser
<1>6. CASE Lookup(c)
  <2>1. ASSUME NEW i \in identity, FedHand(c, [To("issue", i.u) EXCEPT !.ver = user[i.u].pwv]) PROVE FedInv'
    <3>1. PICK r : r = [To("issue", i.u) EXCEPT !.ver = user[i.u].pwv]
      OBVIOUS
    <3>2. Known(i.u)
      BY DEF FedInv, OwnerInv
    <3>3. r \in Request /\ In(user', r.u) /\ r.ver <= user'[r.u].pwv /\ r.pc = "issue"
      BY <1>2, <3>1, <3>2, IssueRequest
    <3>4. QED
      BY <1>2, <1>3, <2>1, <3>1, <3>3, FedHands, FedQuiet
  <2>2. QED
    BY <1>1, <1>4, <1>5, <1>6, <2>1 DEF Lookup, IdentityOf
<1>7. CASE Correlate(c)
  <2>1. ASSUME NEW u \in GetByExternalID(f.s), FedGo(c, [f EXCEPT !.pc = "link", !.u = u]),
               claim' = claim \cup ({f.s} \X GetByExternalID(f.s))
        PROVE  FedInv'
    <3>1. PICK g : g = [f EXCEPT !.pc = "link", !.u = u]
      OBVIOUS
    <3>2. u \in Users /\ In(user', u) /\ <<f.s, u>> \in claim'
      BY <1>2, <2>1 DEF GetByExternalID, GetByID, In
    <3>3. g \in FedRequest /\ g.pc = "link" /\ g.u = u /\ g.s = f.s
      BY <3>1, <3>2 DEF FedRequest, FedPlaces
    <3>4. QED
      BY <1>2, <1>3, <2>1, <3>1, <3>2, <3>3, FedGoes, FedQuiet DEF Bound, Resolving
  <2>2. QED
    BY <1>1, <1>4, <1>5, <1>7, <2>1 DEF Correlate
<1>8. CASE Collide(c)
  BY <1>1, <1>4, <1>5, <1>8 DEF Collide
<1>9. QED
  BY <1>6, <1>7, <1>8

\* Create: the new account carries the subject as external id.
LEMMA CreateStep ==
    ASSUME FedInv, NEW c \in Clients, Create(c)
    PROVE  FedInv'
<1>1. PICK f \in FedRequest : f = fed[c]
  BY DEF FedInv, TypeOK
<1>2. /\ UNCHANGED <<now, link, group, token, doomed, late, session, provider, flow, identity, lateLink>>
      /\ claim \subseteq claim' /\ fed[c].pc = "create"
  BY DEF Create, notUser, env, hist, FedAt
<1>3. CASE FedEnd(c) /\ UNCHANGED user
  BY <1>2, <1>3, SameUsers, FedEnds, FedQuiet
<1>4. ASSUME NEW u \in Users, InsertUser(u, EmailOf[f.s], f.s, FALSE, 0),
             FedGo(c, [f EXCEPT !.pc = "link", !.u = u, !.new = TRUE]), claim' = claim \cup {<<f.s, u>>}
      PROVE  FedInv'
  <2>1. RowsMove /\ NoDeletion /\ In(user', u)
    <3>1. f.s \in Subjects /\ EmailOf[f.s] \in Emails
      BY <1>1, <1>2, FederationAssumption DEF FedInv, ClientInv, Holds, Resolving
    <3>2. QED
      BY <1>2, <1>4, <3>1, InsertMoves
  <2>2. PICK h : h = [f EXCEPT !.pc = "link", !.u = u]
    OBVIOUS
  <2>3. h \in FedRequest /\ h.pc = "link" /\ h.u = u /\ h.s = f.s
    BY <2>2 DEF FedRequest, FedPlaces
  <2>4. PICK g : g = [h EXCEPT !.new = TRUE]
    OBVIOUS
  <2>5. g \in FedRequest /\ g.pc = "link" /\ g.u = u /\ g.s = f.s
    BY <2>3, <2>4 DEF FedRequest
  <2>6. g = [f EXCEPT !.pc = "link", !.u = u, !.new = TRUE]
    BY <2>2, <2>4
  <2>7. QED
    BY <1>2, <1>4, <2>1, <2>5, <2>6, FedGoes, FedQuiet DEF Bound, Resolving
<1>5. QED
  BY <1>1, <1>3, <1>4 DEF Create

\* What follows a link.
LEMMA AfterLinkStep ==
    ASSUME FedInv, NEW c \in Clients, fed[c].pc \in {"link", "insert"}, AfterLink(c),
           UNCHANGED <<user, now, claim>>
    PROVE  \E r, f : ClientStep(c, r, f)
<1>1. PICK f \in FedRequest : f = fed[c]
  BY DEF FedInv, TypeOK
<1>2. Known(f.u) /\ In(user', f.u)
  BY <1>1 DEF FedInv, ClientInv, Holds, FedOfUser, Known
<1>3. RowsMove /\ NoDeletion
  BY SameUsers
<1>4. CASE FedEnd(c)
  BY <1>3, <1>4, FedEnds
<1>5. CASE FedGo(c, [f EXCEPT !.pc = "addDefault"])
  <2>1. PICK g : g = [f EXCEPT !.pc = "addDefault"]
    OBVIOUS
  <2>2. g \in FedRequest /\ g.pc = "addDefault" /\ g.u = f.u
    BY <2>1 DEF FedRequest, FedPlaces
  <2>3. QED
    BY <1>2, <1>3, <1>5, <2>1, <2>2, FedGoes DEF Bound, Resolving
<1>6. CASE FedHand(c, [To("issue", f.u) EXCEPT !.ver = user[f.u].pwv])
  <2>1. PICK r : r = [To("issue", f.u) EXCEPT !.ver = user[f.u].pwv]
    OBVIOUS
  <2>2. r \in Request /\ In(user', r.u) /\ r.ver <= user'[r.u].pwv /\ r.pc = "issue"
    BY <1>2, <2>1, IssueRequest
  <2>3. QED
    BY <1>3, <1>6, <2>1, <2>2, FedHands
<1>7. f.off \in BOOLEAN /\ f.new \in BOOLEAN
  BY DEF FedRequest
<1>8. QED
  BY <1>1, <1>4, <1>5, <1>6, <1>7 DEF AfterLink

\* LinkIdentity.
LEMMA LinkStep ==
    ASSUME FedInv, NEW c \in Clients, LinkIdentity(c)
    PROVE  FedInv'
<1>1. PICK f \in FedRequest : f = fed[c]
  BY DEF FedInv, TypeOK
<1>2. /\ UNCHANGED <<user, now, link, group, token, doomed, late, session, provider, flow, identity,
                    claim, lateLink>>
      /\ fed[c].pc = "link"
  BY DEF LinkIdentity, dbVars, env, hist, FedAt
<1>3. RowsMove /\ NoDeletion
  BY <1>2, SameUsers
<1>4. CASE FedEnd(c)
  BY <1>2, <1>3, <1>4, FedEnds, FedQuiet
<1>5. CASE AfterLink(c)
  BY <1>2, <1>5, AfterLinkStep, FedQuiet
<1>6. CASE FedGo(c, [f EXCEPT !.pc = "insert"])
  <2>1. PICK g : g = [f EXCEPT !.pc = "insert"]
    OBVIOUS
  <2>2. g \in FedRequest /\ g.pc = "insert" /\ g.u = f.u /\ g.s = f.s
    BY <2>1 DEF FedRequest, FedPlaces
  <2>3. In(user', f.u) /\ <<f.s, f.u>> \in claim'
    BY <1>1, <1>2 DEF FedInv, ClientInv, Holds, FedOfUser
  <2>4. QED
    BY <1>2, <1>3, <1>6, <2>1, <2>2, <2>3, FedGoes, FedQuiet DEF Bound, Resolving
<1>7. QED
  BY <1>1, <1>4, <1>5, <1>6 DEF LinkIdentity

\* InsertIdentity: the identity was claimed, and one of a deleted user is a late link.
LEMMA InsertIdentityStep ==
    ASSUME FedInv, NEW c \in Clients, InsertIdentity(c)
    PROVE  FedInv'
<1>1. PICK f \in FedRequest : f = fed[c]
  BY DEF FedInv, TypeOK
<1>2. /\ UNCHANGED <<user, now, link, group, token, doomed, late, session, provider, flow, claim>>
      /\ fed[c].pc = "insert"
  BY DEF InsertIdentity, dbVars, env, hist, FedAt
<1>3. RowsMove /\ NoDeletion
  BY <1>2, SameUsers
<1>4. CASE FedEnd(c) /\ UNCHANGED <<identity, lateLink>>
  BY <1>2, <1>3, <1>4, FedEnds, FedQuiet
<1>5. ASSUME NEW i, i = [p |-> f.p, s |-> f.s, u |-> f.u], AfterLink(c), identity' = identity \cup {i},
             lateLink' = IF GetByID(f.u) THEN lateLink ELSE lateLink \cup {i}
      PROVE  FedInv'
  <2>1. Known(f.u) /\ f.u \in Users /\ <<f.s, f.u>> \in claim
    BY <1>1, <1>2 DEF FedInv, ClientInv, Holds, FedOfUser, Known, In
  <2>2. i \in IdentityRow /\ i.u = f.u /\ i.s = f.s
    BY <1>5, <2>1 DEF IdentityRow, FedRequest
  <2>3. PICK r, g : ClientStep(c, r, g)
    BY <1>2, <1>5, AfterLinkStep
  <2>4. TablesMove
    BY <1>2, <1>3, TablesStay DEF TablesMove
  <2>5. session' \subseteq SessionRow /\ identity' \subseteq IdentityRow
    BY <1>2, <1>5, <2>2 DEF FedInv, TypeOK
  <2>6. /\ RowInv' /\ LinkInv' /\ TokenInv' /\ FlowInv' /\ ClientInv' /\ DoomInv' /\ LateInv'
        /\ TypeOK'
    BY <1>2, <2>3, <2>4, <2>5, ClientStepKeeps
  <2>7. SessionInv'
    BY <1>2, <1>3, RowsKeep
  <2>8. NeverLinkedByEmail'
    BY <1>2, <1>5, <2>1, <2>2 DEF FedInv, IdentityInv, NeverLinkedByEmail
  <2>9. DeletionDropsIdentities'
    BY <1>2, <1>5, <2>2 DEF FedInv, IdentityInv, DeletionDropsIdentities, GetByID
  <2>10. \A j \in identity' : Known(j.u)'
    BY <1>2, <1>5, <2>1, <2>2 DEF FedInv, OwnerInv, Known
  <2>11. QED
    BY <2>6, <2>7, <2>8, <2>9, <2>10 DEF FedInv, OwnerInv, IdentityInv
<1>6. QED
  BY <1>1, <1>4, <1>5 DEF InsertIdentity

\* AddDefault.
LEMMA AddDefaultStep ==
    ASSUME FedInv, NEW c \in Clients, AddDefault(c)
    PROVE  FedInv'
<1>1. PICK f \in FedRequest : f = fed[c]
  BY DEF FedInv, TypeOK
<1>2. /\ UNCHANGED <<user, now, link, group, token, doomed, late, session, provider, flow, identity,
                    claim, lateLink>>
      /\ fed[c].pc = "addDefault"
  BY DEF AddDefault, env, hist, FedAt
<1>3. RowsMove /\ NoDeletion
  BY <1>2, SameUsers
<1>4. CASE FedEnd(c)
  BY <1>2, <1>3, <1>4, FedEnds, FedQuiet
<1>5. CASE FedHand(c, [To("issue", f.u) EXCEPT !.ver = user[f.u].pwv])
  <2>1. PICK r : r = [To("issue", f.u) EXCEPT !.ver = user[f.u].pwv]
    OBVIOUS
  <2>2. Known(f.u)
    BY <1>1, <1>2 DEF FedInv, ClientInv, Holds, FedOfUser, Known
  <2>3. r \in Request /\ In(user', r.u) /\ r.ver <= user'[r.u].pwv /\ r.pc = "issue"
    BY <1>2, <2>1, <2>2, IssueRequest
  <2>4. QED
    BY <1>2, <1>3, <1>5, <2>1, <2>3, FedHands, FedQuiet
<1>6. QED
  BY <1>1, <1>4, <1>5 DEF AddDefault

\* A client's step that only takes identities away.
LEMMA UnlinkKeeps ==
    ASSUME FedInv, NEW c, NEW r, NEW f, ClientStep(c, r, f), identity' \subseteq identity,
           UNCHANGED <<user, now, link, group, token, doomed, late, session, provider, flow, claim, lateLink>>
    PROVE  FedInv'
<1>1. RowsMove /\ NoDeletion
  BY SameUsers
<1>2. TablesMove
  BY <1>1, TablesStay DEF TablesMove
<1>3. session' \subseteq SessionRow /\ identity' \subseteq IdentityRow
  BY DEF FedInv, TypeOK
<1>4. /\ RowInv' /\ LinkInv' /\ TokenInv' /\ FlowInv' /\ ClientInv' /\ DoomInv' /\ LateInv'
      /\ TypeOK'
  BY <1>2, <1>3, ClientStepKeeps
<1>5. SessionInv'
  BY <1>1, RowsKeep
<1>6. IdentityInv' /\ \A i \in identity' : Known(i.u)'
  BY DEF FedInv, OwnerInv, IdentityInv, NeverLinkedByEmail, DeletionDropsIdentities, Known
<1>7. QED
  BY <1>4, <1>5, <1>6 DEF FedInv, OwnerInv

\* Unlink.
LEMMA UnlinkStep ==
    ASSUME FedInv, NEW c \in Clients, Unlink(c)
    PROVE  FedInv'
<1>1. /\ UNCHANGED <<user, now, link, group, token, doomed, late, session, provider, flow, claim, lateLink>>
      /\ fed[c].pc = "unlink" /\ FedEnd(c) /\ identity' \subseteq identity
  BY DEF Unlink, dbVars, env, hist, FedAt
<1>2. ClientStep(c, Idle, NoFed)
  BY <1>1, SameUsers, FedEnds
<1>3. QED
  BY <1>1, <1>2, UnlinkKeeps

\* UpdateFromSCIM: a deactivation it saw goes on to revoke the tokens it dooms.
LEMMA ScimWriteStep ==
    ASSUME FedInv, NEW c \in Clients, UpdateFromSCIM(c)
    PROVE  FedInv'
<1>1. PICK f \in FedRequest : f = fed[c]
  BY DEF FedInv, TypeOK
<1>2. /\ UNCHANGED <<now, link, group, token, late, session, provider, flow, identity, lateLink>>
      /\ fed[c].pc = "scimWrite"
  BY DEF UpdateFromSCIM, notUser, FedAt
<1>3. Known(f.u) /\ f.u \in Users /\ (f.was => f.off) /\ req[c] = Busy
      /\ f.was \in BOOLEAN /\ f.off \in BOOLEAN
  BY <1>1, <1>2 DEF FedInv, ClientInv, Holds, FedOfUser, Known, In, FedRequest
<1>4. RowsMove /\ NoDeletion
  <2>1. PICK on \in BOOLEAN : on = IF f.on = None THEN user[f.u].active ELSE f.on
    BY <1>3 DEF FedInv, TypeOK, UserRow, FedRequest
  <2>2. PICK w : w = [user[f.u] EXCEPT !.email = f.e, !.ext = f.s]
    OBVIOUS
  <2>3. w \in UserRow /\ w.st = user[f.u].st /\ w.pwv = user[f.u].pwv /\ w.pwAt = user[f.u].pwAt
    <3>1. PICK old \in UserRow : old = user[f.u]
      BY <1>3 DEF FedInv, TypeOK
    <3>2. PICK e \in Emails \cup {None}, s \in Subjects \cup {None} : e = f.e /\ s = f.s
      BY DEF FedRequest
    <3>3. w = [old EXCEPT !.email = e, !.ext = s]
      BY <2>2, <3>1, <3>2
    <3>4. w \in UserRow /\ w.st = old.st /\ w.pwv = old.pwv /\ w.pwAt = old.pwAt
      BY <3>3 DEF UserRow
    <3>5. QED  BY <3>1, <3>4
  <2>4. PICK row : row = [w EXCEPT !.active = on]
    OBVIOUS
  <2>5. row \in UserRow /\ row.st = user[f.u].st /\ row.pwv = user[f.u].pwv /\ row.pwAt = user[f.u].pwAt
    BY <2>3, <2>4 DEF UserRow
  <2>6. row = [user[f.u] EXCEPT !.email = f.e, !.ext = f.s, !.active = IF f.on = None THEN @ ELSE f.on]
    BY <2>1, <2>2, <2>4
  <2>7. user' = user \/ user' = [user EXCEPT ![f.u] = row]
    BY <1>1, <2>6 DEF UpdateFromSCIM
  <2>8. QED
    BY <1>2, <1>3, <2>5, <2>7, SameUsers, WriteMoves DEF Known, In
<1>5. claim \subseteq claim'
  BY DEF UpdateFromSCIM
<1>6. CASE FedEnd(c) /\ UNCHANGED doomed
  BY <1>2, <1>4, <1>5, <1>6, FedEnds, FedQuiet
<1>7. CASE FedHand(c, To("revokeAll", f.u)) /\ doomed' \in {doomed, doomed \cup LiveTokens(f.u)}
  <2>1. PICK r : r = To("revokeAll", f.u)
    OBVIOUS
  <2>2. r \in Request /\ r.pc = "revokeAll" /\ r.u = f.u
    BY <1>3, <2>1, RequestTypes DEF Places
  <2>3. In(user', r.u)
    BY <1>3, <1>4, <2>2, RowsKeep
  <2>4. ClientStep(c, r, NoFed)
    BY <1>2, <1>4, <1>5, <1>7, <2>1, <2>2, <2>3, FedHands
  <2>5. ClientInv' /\ req' \in [Clients -> Request] /\ fed' \in [Clients -> FedRequest]
    BY <2>4, ClientsKeep DEF ClientStep
  <2>6. TokenInv' /\ DoomInv' /\ LateInv'
    <3>1. req' = [req EXCEPT ![c] = r] /\ req[c].pc # "revokeAll"
      BY <2>4 DEF ClientStep
    <3>2. QED
      BY <1>2, <1>4, <1>7, <2>2, <3>1, DoomStep
  <2>7. RowInv' /\ SessionInv' /\ LinkInv' /\ FlowInv'
    BY <1>2, <1>4, RowsKeep, TablesStay
  <2>8. IdentityInv' /\ \A i \in identity' : Known(i.u)'
    BY <1>2, <1>4, <1>5, IdentitiesKeep
  <2>9. TypeOK'
    BY <1>2, <1>4, <2>5 DEF FedInv, TypeOK, RowsMove
  <2>10. QED
    BY <2>5, <2>6, <2>7, <2>8, <2>9 DEF FedInv, OwnerInv
<1>8. QED
  <2>1. CASE f.off
    BY <1>1, <1>6, <1>7, <2>1 DEF UpdateFromSCIM
  <2>2. CASE ~f.off
    <3>1. ~f.was
      BY <1>3, <2>2
    <3>2. FedEnd(c) /\ UNCHANGED doomed
      BY <1>1, <2>2, <3>1 DEF UpdateFromSCIM
    <3>3. QED  BY <1>6, <3>2
  <2>3. QED  BY <2>1, <2>2

\* HandleCallback: a linking flow is a claim of the user whose cookie it is.
LEMMA CallbackStep ==
    ASSUME FedInv, NEW c \in Clients, NEW k \in flow, NEW s \in Subjects, NEW v \in BOOLEAN,
           HandleCallback(c, k, s, v)
    PROVE  FedInv'
<1>1. /\ UNCHANGED <<user, now, link, group, token, doomed, late, session, provider, identity, lateLink>>
      /\ req[c] = Idle /\ flow' = flow \ {k}
  BY DEF HandleCallback, dbVars, env, hist
<1>2. RowsMove /\ NoDeletion
  BY <1>1, SameUsers
<1>3. group' \in [Groups -> GroupRow] /\ provider' \in [Providers -> ProviderRow]
      /\ link' \in [Links -> LinkRow] /\ LinkInv'
  BY <1>1, <1>2, TablesStay
<1>4. flow' \subseteq FlowRow /\ FlowInv'
  BY <1>1 DEF FedInv, TypeOK, OwnerInv, FlowInv, Known
<1>5. CASE UNCHANGED <<reqVars, fed, claim>>
  BY <1>1, <1>3, <1>4, <1>5, StillStepInv DEF reqVars
<1>6. ASSUME NEW f,
             f = [NoFed EXCEPT !.p = k.p, !.s = s, !.u = k.to, !.dflt = provider[k.p].dflt,
                               !.pc = IF k.to # None THEN "link" ELSE "lookup",
                               !.off = k.to # None,
                               !.on = provider[k.p].auto /\ (provider[k.p].verify => v)],
             req' = [req EXCEPT ![c] = Busy], fed' = [fed EXCEPT ![c] = f],
             claim' = IF k.to # None THEN claim \cup {<<s, k.to>>} ELSE claim
      PROVE  FedInv'
  <2>1. k \in FlowRow /\ (k.to # None => Known(k.to))
    BY DEF FedInv, TypeOK, OwnerInv, FlowInv
  <2>2. PICK h : h = [NoFed EXCEPT !.p = k.p, !.s = s, !.u = k.to, !.dflt = provider[k.p].dflt,
                                   !.pc = IF k.to # None THEN "link" ELSE "lookup"]
    OBVIOUS
  <2>3. h \in FedRequest /\ h.s = s /\ h.u = k.to /\ h.pc = IF k.to # None THEN "link" ELSE "lookup"
    BY <2>1, <2>2, NoFedType DEF FedRequest, FedPlaces, FlowRow, FedInv, TypeOK, ProviderRow
  <2>4. PICK off \in BOOLEAN, on \in BOOLEAN :
            off = (k.to # None) /\ on = (provider[k.p].auto /\ (provider[k.p].verify => v))
    OBVIOUS
  <2>5. PICK g : g = [h EXCEPT !.off = off]
    OBVIOUS
  <2>6. g \in FedRequest /\ g.s = s /\ g.u = k.to /\ g.pc = h.pc
    BY <2>3, <2>5 DEF FedRequest
  <2>7. f = [g EXCEPT !.on = on]
    BY <1>6, <2>2, <2>4, <2>5
  <2>8. f \in FedRequest /\ f.s = s /\ f.u = k.to /\ f.pc = h.pc
    BY <2>6, <2>7 DEF FedRequest
  <2>9. claim \subseteq claim'
    BY <1>6
  <2>10. Bound(f)
    BY <1>1, <1>6, <2>1, <2>3, <2>8 DEF Bound, Resolving, FedOfUser, Known
  <2>11. ClientStep(c, Busy, f)
    BY <1>1, <1>2, <1>6, <2>8, <2>9, <2>10, FedBegins
  <2>12. QED
    BY <1>1, <1>3, <1>4, <2>11, ClientStepInv DEF TablesMove
<1>7. QED
  BY <1>5, <1>6 DEF HandleCallback

\* A request that begins with <<kind, pc>> and holds a user that is known.
LEMMA FedBeginStep ==
    ASSUME FedInv, NEW c \in Clients, NEW f \in FedRequest, NEW kind, FedBegin(c, kind, f),
           f.pc \in {"unlink", "scimWrite"}, Known(f.u), f.pc = "scimWrite" => (f.was => f.off),
           UNCHANGED <<dbVars, env, provider, identity, scim, flow, claim, lateLink>>
    PROVE  FedInv'
<1>1. /\ UNCHANGED <<user, now, link, group, token, doomed, late, session, provider, flow, identity, lateLink>>
      /\ req[c] = Idle /\ req' = [req EXCEPT ![c] = Busy] /\ fed' = [fed EXCEPT ![c] = f]
      /\ claim \subseteq claim'
  BY DEF FedBegin, Begin, dbVars, env, hist
<1>2. RowsMove /\ NoDeletion
  BY <1>1, SameUsers
<1>3. Bound(f)
  BY <1>1 DEF Bound, Resolving, Known
<1>4. QED
  BY <1>1, <1>2, <1>3, FedBegins, FedQuiet

\* OIDCUnlinkIdentity.
LEMMA UnlinkBeginStep ==
    ASSUME FedInv, NEW c \in Clients, NEW i \in identity, OIDCUnlinkIdentity(c, i)
    PROVE  FedInv'
<1>1. PICK f : f = [NoFed EXCEPT !.pc = "unlink", !.p = i.p, !.s = i.s, !.u = i.u]
  OBVIOUS
<1>2. i \in IdentityRow /\ Known(i.u)
  BY DEF FedInv, TypeOK, OwnerInv
<1>3. f \in FedRequest /\ f.pc = "unlink" /\ f.u = i.u
  BY <1>1, <1>2, NoFedType DEF FedRequest, FedPlaces, IdentityRow
<1>4. QED
  BY <1>1, <1>2, <1>3, FedBeginStep DEF OIDCUnlinkIdentity

\* ScimPatch and ScimReplace: what makes a request a deactivation in the eyes of the
\* history also makes it revoke.
LEMMA ScimUpdateStep ==
    ASSUME FedInv, NEW c \in Clients, NEW u \in Users, NEW e \in Emails, NEW s \in Subjects \cup {None},
           \/ \E on \in BOOLEAN : ScimPatch(c, u, e, s, on)
           \/ \E on \in BOOLEAN \cup {None} : ScimReplace(c, u, e, s, on)
    PROVE  FedInv'
<1>1. ASSUME NEW on \in BOOLEAN \cup {None}, NEW off \in BOOLEAN, ScimUpdate(c, u, e, s, on, off), Known(u),
             on = FALSE /\ GetByID(u) /\ user[u].active => off
      PROVE  FedInv'
  <2>1. PICK h : h = [NoFed EXCEPT !.pc = "scimWrite", !.u = u, !.e = e, !.s = s]
    OBVIOUS
  <2>2. h \in FedRequest /\ h.pc = "scimWrite" /\ h.u = u
    BY <2>1, NoFedType DEF FedRequest, FedPlaces
  <2>3. PICK was \in BOOLEAN : was = (on = FALSE /\ GetByID(u) /\ user[u].active)
    OBVIOUS
  <2>4. PICK g : g = [h EXCEPT !.on = on]
    OBVIOUS
  <2>5. g \in FedRequest /\ g.pc = "scimWrite" /\ g.u = u
    BY <2>2, <2>4 DEF FedRequest
  <2>6. PICK j : j = [g EXCEPT !.off = off]
    OBVIOUS
  <2>7. j \in FedRequest /\ j.pc = "scimWrite" /\ j.u = u /\ j.off = off
    BY <2>5, <2>6 DEF FedRequest
  <2>8. PICK f : f = [j EXCEPT !.was = was]
    OBVIOUS
  <2>9. f \in FedRequest /\ f.pc = "scimWrite" /\ f.u = u /\ f.off = off /\ f.was = was
    BY <2>7, <2>8 DEF FedRequest
  <2>10. f = [NoFed EXCEPT !.pc = "scimWrite", !.u = u, !.e = e, !.s = s, !.on = on, !.off = off,
                           !.was = on = FALSE /\ GetByID(u) /\ user[u].active]
    BY <2>1, <2>3, <2>4, <2>6, <2>8
  <2>11. f.was => f.off
    BY <1>1, <2>3, <2>9
  <2>12. QED
    BY <1>1, <2>9, <2>10, <2>11, FedBeginStep DEF ScimUpdate
<1>2. ASSUME NEW on \in BOOLEAN, ScimPatch(c, u, e, s, on) PROVE FedInv'
  <2>1. PICK off \in BOOLEAN : off = (user[u].active /\ ~on)
    OBVIOUS
  <2>2. ScimUpdate(c, u, e, s, on, off) /\ Known(u)
    BY <1>2, <2>1 DEF ScimPatch, GetByID, Known, In
  <2>3. QED
    BY <1>1, <2>1, <2>2
<1>3. ASSUME NEW on \in BOOLEAN \cup {None}, ScimReplace(c, u, e, s, on) PROVE FedInv'
  <2>1. PICK off \in BOOLEAN : off = (on = FALSE /\ GetByID(u) /\ user[u].active)
    OBVIOUS
  <2>2. ScimUpdate(c, u, e, s, on, off) /\ Known(u)
    BY <1>3, <2>1 DEF ScimReplace, Known, In
  <2>3. QED
    BY <1>1, <2>1, <2>2
<1>4. QED
  BY <1>2, <1>3

\* Administrators write providers and the SCIM token; cookies are handed out.
LEMMA ProviderStep ==
    ASSUME FedInv, ProviderOps \/ AdminCreateScimToken \/ AdminRevokeScimToken \/ SetScimEnabled
    PROVE  FedInv'
<1>1. ASSUME UNCHANGED <<dbVars, env, req, fed, claim, lateLink>>,
             provider' \in [Providers -> ProviderRow], flow' \subseteq FlowRow, FlowInv',
             identity' \subseteq identity
      PROVE  FedInv'
  BY <1>1, StillStepInv DEF dbVars, env, hist, FedInv, TypeOK
<1>2. ASSUME UNCHANGED <<user, flow>> PROVE flow' \subseteq FlowRow /\ FlowInv'
  BY <1>2 DEF FedInv, TypeOK, OwnerInv, FlowInv, Known
<1>3. ASSUME NEW p \in Providers, NEW row \in ProviderRow, WriteProvider(p, row) PROVE FedInv'
  <2>1. provider' \in [Providers -> ProviderRow]
    BY <1>3 DEF WriteProvider, FedInv, TypeOK
  <2>2. QED
    BY <1>1, <1>2, <1>3, <2>1 DEF WriteProvider, AdminAction, dbVars
<1>4. ASSUME NEW p \in Providers PROVE provider[p] \in ProviderRow
  BY DEF FedInv, TypeOK
<1>5. ASSUME NEW p \in Providers, AdminCreateOIDCProvider(p) PROVE FedInv'
  <2>1. [present |-> TRUE, enabled |-> TRUE, auto |-> FALSE, verify |-> TRUE, dflt |-> None] \in ProviderRow
    BY DEF ProviderRow
  <2>2. QED
    BY <1>3, <1>5, <2>1 DEF AdminCreateOIDCProvider
<1>6. ASSUME NEW p \in Providers, NEW b \in BOOLEAN,
             AdminUpdateOIDCProvider(p, b) \/ AdminSetOIDCRequireEmailVerified(p, b)
      PROVE  FedInv'
  <2>1. [provider[p] EXCEPT !.enabled = b] \in ProviderRow
    BY <1>4 DEF ProviderRow
  <2>2. [provider[p] EXCEPT !.verify = b] \in ProviderRow
    BY <1>4 DEF ProviderRow
  <2>3. QED
    BY <1>3, <1>6, <2>1, <2>2 DEF AdminUpdateOIDCProvider, AdminSetOIDCRequireEmailVerified
<1>7. ASSUME NEW p \in Providers, NEW b \in BOOLEAN, NEW g \in Groups \cup {None},
             AdminSetOIDCAutoProvision(p, b, g)
      PROVE  FedInv'
  <2>1. PICK q : q = [provider[p] EXCEPT !.auto = b]
    OBVIOUS
  <2>2. q \in ProviderRow
    BY <1>4, <2>1 DEF ProviderRow
  <2>3. [q EXCEPT !.dflt = g] \in ProviderRow
    BY <2>2 DEF ProviderRow
  <2>4. [q EXCEPT !.dflt = g] = [provider[p] EXCEPT !.auto = b, !.dflt = g]
    BY <2>1
  <2>5. QED
    BY <1>3, <1>7, <2>3, <2>4 DEF AdminSetOIDCAutoProvision
<1>8. ASSUME NEW p \in Providers, AdminDeleteOIDCProvider(p) PROVE FedInv'
  <2>1. NoProvider \in ProviderRow
    BY DEF NoProvider, ProviderRow
  <2>2. provider' \in [Providers -> ProviderRow] /\ identity' \subseteq identity
    BY <1>8, <2>1 DEF AdminDeleteOIDCProvider, DeleteProvider, FedInv, TypeOK
  <2>3. QED
    BY <1>1, <1>2, <1>8, <2>2 DEF AdminDeleteOIDCProvider, AdminAction, dbVars
<1>9. ASSUME NEW p \in Providers, NEW to \in Users \cup {None}, to # None => Known(to),
             UNCHANGED req, BuildAuthorizeURL(p, to)
      PROVE  FedInv'
  <2>1. PICK k : k = [p |-> p, to |-> to]
    OBVIOUS
  <2>2. k \in FlowRow /\ k.to = to /\ flow' = flow \cup {k} /\ UNCHANGED user
    BY <1>9, <2>1 DEF FlowRow, BuildAuthorizeURL, dbVars
  <2>3. flow' \subseteq FlowRow /\ FlowInv'
    BY <1>9, <2>2 DEF FedInv, TypeOK, OwnerInv, FlowInv, Known
  <2>4. provider' \in [Providers -> ProviderRow] /\ identity' \subseteq identity
    BY <1>9 DEF BuildAuthorizeURL, FedInv, TypeOK
  <2>5. QED
    BY <1>1, <1>9, <2>3, <2>4 DEF BuildAuthorizeURL
<1>10. ASSUME NEW p \in Providers, OIDCAuthorize(p) \/ \E u \in Users : OIDCLinkStart(p, u) PROVE FedInv'
  BY <1>9, <1>10, AuthenticatedKnown DEF OIDCAuthorize, OIDCLinkStart
<1>11. CASE AdminCreateScimToken \/ AdminRevokeScimToken \/ SetScimEnabled
  <2>1. UNCHANGED <<dbVars, env, req, fed, claim, lateLink, provider, identity, flow>>
    BY <1>11 DEF AdminCreateScimToken, AdminRevokeScimToken, SetScimEnabled, AdminAction
  <2>2. provider' \in [Providers -> ProviderRow]
    BY <2>1 DEF FedInv, TypeOK
  <2>3. QED
    BY <1>1, <1>2, <2>1, <2>2 DEF dbVars
<1>12. QED
  BY <1>5, <1>6, <1>7, <1>8, <1>10, <1>11 DEF ProviderOps

\* ScimCreateUser.
LEMMA ScimCreateStep ==
    ASSUME FedInv, NEW u \in Users, NEW e \in Emails, NEW s \in Subjects \cup {None}, ScimCreateUser(u, e, s)
    PROVE  FedInv'
<1>1. /\ UNCHANGED <<now, req, fed, token, doomed, late, session, link, group, provider, flow, identity, lateLink>>
      /\ claim \subseteq claim' /\ InsertUser(u, e, s, FALSE, 0)
  BY DEF ScimCreateUser, notUser, env, hist
<1>2. RowsMove /\ NoDeletion
  BY <1>1, InsertMoves
<1>3. QED
  BY <1>1, <1>2, RowsOnlyInv

-----------------------------------------------------------------------------
(* The invariant.                                                           *)

\* It holds in the empty database.
LEMMA FedInitInv == Init => FedInv
<1> SUFFICES ASSUME Init PROVE FedInv
  OBVIOUS
<1>1. NoUser \in UserRow /\ NoUser.st = "none" /\ NoUser.pwv = 0 /\ NoUser.pwAt = 0
  BY DEF NoUser, UserRow
<1>2. NoGroup \in GroupRow
  BY DEF NoGroup, GroupRow, Levels
<1>3. NoToken \in TokenRow /\ NoToken.st = "none"
  BY DEF NoToken, TokenRow
<1>4. NoLink \in LinkRow /\ NoLink.st = "none"
  BY DEF NoLink, LinkRow, Kinds
<1>5. NoProvider \in ProviderRow
  BY DEF NoProvider, ProviderRow
<1>6. TypeOK
  BY <1>1, <1>2, <1>3, <1>4, <1>5, RequestTypes, NoFedType DEF Init, AccInit, TypeOK
<1>7. RowInv
  BY <1>1 DEF Init, AccInit, RowInv
<1>8. OwnerInv
  BY <1>3, <1>4 DEF Init, AccInit, OwnerInv, LinkInv, TokenInv, FlowInv
<1>9. SessionInv /\ DoomInv /\ IdentityInv
  BY DEF Init, AccInit, SessionInv, DoomInv, IdentityInv, NeverLinkedByEmail, DeletionDropsIdentities
<1>10. LateInv
  BY <1>3 DEF Init, AccInit, LateInv
<1>11. ClientInv
  BY RequestTypes, NoFedType DEF Init, AccInit, ClientInv, Holds, OfUser, FedOfUser, Resolving, Idle
<1>12. QED
  BY <1>6, <1>7, <1>8, <1>9, <1>10, <1>11 DEF FedInv

\* It holds on an instance that is set up.
LEMMA SetUpInv == SetUp => FedInv
<1> SUFFICES ASSUME SetUp PROVE FedInv
  OBVIOUS
<1>1. PICK a \in Users, g \in Groups :
        /\ user = [u \in Users |-> IF u = a THEN [NoUser EXCEPT !.st = "live", !.active = TRUE,
                                                  !.email = AdminEmail, !.pwv = 1] ELSE NoUser]
        /\ group = [h \in Groups |-> IF h = g THEN [present |-> TRUE, active |-> TRUE, level |-> "read"]
                                     ELSE NoGroup]
        /\ token = [t \in Tokens |-> NoToken] /\ link = [x \in Links |-> NoLink]
        /\ session = {[owner |-> a, iat |-> 0, ver |-> 1]}
        /\ req = [c \in Clients |-> Idle] /\ now = 0 /\ doomed = {}
        /\ provider = [p \in Providers |-> [present |-> TRUE, enabled |-> TRUE, auto |-> TRUE,
                                            verify |-> TRUE, dflt |-> g]]
        /\ identity = {} /\ flow = {} /\ fed = [c \in Clients |-> NoFed] /\ claim = {}
  BY DEF SetUp
<1> DEFINE admin == [NoUser EXCEPT !.st = "live", !.active = TRUE, !.email = AdminEmail, !.pwv = 1]
<1>2. NoUser \in UserRow /\ NoUser.st = "none" /\ NoUser.pwv = 0 /\ NoUser.pwAt = 0
  BY DEF NoUser, UserRow
<1>3. admin \in UserRow /\ admin.st = "live" /\ admin.pwv = 1 /\ admin.pwAt = 0
  BY AccountAssumption DEF NoUser, UserRow
<1>4. /\ NoToken \in TokenRow /\ NoToken.st = "none" /\ NoLink \in LinkRow /\ NoLink.st = "none"
      /\ NoGroup \in GroupRow
  BY DEF NoToken, TokenRow, NoLink, LinkRow, Kinds, NoGroup, GroupRow, Levels
<1> HIDE DEF admin
<1>5. user = [u \in Users |-> IF u = a THEN admin ELSE NoUser]
  BY <1>1 DEF admin
<1>6. TypeOK
  <2>1. user \in [Users -> UserRow]
    BY <1>2, <1>3, <1>5
  <2>2. group \in [Groups -> GroupRow]
    BY <1>1, <1>4 DEF GroupRow, Levels
  <2>3. token \in [Tokens -> TokenRow] /\ link \in [Links -> LinkRow]
    BY <1>1, <1>4
  <2>4. session \subseteq SessionRow /\ now \in Nat
    BY <1>1 DEF SessionRow
  <2>5. provider \in [Providers -> ProviderRow]
    BY <1>1 DEF ProviderRow
  <2>6. QED
    BY <1>1, <2>1, <2>2, <2>3, <2>4, <2>5, RequestTypes, NoFedType DEF TypeOK
<1>7. RowInv
  BY <1>1, <1>2, <1>3, <1>5 DEF RowInv
<1>8. OwnerInv
  BY <1>1, <1>4 DEF OwnerInv, LinkInv, TokenInv, FlowInv
<1>9. SessionInv
  <2>1. user[a] = admin
    BY <1>5
  <2>2. \A s \in session : s.owner = a /\ s.iat = 0 /\ s.ver = 1
    BY <1>1
  <2>3. QED
    BY <1>3, <2>1, <2>2 DEF SessionInv, Known, In
<1>10. DoomInv /\ IdentityInv
  BY <1>1 DEF DoomInv, IdentityInv, NeverLinkedByEmail, DeletionDropsIdentities
<1>11. LateInv
  BY <1>1, <1>4 DEF LateInv
<1>12. ClientInv
  BY <1>1, RequestTypes, NoFedType DEF ClientInv, Holds, OfUser, FedOfUser, Resolving, Idle
<1>13. QED
  BY <1>6, <1>7, <1>8, <1>9, <1>10, <1>11, <1>12 DEF FedInv

\* Every step keeps it.
LEMMA FedNextInv == FedInv /\ [Next]_vars => FedInv'
<1> SUFFICES ASSUME FedInv, [Next]_vars PROVE FedInv'
  OBVIOUS
<1>1. CASE AccStep /\ UNCHANGED fedVars
  BY <1>1, AccountsKeep
<1>2. ASSUME NEW c \in Clients, SoftDelete(c) /\ DropIdentities(req[c].u),
             UNCHANGED <<provider, scim, flow, fed, claim, lateLink>>
      PROVE  FedInv'
  BY <1>2, SoftDeleteStep
<1>3. ASSUME NEW c \in Clients, NEW keep, GroupDelete(c, keep), UNCHANGED fedVars PROVE FedInv'
  BY <1>3, ContinueStep
<1>4. ASSUME NEW c \in Clients, FedStep(c) PROVE FedInv'
  <2>1. ASSUME NEW f \in flow, NEW s \in Subjects, NEW v \in BOOLEAN, HandleCallback(c, f, s, v) PROVE FedInv'
    BY <2>1, CallbackStep
  <2>2. CASE \/ Lookup(c) \/ Correlate(c) \/ Collide(c) \/ Create(c) \/ LinkIdentity(c)
             \/ InsertIdentity(c) \/ AddDefault(c) \/ Unlink(c) \/ UpdateFromSCIM(c)
    BY <2>2, ResolveStep, CreateStep, LinkStep, InsertIdentityStep, AddDefaultStep, UnlinkStep, ScimWriteStep
  <2>3. ASSUME NEW i \in identity, OIDCUnlinkIdentity(c, i) PROVE FedInv'
    BY <2>3, UnlinkBeginStep
  <2>4. ASSUME NEW u \in Users, ScimDeleteUser(c, u) PROVE FedInv'
    BY <2>4, DeleteUserStep DEF ScimDeleteUser
  <2>5. ASSUME NEW u \in Users, NEW e \in Emails, NEW s \in Subjects \cup {None},
               \/ \E on \in BOOLEAN : ScimPatch(c, u, e, s, on)
               \/ \E on \in BOOLEAN \cup {None} : ScimReplace(c, u, e, s, on)
        PROVE  FedInv'
    BY <2>5, ScimUpdateStep
  <2>6. ASSUME NEW g \in Groups, ScimReplaceGroup(c, g) \/ ScimDeleteGroup(c, g) PROVE FedInv'
    BY <2>6, GroupStep DEF ScimReplaceGroup, ScimDeleteGroup
  <2>7. QED
    BY <1>4, <2>1, <2>2, <2>3, <2>4, <2>5, <2>6 DEF FedStep
<1>5. CASE ProviderOps \/ AdminCreateScimToken \/ AdminRevokeScimToken \/ SetScimEnabled
  BY <1>5, ProviderStep
<1>6. ASSUME NEW u \in Users, NEW e \in Emails, NEW s \in Subjects \cup {None}, ScimCreateUser(u, e, s)
      PROVE  FedInv'
  BY <1>6, ScimCreateStep
<1>7. ASSUME NEW g \in Groups, NEW M \in SUBSET Users, ScimCreateGroup(g, M) \/ ReplaceMembers(g, M)
      PROVE  FedInv'
  BY <1>7, GroupStep DEF ScimCreateGroup, ReplaceMembers
<1>8. CASE UNCHANGED vars
  <2>1. UNCHANGED <<user, now, req, fed, token, doomed, late, session, link, group, provider, flow,
                    identity, claim, lateLink>>
    BY <1>8 DEF vars, accVars, dbVars, fedVars
  <2>2. QED
    BY <2>1, SameUsers, RowsOnlyInv
<1>9. QED
  BY <1>1, <1>2, <1>3, <1>4, <1>5, <1>6, <1>7, <1>8 DEF Next

\* The inductive invariant holds in every behaviour that starts with an empty database.
THEOREM FederationInvariant == Spec => []FedInv
<1>1. QED
  BY FedInitInv, SetUpInv, FedNextInv, PTL DEF Spec

\* Two accounts are never joined by their address: an identity belongs to a user who
\* asked for it or was provisioned with its subject (resolveOrProvisionUser,
\* LinkIdentity), whatever other requests do between the statements of a callback.
THEOREM IdentitiesAreClaimed == Spec => []NeverLinkedByEmail
<1>1. FedInv => NeverLinkedByEmail
  BY DEF FedInv, IdentityInv
<1>2. QED
  BY <1>1, FederationInvariant, PTL

\* A deleted user keeps no identity but one that a callback under way inserted after
\* the deletion (UserService.SoftDelete).
THEOREM DeletionsDropIdentities == Spec => []DeletionDropsIdentities
<1>1. FedInv => DeletionDropsIdentities
  BY DEF FedInv, IdentityInv
<1>2. QED
  BY <1>1, FederationInvariant, PTL

\* A sign-in with the current password yields a session that Authenticate accepts,
\* however sign-ins, password changes and resets interleave (Login, UpdatePassword).
THEOREM LoginsHold == Spec => []LoginHolds
<1>1. FedInv => LoginHolds
  BY DEF FedInv, SessionInv, LoginHolds, SessionAccepted
<1>2. QED
  BY <1>1, FederationInvariant, PTL

\* A deactivation and a deletion leave no token alive that existed when they were
\* written, unless the revocation failed (AdminUpdateUser, AdminDeleteUser, SCIM).
THEOREM TokensAreRevoked == Spec => []AutoRevocation
<1>1. FedInv => AutoRevocation
  BY DEF FedInv, DoomInv, LateInv, Deleting, AutoRevocation, ValidateSecret
<1>2. QED
  BY <1>1, FederationInvariant, PTL

-----------------------------------------------------------------------------
(* The bootstrap administrator.                                             *)

\* A step of a request that arrives, of one that is under way, or of the fleet before
\* it serves any: boots, sign-ins and the clock.
Counted  == ops' = [ops EXCEPT !.n = @ + 1] /\ UNCHANGED crashes
Underway ==
    /\ UNCHANGED <<ops, crashes>>
    /\ flow # {} \/ \E c \in Clients : req[c].pc \notin {"idle", "issue"} \/ fed[c].pc # "idle"
Seeding  ==
    /\ UNCHANGED fedVars
    /\ \/ \E r \in Replicas : BootStep(r)
       \/ \E c \in Clients : GenerateToken(c) \/ \E u \in Users : Login(c, u)
       \/ Tick

\* Every step is one of the three.
LEMMA StepsOfSeeding == Next => Counted \/ Underway \/ Seeding
<1> SUFFICES ASSUME Next PROVE Counted \/ Underway \/ Seeding
  OBVIOUS
<1> USE DEF Counted, Underway
<1>1. ASSUME NEW c \in Clients,
             \/ SetDirect(c) \/ WriteBack(c) \/ StorePassword(c) \/ VerifyLink(c)
             \/ MarkUsed(c) \/ VerifyEmail(c) \/ SetActive(c) \/ RevokeAll(c) \/ GroupWrite(c)
             \/ SoftDelete(c) \/ \E keep : GroupDelete(c, keep)
             \/ \E x \in Links : InsertLink(c, x)
             \/ \E t \in Tokens : InsertToken(c, t)
      PROVE  Underway
  <2>1. UNCHANGED <<ops, crashes>>
    BY <1>1 DEF SetDirect, WriteBack, StorePassword, VerifyLink, MarkUsed, VerifyEmail, SetActive, RevokeAll,
       GroupWrite, SoftDelete, GroupDelete, InsertLink, InsertToken, Done, Move, env, hist, bounds
  <2>2. req[c].pc \notin {"idle", "issue"}
    BY <1>1 DEF SetDirect, WriteBack, StorePassword, VerifyLink, MarkUsed, VerifyEmail, SetActive, RevokeAll,
       GroupWrite, SoftDelete, GroupDelete, InsertLink, InsertToken, At
  <2>3. QED  BY <2>1, <2>2
<1>2. ASSUME NEW c \in Clients, NEW u \in Users,
             \/ ChangePassword(c, u) \/ ForgotPassword(c, u) \/ ResendVerification(c, u)
             \/ UpdateProfile(c, u) \/ CreateToken(c, u) \/ \E e \in Emails : Register(c, u, e)
             \/ Admin(c, u) \/ ScimDeleteUser(c, u)
      PROVE  Counted
  BY <1>2 DEF ChangePassword, ForgotPassword, ResendVerification, UpdateProfile, CreateToken, Register, Admin,
     AdminUpdateUser, AdminDeleteUser, AdminSetPermissions, AdminCreateUser, AdminCreateServiceAccount,
     ScimDeleteUser, AsAdmin, Begin, Arrives, env, hist, bounds
<1>3. ASSUME NEW c \in Clients, NEW g \in Groups, GroupOps(c, g) \/ ScimReplaceGroup(c, g) \/ ScimDeleteGroup(c, g)
      PROVE  Counted
  BY <1>3 DEF GroupOps, AdminCreateGroup, AdminUpdateGroup, AdminDeleteGroup, AdminAddGroupMember,
     AdminRemoveGroupMember, ScimReplaceGroup, ScimDeleteGroup, AsAdmin, Begin, Arrives, env, hist, bounds
<1>4. ASSUME \/ \E c \in Clients, x \in Links : ResetPassword(c, x)
             \/ \E t \in Tokens : RevokeToken(t)
             \/ \E S \in SUBSET Tokens : AdminBulkRevokeTokens(S)
      PROVE  Counted
  BY <1>4 DEF ResetPassword, RevokeToken, AdminBulkRevokeTokens, Begin, Arrives, env, hist, bounds
<1>5. CASE AccStep /\ UNCHANGED fedVars
  BY <1>1, <1>2, <1>3, <1>4, <1>5 DEF AccStep, Continue, SignIn, Seeding
<1>6. ASSUME NEW c \in Clients, FedStep(c) PROVE Counted \/ Underway
  <2>1. ASSUME NEW f \in flow, NEW s \in Subjects, NEW v \in BOOLEAN, HandleCallback(c, f, s, v) PROVE Underway
    BY <2>1 DEF HandleCallback, reqVars, env, hist, bounds
  <2>2. CASE \/ Lookup(c) \/ Correlate(c) \/ Collide(c) \/ Create(c) \/ LinkIdentity(c)
             \/ InsertIdentity(c) \/ AddDefault(c) \/ Unlink(c) \/ UpdateFromSCIM(c)
    <3>1. fed[c].pc # "idle"
      BY <2>2 DEF Lookup, Correlate, Collide, Create, LinkIdentity, InsertIdentity, AddDefault, Unlink,
         UpdateFromSCIM, FedAt
    <3>2. UNCHANGED crashes
      BY <2>2 DEF Lookup, Correlate, Collide, Create, LinkIdentity, InsertIdentity, AddDefault, Unlink,
         UpdateFromSCIM, env, hist, bounds
    <3>3. FedEnd(c) \/ (\E f : FedGo(c, f)) \/ (\E r : FedHand(c, r)) => UNCHANGED ops
      BY DEF FedEnd, FedGo, FedHand, Done, reqVars
    <3>4. ASSUME AfterLink(c) PROVE UNCHANGED ops
      BY <3>3, <3>4 DEF AfterLink
    <3>5. CASE Lookup(c) \/ Correlate(c) \/ Collide(c) \/ Create(c)
      BY <3>1, <3>2, <3>3, <3>5 DEF Lookup, Correlate, Collide, Create
    <3>6. CASE LinkIdentity(c) \/ InsertIdentity(c)
      BY <3>1, <3>2, <3>3, <3>4, <3>6 DEF LinkIdentity, InsertIdentity
    <3>7. CASE AddDefault(c) \/ Unlink(c) \/ UpdateFromSCIM(c)
      BY <3>1, <3>2, <3>3, <3>7 DEF AddDefault, Unlink, UpdateFromSCIM
    <3>8. QED  BY <2>2, <3>5, <3>6, <3>7
  <2>3. ASSUME NEW i \in identity, OIDCUnlinkIdentity(c, i) PROVE Counted
    BY <2>3 DEF OIDCUnlinkIdentity, FedBegin, Begin, Arrives, env, hist, bounds
  <2>4. ASSUME NEW u \in Users, NEW e \in Emails, NEW s \in Subjects \cup {None},
               \/ \E on \in BOOLEAN : ScimPatch(c, u, e, s, on)
               \/ \E on \in BOOLEAN \cup {None} : ScimReplace(c, u, e, s, on)
        PROVE  Counted
    BY <2>4 DEF ScimPatch, ScimReplace, ScimUpdate, FedBegin, Begin, Arrives, env, hist, bounds
  <2>5. QED
    BY <1>2, <1>3, <1>6, <2>1, <2>2, <2>3, <2>4 DEF FedStep
<1>7. CASE ProviderOps \/ AdminCreateScimToken \/ AdminRevokeScimToken \/ SetScimEnabled
  BY <1>7 DEF ProviderOps, AdminCreateScimToken, AdminRevokeScimToken, SetScimEnabled, AdminAction, Arrives,
     AdminCreateOIDCProvider, AdminDeleteOIDCProvider, AdminUpdateOIDCProvider, AdminSetOIDCRequireEmailVerified,
     AdminSetOIDCAutoProvision, WriteProvider, OIDCAuthorize, OIDCLinkStart, BuildAuthorizeURL, env, hist, bounds
<1>8. ASSUME NEW u \in Users, NEW e \in Emails, NEW s \in Subjects \cup {None}, ScimCreateUser(u, e, s)
      PROVE  Counted
  BY <1>8 DEF ScimCreateUser, Arrives, env, hist, bounds
<1>9. ASSUME NEW g \in Groups, NEW M \in SUBSET Users, ScimCreateGroup(g, M) \/ ReplaceMembers(g, M)
      PROVE  Counted
  BY <1>9 DEF ScimCreateGroup, ReplaceMembers, Arrives, env, hist, bounds
<1>10. QED
  BY <1>1, <1>5, <1>6, <1>7, <1>8, <1>9 DEF Next

\* With one row at most, CountAdmins counts whether that one is the administrator.
LEMMA CountOfOne ==
    ASSUME \A u, v \in Users : user[u].st # "none" /\ user[v].st # "none" => u = v
    PROVE  /\ CountAdmins > 0 => Seeded
           /\ Seeded => CountAdmins = 1
<1> DEFINE A == {u \in Users : Administrator(u)}
<1>1. CountAdmins = Cardinality(A)
  BY DEF CountAdmins, Administrator
<1>2. ASSUME ~Seeded PROVE ~(CountAdmins > 0)
  <2>1. A = {}
    BY <1>2 DEF Seeded
  <2>2. QED
    BY <1>1, <2>1, FS_EmptySet
<1>3. ASSUME Seeded PROVE CountAdmins = 1
  <2>1. PICK u \in Users : Administrator(u)
    BY <1>3 DEF Seeded
  <2>2. A = {u}
    BY <2>1 DEF Administrator
  <2>3. QED
    BY <1>1, <2>2, FS_Singleton
<1>4. QED
  BY <1>2, <1>3

\* While only row u exists and group permissions stay, an administrator remains one.
LEMMA SeededStays ==
    ASSUME Seeded, UNCHANGED <<user, group, members>>,
           \A u \in Users : direct[u] = "admin" => direct'[u] = "admin"
    PROVE  Seeded'
  BY DEF Seeded, Administrator

\* The steps before the first request keep SeedInv.
LEMMA SeedingStep ==
    ASSUME FedInv, SeedInv, Seeding
    PROVE  SeedInv'
<1>1. UNCHANGED <<ops, flow, fed>>
  BY DEF Seeding, BootStep, BootCount, BootCreate, BootGrant, BootCheck, BootCrash, GenerateToken, Login, Tick,
     Done, reqVars, fedVars
<1>2. crashes' \in Nat /\ (crashes' = 0 => crashes = 0 /\ UNCHANGED crashes)
  <2>1. crashes \in Nat
    BY DEF SeedInv
  <2>2. crashes' = crashes \/ crashes' = crashes + 1
    BY DEF Seeding, BootStep, BootCount, BootCreate, BootGrant, BootCheck, BootCrash, GenerateToken,
       Login, Tick, hist, bounds, env
  <2>3. QED
    BY <2>1, <2>2
<1> SUFFICES ASSUME ops.n = 0, crashes = 0, UNCHANGED crashes PROVE SeedInv'
  BY <1>1, <1>2 DEF SeedInv
<1>3. /\ boot \in [Replicas -> BootPlaces] /\ DOMAIN direct = Users
      /\ flow = {} /\ \A c \in Clients : fed[c].pc = "idle" /\ req[c].pc \in {"idle", "issue"}
      /\ \A u, v \in Users : user[u].st # "none" /\ user[v].st # "none" => u = v
      /\ \A u \in Users : user[u].st # "none" =>
              user[u].st = "live" /\ user[u].active /\ user[u].email = AdminEmail
      /\ (\E u \in Users : user[u].st # "none") => Seeded \/ \E r \in Replicas : boot[r] = "grant"
      /\ \A r \in Replicas : boot[r] = "up" => Seeded
  BY DEF SeedInv
<1>4. CountAdmins > 0 => Seeded
  BY <1>3, CountOfOne
<1>5. ASSUME NEW r \in Replicas, BootStep(r) PROVE SeedInv'
  <2>1. UNCHANGED req
    BY <1>5 DEF BootStep, BootCount, BootCreate, BootGrant, BootCheck, BootCrash, reqVars
  <2>2. CASE BootCount(r) \/ BootCheck(r)
    <3>1. UNCHANGED <<user, direct, group, members>>
      BY <2>2 DEF BootCount, BootCheck, dbVars
    <3>2. PICK b \in BootPlaces : boot' = [boot EXCEPT ![r] = b] /\ (b = "up" => Seeded)
      <4>1. CASE CountAdmins > 0
        <5>1. boot' = [boot EXCEPT ![r] = "check"] \/ boot' = [boot EXCEPT ![r] = "up"]
          BY <2>2, <4>1 DEF BootCount, BootCheck
        <5>2. QED  BY <1>4, <4>1, <5>1 DEF BootPlaces
      <4>2. CASE ~(CountAdmins > 0)
        <5>1. boot' = [boot EXCEPT ![r] = "create"] \/ boot' = [boot EXCEPT ![r] = "count"]
          BY <2>2, <4>2 DEF BootCount, BootCheck
        <5>2. QED  BY <5>1 DEF BootPlaces
      <4>3. QED
        BY <4>1, <4>2
    <3>3. \A q \in Replicas : boot'[q] = IF q = r THEN b ELSE boot[q]
      BY <1>3, <3>2
    <3>4. boot[r] # "grant" /\ boot' \in [Replicas -> BootPlaces]
      BY <1>3, <2>2, <3>2 DEF BootCount, BootCheck
    <3>5. Seeded => Seeded'
      BY <3>1, SeededStays
    <3>6. QED
      BY <1>1, <1>2, <1>3, <2>1, <3>1, <3>2, <3>3, <3>4, <3>5 DEF SeedInv
  <2>3. CASE BootCreate(r)
    <3>1. UNCHANGED <<direct, group, members>> /\ boot[r] = "create"
      BY <2>3 DEF BootCreate, notUser
    <3>2. ASSUME NEW u \in Users, InsertUser(u, AdminEmail, None, FALSE, 1),
                 boot' = [boot EXCEPT ![r] = "grant"]
          PROVE  SeedInv'
      <4>1. \A v \in Users : user[v].st = "none"
        BY <1>3, <3>2 DEF InsertUser, Insertable, EmailTaken
      <4>2. ~Seeded
        BY <4>1 DEF Seeded, Administrator
      <4>3. PICK row : /\ row.st = "live" /\ row.active /\ row.email = AdminEmail
                       /\ user' = [user EXCEPT ![u] = row]
        BY <3>2 DEF InsertUser
      <4>4. \A v \in Users : user'[v] = IF v = u THEN row ELSE user[v]
        BY <4>3 DEF FedInv, TypeOK
      <4>5. /\ boot' \in [Replicas -> BootPlaces] /\ boot'[r] = "grant"
            /\ \A q \in Replicas : boot'[q] # "up"
        BY <1>3, <3>2, <4>2 DEF BootPlaces
      <4>6. \A v \in Users : user'[v].st # "none" =>
              v = u /\ user'[v].st = "live" /\ user'[v].active /\ user'[v].email = AdminEmail
        BY <4>1, <4>3, <4>4
      <4>7. QED
        BY <1>1, <1>2, <1>3, <2>1, <3>1, <4>5, <4>6 DEF SeedInv
    <3>3. CASE EmailTaken(AdminEmail) /\ UNCHANGED user /\ boot' = [boot EXCEPT ![r] = "check"]
      <4>1. Seeded => Seeded'
        BY <3>1, <3>3, SeededStays
      <4>2. \A q \in Replicas : boot'[q] = IF q = r THEN "check" ELSE boot[q]
        BY <1>3, <3>3
      <4>3. boot' \in [Replicas -> BootPlaces]
        BY <1>3, <3>3 DEF BootPlaces
      <4>4. QED
        BY <1>1, <1>2, <1>3, <2>1, <3>1, <3>3, <4>1, <4>2, <4>3 DEF SeedInv
    <3>4. QED
      BY <2>3, <3>2, <3>3 DEF BootCreate
  <2>4. CASE BootGrant(r)
    <3>1. UNCHANGED <<user, group, members>> /\ boot' = [boot EXCEPT ![r] = "check"]
      BY <2>4 DEF BootGrant
    <3>2. PICK u \in Users : user[u].st = "live" /\ direct' = [direct EXCEPT ![u] = "admin"]
      BY <2>4 DEF BootGrant, GetByEmail, GetByID
    <3>3. direct'[u] = "admin" /\ DOMAIN direct' = Users
      BY <1>3, <3>2
    <3>4. Seeded'
      BY <1>3, <3>1, <3>2, <3>3 DEF Seeded, Administrator
    <3>5. boot' \in [Replicas -> BootPlaces]
      BY <1>3, <3>1 DEF BootPlaces
    <3>6. QED
      BY <1>1, <1>2, <1>3, <2>1, <3>1, <3>3, <3>4, <3>5 DEF SeedInv
  <2>5. CASE BootCrash(r)
    BY <2>5 DEF BootCrash, SeedInv
  <2>6. QED
    BY <1>5, <2>2, <2>3, <2>4, <2>5 DEF BootStep
<1>6. ASSUME UNCHANGED <<user, direct, group, members, boot>>,
             \A c \in Clients : req'[c].pc \in {"idle", "issue"}
      PROVE  SeedInv'
  <2>1. Seeded => Seeded'
    BY <1>6, SeededStays
  <2>2. QED
    BY <1>1, <1>2, <1>3, <1>6, <2>1 DEF SeedInv
<1>7. ASSUME NEW c \in Clients, GenerateToken(c) PROVE SeedInv'
  <2>1. Idle.pc = "idle"
    BY DEF Idle
  <2>2. req' = [req EXCEPT ![c] = Idle] /\ UNCHANGED <<user, direct, group, members, boot>>
    BY <1>7 DEF GenerateToken, Done, dbVars
  <2>3. \A d \in Clients : req'[d].pc \in {"idle", "issue"}
    BY <1>3, <2>1, <2>2 DEF FedInv, TypeOK
  <2>4. QED
    BY <1>6, <2>2, <2>3
<1>8. ASSUME NEW c \in Clients, NEW u \in Users, Login(c, u) PROVE SeedInv'
  <2>1. PICK q : q = [To("issue", u) EXCEPT !.ver = user[u].pwv]
    OBVIOUS
  <2>2. q.pc = "issue"
    BY <2>1, RequestTypes DEF Places, Request
  <2>3. req' = [req EXCEPT ![c] = q] /\ UNCHANGED <<user, direct, group, members, boot>>
    BY <1>8, <2>1 DEF Login, dbVars, env
  <2>4. \A d \in Clients : req'[d].pc \in {"idle", "issue"}
    BY <1>3, <2>2, <2>3 DEF FedInv, TypeOK
  <2>5. QED
    BY <1>6, <2>3, <2>4
<1>9. CASE Tick
  BY <1>3, <1>6, <1>9 DEF Tick, dbVars, reqVars
<1>10. QED
  BY <1>5, <1>7, <1>8, <1>9 DEF Seeding

\* SeedInv is inductive, next to FedInv.
LEMMA SeedNextInv == FedInv /\ SeedInv /\ [Next]_vars => SeedInv'
<1> SUFFICES ASSUME FedInv, SeedInv, [Next]_vars PROVE SeedInv'
  OBVIOUS
<1>1. CASE UNCHANGED vars
  BY <1>1 DEF vars, accVars, dbVars, fedVars, bounds, SeedInv, Seeded, Administrator
<1>2. CASE Counted
  BY <1>2 DEF Counted, SeedInv
<1>3. CASE Underway
  BY <1>3 DEF Underway, SeedInv
<1>4. QED
  BY <1>1, <1>2, <1>3, StepsOfSeeding, SeedingStep

\* However many replicas boot at once, at most one administrator is seeded, it is one
\* or about to become one, and no replica serves without it (SeedAdmin, CountAdmins).
THEOREM BootSeedsOneAdmin == Spec => []SeedsOneAdmin
<1>1. Init => SeedInv
  <2>1. NoUser.st = "none" /\ Idle.pc = "idle"
    BY DEF NoUser, Idle
  <2>2. SUFFICES ASSUME Init PROVE SeedInv
    OBVIOUS
  <2>3. boot \in [Replicas -> BootPlaces] /\ \A r \in Replicas : boot[r] = "count"
    BY <2>2 DEF Init, AccInit, BootPlaces
  <2>4. \A u \in Users : user[u].st = "none"
    BY <2>1, <2>2 DEF Init, AccInit
  <2>5. flow = {} /\ \A c \in Clients : fed[c].pc = "idle" /\ req[c].pc = "idle"
    BY <2>1, <2>2, NoFedType DEF Init, AccInit
  <2>6. ops \in [n : Nat, kinds : RequestSets] /\ crashes \in Nat /\ DOMAIN direct = Users
    BY <2>2 DEF Init, AccInit, bounds
  <2>7. QED
    BY <2>3, <2>4, <2>5, <2>6 DEF SeedInv
<1>2. SeedInv => SeedsOneAdmin
  <2> SUFFICES ASSUME SeedInv, ops.n = 0, crashes = 0
               PROVE  LET rows == {u \in Users : user[u].st # "none"}
                      IN  /\ Cardinality(rows) <= 1
                          /\ rows # {} => CountAdmins = 1 \/ \E r \in Replicas : boot[r] = "grant"
                          /\ Serving => CountAdmins = 1
    BY DEF SeedsOneAdmin
  <2> DEFINE rows == {u \in Users : user[u].st # "none"}
  <2>1. \A u, v \in Users : user[u].st # "none" /\ user[v].st # "none" => u = v
    BY DEF SeedInv
  <2>2. Seeded => CountAdmins = 1
    BY <2>1, CountOfOne
  <2>3. Cardinality(rows) <= 1
    <3>1. CASE rows = {}
      BY <3>1, FS_EmptySet
    <3>2. CASE rows # {}
      <4>1. PICK u : rows = {u}
        BY <2>1, <3>2
      <4>2. QED  BY <4>1, FS_Singleton
    <3>3. QED  BY <3>1, <3>2
  <2>4. rows # {} => CountAdmins = 1 \/ \E r \in Replicas : boot[r] = "grant"
    BY <2>2 DEF SeedInv
  <2>5. Serving => CountAdmins = 1
    BY <2>2, AccountAssumption DEF SeedInv, Serving
  <2>6. QED
    BY <2>3, <2>4, <2>5
<1>3. SetUp => SeedInv
  <2>1. SUFFICES ASSUME SetUp PROVE SeedInv
    OBVIOUS
  <2>2. PICK a \in Users :
          /\ user = [u \in Users |-> IF u = a THEN [NoUser EXCEPT !.st = "live", !.active = TRUE,
                                                    !.email = AdminEmail, !.pwv = 1] ELSE NoUser]
          /\ direct = [u \in Users |-> IF u = a THEN "admin" ELSE "none"]
          /\ req = [c \in Clients |-> Idle] /\ boot = [r \in Replicas |-> "up"]
          /\ crashes = 0 /\ ops \in [n : {0}, kinds : RequestSets]
          /\ flow = {} /\ fed = [c \in Clients |-> NoFed]
    BY <2>1 DEF SetUp
  <2>3. Idle.pc = "idle" /\ NoFed.pc = "idle"
    BY NoFedType DEF Idle, NoFed
  <2>4. boot \in [Replicas -> BootPlaces] /\ DOMAIN direct = Users
    BY <2>2 DEF BootPlaces
  <2>5. \A u \in Users : IF u = a THEN /\ user[u].st = "live" /\ user[u].active
                                      /\ user[u].email = AdminEmail /\ direct[u] = "admin"
                                 ELSE user[u].st = "none"
    BY <2>2 DEF NoUser
  <2>6. Seeded
    BY <2>5 DEF Seeded, Administrator
  <2>7. ops \in [n : Nat, kinds : RequestSets] /\ crashes \in Nat
    BY <2>2
  <2>8. QED
    BY <2>2, <2>3, <2>4, <2>5, <2>6, <2>7 DEF SeedInv
<1>4. QED
  BY <1>1, <1>2, <1>3, SeedNextInv, FederationInvariant, PTL DEF Spec

=============================================================================
