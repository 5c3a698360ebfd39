------------------------------ MODULE Accounts ------------------------------
(***************************************************************************)
(* Accounts, sessions and roles: registration and the seeding of the first *)
(* administrator, login and refresh, two-factor enrolment, and what an     *)
(* administrator does to an account.  Requests run concurrently and every  *)
(* awaited query is a step, so that each decides on rows it read earlier.  *)
(*                                                                         *)
(* A session stands for the access and the refresh token signed together:  *)
(* they carry the same subject and version, and are checked against the    *)
(* row in the same way.  Expiry only takes sessions away and is left out.  *)
(* Passwords and one-time codes either fit or end the request unchanged.   *)
(***************************************************************************)
EXTENDS Naturals, FiniteSets

CONSTANTS
  Users,        \* normalized emails, each at most one account
  SeedUser,     \* ADMIN_EMAIL
  Requests,     \* concurrent requests
  MaxVersion    \* bound on tokenVersion: deactivations of one account

ASSUME AccountsOK ==
  /\ IsFiniteSet(Users)
  /\ SeedUser \in Users
  /\ MaxVersion \in Nat

VARIABLES
  row,          \* the users table
  req,          \* what each request has read and does next
  issued,       \* sessions signed so far
  revoked,      \* history: sessions whose row was read before a deactivation
  shown,        \* history: users who gave a valid code for the secret they have
  overlapped,   \* history: users whose secret replaced one being verified
  entitled,     \* history: who may be an administrator (see CreateUser, WriteRole)
  unguarded     \* history: has a change of administrators escaped the check?

vars == <<row, req, issued, revoked, shown, overlapped, entitled, unguarded>>
roleVars == <<entitled, unguarded>>

Roles == {"admin", "trader"}
Rows == [exists : BOOLEAN, role : Roles, isActive : BOOLEAN, tokenVersion : 0..MaxVersion,
         totpSecret : BOOLEAN, isTotpEnabled : BOOLEAN]   \* totpSecret: is there one?
Absent == [exists |-> FALSE, role |-> "trader", isActive |-> FALSE, tokenVersion |-> 0,
           totpSecret |-> FALSE, isTotpEnabled |-> FALSE]
NewRow(role) == [Absent EXCEPT !.exists = TRUE, !.isActive = TRUE, !.role = role]

Pcs == {"idle", "count", "create", "seed", "sign", "asUser", "asAdmin", "verified",
        "countAdmins", "promote", "demote"}
At(pc, u, n) == [pc |-> pc, user |-> u, n |-> n]
Idle == At("idle", SeedUser, 0)
Sessions == Users \X (0..MaxVersion)
Accounts == {u \in Users : row[u].exists}
ActiveAdmins == {u \in Accounts : row[u].role = "admin" /\ row[u].isActive}

Init ==
  /\ row = [u \in Users |-> Absent]
  /\ req = [r \in Requests |-> Idle]
  /\ issued = {}
  /\ revoked = {}
  /\ shown = {}
  /\ overlapped = {}
  /\ entitled = {}
  /\ unguarded = FALSE

Goto(r, state) == req' = [req EXCEPT ![r] = state]
Done(r) == Goto(r, Idle)
OnlyRequest == UNCHANGED <<row, issued, revoked, shown, overlapped, roleVars>>
OnlyRow == UNCHANGED <<issued, revoked, shown, overlapped>>

\* The administrators change while another request stands between its count of
\* them and its write of a role.
Crossed(r) ==
  ActiveAdmins' # ActiveAdmins /\ \E q \in Requests \ {r} : req[q].pc = "demote"
\* What happens to the history when the role of no account changes.
SameRoles(r) == unguarded' = (unguarded \/ Crossed(r)) /\ UNCHANGED entitled

-----------------------------------------------------------------------------
(* register, and the seeding of the default administrator at boot.         *)

Register(r, u) ==
  /\ req[r].pc = "idle"
  /\ ~row[u].exists
  /\ Goto(r, At("count", u, 0))
  /\ OnlyRequest

\* Mutant of CountUsers: accounts that are not active do not count.
CountActiveUsers(r) ==
  /\ req[r].pc = "count"
  /\ Goto(r, At("create", req[r].user, Cardinality({u \in Accounts : row[u].isActive})))
  /\ OnlyRequest

CountUsers(r) ==
  /\ req[r].pc = "count"
  /\ Goto(r, At("create", req[r].user, Cardinality(Accounts)))
  /\ OnlyRequest

SeedDefaultAdminIfEmpty(r) ==
  /\ req[r].pc = "idle"
  /\ Accounts = {}
  /\ Goto(r, At("seed", SeedUser, 0))
  /\ OnlyRequest

FirstRole(count) == IF count = 0 THEN "admin" ELSE "trader"

\* Registrations that counted nobody, and a seed that found nobody.
Founding == {q \in Requests : \/ req[q].pc = "seed"
                              \/ req[q].pc = "create" /\ req[q].n = 0}
Founders == {req[q].user : q \in Founding}

\* The unique email ends the slower of two creations.  The session is signed
\* after the audit entry is written, from the row that was created.  History: when
\* the first account is created, those under way then are entitled, nobody later.
CreateUser(r) ==
  /\ req[r].pc \in {"create", "seed"}
  /\ LET u == req[r].user IN
       IF row[u].exists
       THEN Done(r) /\ UNCHANGED row
       ELSE /\ row' = [row EXCEPT ![u] = NewRow(FirstRole(req[r].n))]
            /\ IF req[r].pc = "seed" THEN Done(r) ELSE Goto(r, At("sign", u, 0))
  /\ entitled' = entitled \union (IF Accounts = {} THEN Founders ELSE {})
  /\ unguarded' = (unguarded \/ Crossed(r))
  /\ OnlyRow

-----------------------------------------------------------------------------
(* Sessions.                                                               *)

Login(r, u) ==
  /\ req[r].pc = "idle"
  /\ row[u].exists /\ row[u].isActive
  /\ Goto(r, At("sign", u, row[u].tokenVersion))
  /\ OnlyRequest

\* validateToken and validateRefreshToken, on the row as it is now.
Valid(s) == /\ row[s[1]].exists /\ row[s[1]].isActive
            /\ s[2] = row[s[1]].tokenVersion

Refresh(r, s) ==
  /\ req[r].pc = "idle"
  /\ s \in issued /\ Valid(s)
  /\ Goto(r, At("sign", s[1], row[s[1]].tokenVersion))
  /\ OnlyRequest

Sign(r) ==
  /\ req[r].pc = "sign"
  /\ issued' = issued \union {<<req[r].user, req[r].n>>}
  /\ Done(r)
  /\ UNCHANGED <<row, revoked, shown, overlapped, roleVars>>

\* The audit entry could not be written: the request fails, the row stays.
AuditFails(r) ==
  /\ req[r].pc = "sign"
  /\ Done(r)
  /\ OnlyRequest

\* requireAuth keeps the row it read: requireAdmin decides on that role.
Authenticate(r, s) ==
  /\ req[r].pc = "idle"
  /\ s \in issued /\ Valid(s)
  /\ Goto(r, At(IF row[s[1]].role = "admin" THEN "asAdmin" ELSE "asUser", s[1], 0))
  /\ OnlyRequest

-----------------------------------------------------------------------------
(* Two-factor enrolment.                                                   *)

Verifying(u) == \E r \in Requests : req[r].pc = "verified" /\ req[r].user = u

\* Mutant of Enrolled: the new secret takes the place of one in use.
EnrolledEnabled(u) == [row[u] EXCEPT !.totpSecret = TRUE]

Enrolled(u) == [row[u] EXCEPT !.totpSecret = TRUE, !.isTotpEnabled = FALSE]

Setup2fa(r) ==
  /\ req[r].pc \in {"asUser", "asAdmin"}
  /\ LET u == req[r].user IN
       /\ row' = [row EXCEPT ![u] = Enrolled(u)]
       /\ shown' = shown \ {u}
       /\ overlapped' = IF Verifying(u) THEN overlapped \union {u} ELSE overlapped \ {u}
  /\ Done(r)
  /\ UNCHANGED <<issued, revoked, roleVars>>

Verify2fa(r) ==
  /\ req[r].pc \in {"asUser", "asAdmin"}
  /\ row[req[r].user].totpSecret
  /\ shown' = shown \union {req[r].user}
  /\ Goto(r, At("verified", req[r].user, 0))
  /\ UNCHANGED <<row, issued, revoked, overlapped, roleVars>>

Enable2fa(r) ==
  /\ req[r].pc = "verified"
  /\ row' = [row EXCEPT ![req[r].user] = [@ EXCEPT !.isTotpEnabled = TRUE]]
  /\ Done(r)
  /\ OnlyRow /\ UNCHANGED roleVars

\* Reads, a logout (cookies only) and a request refused by its handler.
EndRequest(r) ==
  /\ req[r].pc \in {"asUser", "asAdmin"}
  /\ Done(r)
  /\ OnlyRequest

-----------------------------------------------------------------------------
(* What an administrator does to an account.                               *)

ActivateUser(r, u) ==
  /\ req[r].pc = "asAdmin"
  /\ row[u].exists
  /\ row' = [row EXCEPT ![u] = [@ EXCEPT !.isActive = TRUE]]
  /\ Done(r)
  /\ SameRoles(r) /\ OnlyRow

\* Mutant of Deactivated: the version of the tokens stays.
DeactivatedOnly(u) == [row[u] EXCEPT !.isActive = FALSE]

Deactivated(u) == [row[u] EXCEPT !.isActive = FALSE, !.tokenVersion = @ + 1]

\* Sessions of u that exist, or that a request will sign for a row it has read.
Outstanding(u) ==
  {s \in issued : s[1] = u} \union
  {<<u, req[r].n>> : r \in {q \in Requests : req[q].pc = "sign" /\ req[q].user = u}}

\* Nothing counts the administrators here: the last one may go as well.
DeactivateUser(r, u) ==
  /\ req[r].pc = "asAdmin"
  /\ row[u].exists
  /\ row[u].tokenVersion < MaxVersion
  /\ row' = [row EXCEPT ![u] = Deactivated(u)]
  /\ revoked' = revoked \union Outstanding(u)
  /\ unguarded' = (unguarded \/ Crossed(r) \/ ActiveAdmins = {u})
  /\ Done(r)
  /\ UNCHANGED <<issued, shown, overlapped, entitled>>

\* setUserRole reads the row, counts the active administrators when it takes
\* the role from one, and writes the role by id.
SetUserRole(r, u, role) ==
  /\ req[r].pc = "asAdmin"
  /\ row[u].exists
  /\ Goto(r, At(IF role = "admin" THEN "promote"
                ELSE IF row[u].role = "admin" THEN "countAdmins" ELSE "demote", u, 0))
  /\ OnlyRequest

LastAdmin(count) == count <= 1

\* Mutant of CountAdmins: deactivated administrators count.
CountAllAdmins(r) ==
  /\ req[r].pc = "countAdmins"
  /\ LET count == Cardinality({u \in Accounts : row[u].role = "admin"}) IN
       IF LastAdmin(count) THEN Done(r) ELSE Goto(r, At("demote", req[r].user, count))
  /\ OnlyRequest

CountAdmins(r) ==
  /\ req[r].pc = "countAdmins"
  /\ LET count == Cardinality(ActiveAdmins) IN
       IF LastAdmin(count) THEN Done(r) ELSE Goto(r, At("demote", req[r].user, count))
  /\ OnlyRequest

WriteRole(r) ==
  /\ req[r].pc \in {"promote", "demote"}
  /\ row' = [row EXCEPT ![req[r].user] =
                 [@ EXCEPT !.role = IF req[r].pc = "promote" THEN "admin" ELSE "trader"]]
  /\ entitled' = IF req[r].pc = "promote" THEN entitled \union {req[r].user}
                                           ELSE entitled \ {req[r].user}
  /\ unguarded' = (unguarded \/ Crossed(r))
  /\ Done(r)
  /\ OnlyRow

-----------------------------------------------------------------------------
Next ==
  \E r \in Requests :
    \/ SeedDefaultAdminIfEmpty(r) \/ CountUsers(r) \/ CreateUser(r)
    \/ Sign(r) \/ AuditFails(r)
    \/ Setup2fa(r) \/ Verify2fa(r) \/ Enable2fa(r) \/ EndRequest(r)
    \/ CountAdmins(r) \/ WriteRole(r)
    \/ \E u \in Users : Register(r, u) \/ Login(r, u) \/ ActivateUser(r, u)
    \/ \E u \in Users : DeactivateUser(r, u)
    \/ \E u \in Users, role \in Roles : SetUserRole(r, u, role)
    \/ \E s \in Sessions : Refresh(r, s) \/ Authenticate(r, s)

Spec == Init /\ [][Next]_vars

-----------------------------------------------------------------------------
(* Every row, request and session is of its type.                          *)
ReqType == [pc : Pcs, user : Users, n : Nat]

TypeOK ==
  /\ row \in [Users -> Rows]
  /\ req \in [Requests -> ReqType]
  /\ issued \subseteq Sessions
  /\ revoked \subseteq Sessions
  /\ shown \subseteq Users
  /\ overlapped \subseteq Users
  /\ entitled \subseteq Users
  /\ unguarded \in BOOLEAN

(* deactivateUser ends every session there is or that a login or refresh    *)
(* under way will still sign: none of them is accepted again, not even      *)
(* after the account has been activated once more.                          *)
RevokedStayRevoked == \A s \in revoked : ~Valid(s)

(* Two-factor authentication is on only for a secret the user has given a   *)
(* code for since it was generated, unless setup2fa ran while a             *)
(* verification of the previous secret was under way.                       *)
EnabledSecretShown ==
  \A u \in Users : row[u].isTotpEnabled => u \in shown \union overlapped

(* What a session or a request remembers of a row: versions only grow from  *)
(* zero, the revoked ones are behind, a count taken while there was nobody  *)
(* is zero.                                                                 *)
Remembered ==
  /\ \A u \in Users \ Accounts : row[u].tokenVersion = 0
  /\ \A s \in issued : s[2] <= row[s[1]].tokenVersion
  /\ \A s \in revoked : s[2] < row[s[1]].tokenVersion
  /\ \A r \in Requests :
       /\ req[r].pc = "sign" => req[r].n <= row[req[r].user].tokenVersion
       /\ req[r].pc = "verified" => req[r].user \in shown \union overlapped
       /\ req[r].pc \in {"create", "seed"} /\ Accounts = {} => req[r].n = 0

(* What it remembers of the roles: who counted nobody and has not created   *)
(* an account yet is entitled once there is one; a demotion that counted    *)
(* still knows how many administrators there are, one that did not count    *)
(* takes the role from nobody who has it.                                   *)
RolesRemembered ==
  \A r \in Requests :
    /\ req[r].pc \in {"countAdmins", "promote", "demote"} => req[r].user \in Accounts
    /\ req[r].pc \in {"create", "seed"} /\ req[r].n = 0 =>
         Accounts = {} \/ req[r].user \in Accounts \union entitled
    /\ req[r].pc = "demote" =>
         \/ unguarded
         \/ req[r].n = 0 /\ req[r].user \notin ActiveAdmins
         \/ req[r].n >= 2 /\ req[r].n = Cardinality(ActiveAdmins)

(* However registrations, the seed and role changes interleave: whoever is  *)
(* an administrator was made one by an administrator, or registered (or was *)
(* seeded) when the first account was being created.  In particular nobody  *)
(* who registers later becomes one by himself, whatever became of the       *)
(* accounts there are.                                                      *)
AdminsMadeByAdmins == \A u \in Accounts : row[u].role = "admin" => u \in entitled

(* "Cannot demote the last admin": from the first account on there is an    *)
(* active administrator, through promotions, demotions, activations and     *)
(* deactivations by several requests, unless a deactivation took the last   *)
(* one or the administrators changed while a demotion stood between its     *)
(* count and its write.                                                     *)
AdministratorLeft == Accounts # {} /\ ~unguarded => ActiveAdmins # {}

(* The inductive invariant behind the properties of this module.            *)
IInv ==
  /\ TypeOK
  /\ Remembered
  /\ RolesRemembered
  /\ EnabledSecretShown
  /\ AdminsMadeByAdmins
  /\ AdministratorLeft
=============================================================================
