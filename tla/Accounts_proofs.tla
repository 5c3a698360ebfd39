-------------------------- MODULE Accounts_proofs --------------------------
(* Proofs about Accounts, for any number of users and concurrent requests.  *)
EXTENDS Accounts, FiniteSetTheorems, TLAPS

USE AccountsOK DEF AccountsOK

-----------------------------------------------------------------------------
(* What a request remembers, and the states it moves to.  Core is what      *)
(* sessions and second factors rest on; the roles follow below.             *)
CoreTypes ==
  /\ row \in [Users -> Rows]
  /\ req \in [Requests -> ReqType]
  /\ issued \subseteq Sessions
  /\ revoked \subseteq Sessions
  /\ shown \subseteq Users
  /\ overlapped \subseteq Users
Core == CoreTypes /\ Remembered /\ EnabledSecretShown

\* Remembered, of one request.
Fits(n) ==
  /\ n.pc = "sign" => n.n <= row[n.user].tokenVersion
  /\ n.pc = "verified" => n.user \in shown \union overlapped
  /\ n.pc \in {"create", "seed"} /\ Accounts = {} => n.n = 0

LEMMA AtType ==
  ASSUME NEW pc \in Pcs, NEW u \in Users, NEW k \in Nat
  PROVE  /\ At(pc, u, k) \in ReqType
         /\ At(pc, u, k).pc = pc /\ At(pc, u, k).user = u /\ At(pc, u, k).n = k
BY DEF At, ReqType

LEMMA IdleType == Idle \in ReqType /\ Idle.pc = "idle"
<1>1. "idle" \in Pcs /\ 0 \in Nat
  BY DEF Pcs
<1>2. QED
  BY <1>1, AtType DEF Idle

LEMMA AbsentType ==
  /\ Absent \in Rows
  /\ ~Absent.exists /\ ~Absent.isTotpEnabled /\ Absent.tokenVersion = 0
BY DEF Absent, Rows, Roles

LEMMA NewRowType ==
  ASSUME NEW role \in Roles
  PROVE  /\ NewRow(role) \in Rows
         /\ NewRow(role).exists /\ NewRow(role).isActive /\ NewRow(role).role = role
         /\ ~NewRow(role).isTotpEnabled /\ NewRow(role).tokenVersion = 0
BY AbsentType DEF NewRow, Rows, Roles

LEMMA InitCore == Init => Core
<1> SUFFICES ASSUME Init PROVE Core
  OBVIOUS
<1>1. CoreTypes
  BY AbsentType, IdleType DEF Init, CoreTypes
<1>2. Remembered
  BY IdleType, AbsentType DEF Init, Remembered
<1>3. EnabledSecretShown
  BY AbsentType DEF Init, EnabledSecretShown
<1>4. QED
  BY <1>1, <1>2, <1>3 DEF Core

\* Nobody verifies a secret without its user being shown or overlapped; an
\* account never vanishes and its version never falls.
LEMMA StepCore ==
  ASSUME Core, NEW r \in Requests, NEW n \in ReqType,
         req' = [req EXCEPT ![r] = n], Fits(n)',
         row' \in [Users -> Rows],
         \A u \in Users : row[u].exists => row'[u].exists,
         \A u \in Users : ~row'[u].exists => row'[u].tokenVersion = 0,
         \A u \in Users : row[u].tokenVersion <= row'[u].tokenVersion,
         issued' \subseteq Sessions,
         \A s \in issued' : s \in issued \/ s[2] <= row[s[1]].tokenVersion,
         revoked' \subseteq Sessions,
         \A s \in revoked' : s \in revoked \/ s[2] < row'[s[1]].tokenVersion,
         shown' \subseteq Users, overlapped' \subseteq Users,
         \A u \in Users : u \in shown \union overlapped /\ Verifying(u)
                          => u \in shown' \union overlapped',
         EnabledSecretShown'
  PROVE  Core'
<1>1. CoreTypes'
  BY DEF Core, CoreTypes
<1>2. \A u \in Users : row[u].tokenVersion \in Int /\ row'[u].tokenVersion \in Int
  BY <1>1 DEF Core, CoreTypes, Rows
<1>3. ASSUME NEW s \in issued' PROVE s[2] <= row'[s[1]].tokenVersion
  <2>1. s[1] \in Users /\ s[2] \in Int
    BY DEF Sessions
  <2>2. s[2] <= row[s[1]].tokenVersion
    BY DEF Core, Remembered
  <2>3. QED
    BY <1>2, <2>1, <2>2
<1>4. ASSUME NEW s \in revoked' PROVE s[2] < row'[s[1]].tokenVersion
  <2>1. s[1] \in Users /\ s[2] \in Int
    BY DEF Sessions
  <2>2. s \in revoked => s[2] < row[s[1]].tokenVersion
    BY DEF Core, Remembered
  <2>3. QED
    BY <1>2, <2>1, <2>2
<1>5. Accounts' = {} => Accounts = {}
  BY DEF Accounts
<1>6. ASSUME NEW q \in Requests PROVE Fits(req[q])'
  <2>1. CASE q = r
    <3>1. req'[q] = n
      BY <2>1 DEF Core, CoreTypes
    <3>2. QED
      BY <3>1 DEF Fits
  <2>2. CASE q # r
    <3>1. req'[q] = req[q] /\ req[q] \in ReqType
      BY <2>2 DEF Core, CoreTypes
    <3>2. req[q].user \in Users /\ req[q].n \in Int
      BY <3>1 DEF ReqType
    <3>3. Fits(req[q])
      BY DEF Core, Remembered, Fits
    <3>4. req[q].pc = "sign" => req[q].n <= row'[req[q].user].tokenVersion
      BY <1>2, <3>2, <3>3 DEF Fits
    <3>5. req[q].pc = "verified" => req[q].user \in shown' \union overlapped'
      BY <3>2, <3>3 DEF Fits, Verifying
    <3>6. QED
      BY <1>5, <3>1, <3>3, <3>4, <3>5 DEF Fits
  <2>3. QED
    BY <2>1, <2>2
<1>7. Remembered'
  BY <1>3, <1>4, <1>6 DEF Remembered, Fits, Accounts
<1>8. QED
  BY <1>1, <1>7 DEF Core

\* Steps that only move the request on.
LEMMA RequestCore ==
  ASSUME Core, NEW r \in Requests, NEW n \in ReqType,
         req' = [req EXCEPT ![r] = n], Fits(n),
         UNCHANGED <<row, issued, revoked, shown, overlapped>>
  PROVE  Core'
<1>1. Fits(n)' /\ EnabledSecretShown'
  BY DEF Fits, Accounts, Core, EnabledSecretShown
<1>2. \A u \in Users : row[u].tokenVersion <= row'[u].tokenVersion
  BY DEF Core, CoreTypes, Rows
<1>3. \A u \in Users : ~row'[u].exists => row'[u].tokenVersion = 0
  BY DEF Core, Remembered, Accounts
<1>4. QED
  BY <1>1, <1>2, <1>3, StepCore DEF Core, CoreTypes

\* Steps that end the request after writing one row, which exists afterwards.
LEMMA RowCore ==
  ASSUME Core, NEW r \in Requests, NEW n \in ReqType, NEW u \in Users, NEW w \in Rows,
         req' = [req EXCEPT ![r] = n], row' = [row EXCEPT ![u] = w],
         UNCHANGED <<issued, shown, overlapped>>,
         Fits(n)', row[u].exists => w.exists, ~w.exists => w.tokenVersion = 0,
         row[u].tokenVersion <= w.tokenVersion,
         w.isTotpEnabled => u \in shown \union overlapped,
         revoked' \subseteq Sessions,
         \A s \in revoked' : s \in revoked \/ s[2] < row'[s[1]].tokenVersion
  PROVE  Core'
<1>1. /\ row' \in [Users -> Rows]
      /\ \A v \in Users : row'[v] = IF v = u THEN w ELSE row[v]
  BY DEF Core, CoreTypes
<1>2. \A v \in Users : row[v].tokenVersion <= row'[v].tokenVersion
  BY <1>1 DEF Core, CoreTypes, Rows
<1>3. \A v \in Users : /\ row[v].exists => row'[v].exists
                       /\ ~row'[v].exists => row'[v].tokenVersion = 0
  BY <1>1 DEF Core, Remembered, Accounts
<1>4. EnabledSecretShown'
  BY <1>1 DEF Core, EnabledSecretShown
<1>5. QED
  BY <1>1, <1>2, <1>3, <1>4, StepCore DEF Core, CoreTypes

-----------------------------------------------------------------------------
(* Registration and the seed.                                              *)

LEMMA CountUsersCore ==
  ASSUME Core, NEW r \in Requests, CountUsers(r)
  PROVE  Core'
<1> DEFINE n == At("create", req[r].user, Cardinality(Accounts))
<1>1. Cardinality(Accounts) \in Nat /\ (Accounts = {} => Cardinality(Accounts) = 0)
  <2>1. IsFiniteSet(Accounts)
    BY FS_Subset DEF Accounts
  <2>2. QED
    BY <2>1, FS_CardinalityType, FS_EmptySet
<1>2. req[r].user \in Users /\ "create" \in Pcs
  BY DEF Core, CoreTypes, ReqType, Pcs
<1>3. n \in ReqType /\ n.pc = "create" /\ n.n = Cardinality(Accounts)
  BY <1>1, <1>2, AtType
<1>4. req' = [req EXCEPT ![r] = n] /\ OnlyRequest
  BY DEF CountUsers, Goto
<1> HIDE DEF n
<1>5. Fits(n)
  BY <1>1, <1>3 DEF Fits
<1>6. QED
  BY <1>3, <1>4, <1>5, RequestCore DEF OnlyRequest

LEMMA CreateUserCore ==
  ASSUME Core, NEW r \in Requests, CreateUser(r)
  PROVE  Core'
<1> DEFINE u == req[r].user
           w == NewRow(FirstRole(req[r].n))
<1>1. /\ req[r] \in ReqType /\ u \in Users /\ req[r].n \in Nat
      /\ req[r].pc \in {"create", "seed"}
      /\ row \in [Users -> Rows]
  BY DEF CreateUser, Core, CoreTypes, ReqType
<1>2. UNCHANGED <<issued, revoked, shown, overlapped>>
  BY DEF CreateUser, OnlyRow
<1>3. CASE row[u].exists
  <2>1. req' = [req EXCEPT ![r] = Idle] /\ row' = row
    BY <1>3 DEF CreateUser, Done, Goto
  <2>2. Fits(Idle)
    BY IdleType DEF Fits
  <2>3. QED
    BY <1>2, <2>1, <2>2, IdleType, RequestCore
<1>4. CASE ~row[u].exists
  <2>1. PICK n \in {Idle, At("sign", u, 0)} : req' = [req EXCEPT ![r] = n]
    BY <1>4 DEF CreateUser, Done, Goto
  <2>2. FirstRole(req[r].n) \in Roles
    BY DEF FirstRole, Roles
  <2>3. /\ w \in Rows /\ w.exists /\ w.isActive /\ w.role = FirstRole(req[r].n)
        /\ ~w.isTotpEnabled /\ w.tokenVersion = 0
    BY <2>2, NewRowType
  <2>4. row[u].tokenVersion = 0
    BY <1>1, <1>4 DEF Core, Remembered, Accounts
  <2>5. /\ n \in ReqType
        /\ \/ n.pc = "idle"
           \/ n.pc = "sign" /\ n.user = u /\ n.n = 0
    BY <1>1, IdleType, AtType DEF Pcs
  <2>6. row' = [row EXCEPT ![u] = w]
    BY <1>4 DEF CreateUser
  <2> HIDE DEF w
  <2>7. row'[u] = w
    BY <1>1, <2>6
  <2>8. Fits(n)'
    <3>1. n.pc = "sign" => row'[n.user].tokenVersion = 0 /\ n.n = 0
      BY <2>3, <2>5, <2>7
    <3>2. QED
      BY <2>5, <3>1 DEF Fits
  <2>9. QED
    <3>1. /\ row[u].exists => w.exists
          /\ ~w.exists => w.tokenVersion = 0
          /\ row[u].tokenVersion <= w.tokenVersion
          /\ w.isTotpEnabled => u \in shown \union overlapped
      BY <2>3, <2>4
    <3>2. /\ revoked' \subseteq Sessions
          /\ \A s \in revoked' : s \in revoked \/ s[2] < row'[s[1]].tokenVersion
      BY <1>2 DEF Core, CoreTypes
    <3>3. QED
      BY <1>1, <1>2, <2>1, <2>3, <2>5, <2>6, <2>8, <3>1, <3>2, RowCore
<1>5. QED
  BY <1>3, <1>4

\* A row of a user.
LEMMA RowIs ==
  ASSUME Core, NEW u \in Users
  PROVE  row[u] \in Rows /\ row[u].tokenVersion \in Nat
BY DEF Core, CoreTypes, Rows

-----------------------------------------------------------------------------
(* Sessions, and steps that only move a request on.                        *)

LEMMA PlainCore ==
  ASSUME Core, NEW r \in Requests, NEW pc \in Pcs, NEW u \in Users, NEW k \in Nat,
         req' = [req EXCEPT ![r] = At(pc, u, k)], OnlyRequest,
         pc = "sign" => k <= row[u].tokenVersion,
         pc = "verified" => u \in shown \union overlapped,
         pc \in {"create", "seed"} /\ Accounts = {} => k = 0
  PROVE  Core'
<1> DEFINE n == At(pc, u, k)
<1>1. n \in ReqType /\ n.pc = pc /\ n.user = u /\ n.n = k
  BY AtType
<1> HIDE DEF n
<1>2. Fits(n)
  BY <1>1 DEF Fits
<1>3. QED
  BY <1>1, <1>2, RequestCore DEF n, OnlyRequest

LEMMA DoneCore ==
  ASSUME Core, NEW r \in Requests, Done(r), OnlyRequest
  PROVE  Core'
<1>1. Fits(Idle)
  BY IdleType DEF Fits
<1>2. QED
  BY <1>1, IdleType, RequestCore DEF Done, Goto, OnlyRequest

LEMMA LoginCore ==
  ASSUME Core, NEW r \in Requests, NEW u \in Users,
         Goto(r, At("sign", u, row[u].tokenVersion)), OnlyRequest
  PROVE  Core'
<1>1. row[u].tokenVersion \in Nat /\ "sign" \in Pcs
  BY RowIs DEF Pcs
<1>2. row[u].tokenVersion <= row[u].tokenVersion
  BY <1>1
<1>3. QED
  BY <1>1, <1>2, PlainCore DEF Goto

\* The session signed is of the version the request read.
LEMMA SignCore ==
  ASSUME Core, NEW r \in Requests, Sign(r)
  PROVE  Core'
<1> DEFINE s == <<req[r].user, req[r].n>>
<1>1. /\ req' = [req EXCEPT ![r] = Idle]
      /\ issued' = issued \union {s}
      /\ UNCHANGED <<row, revoked, shown, overlapped>>
  BY DEF Sign, Done, Goto
<1>2. /\ req[r].user \in Users /\ req[r].n \in Nat
      /\ req[r].n <= row[req[r].user].tokenVersion
  BY DEF Sign, Core, CoreTypes, ReqType, Remembered
<1>3. row[req[r].user].tokenVersion \in 0..MaxVersion
  BY <1>2 DEF Core, CoreTypes, Rows
<1>4. s \in Sessions /\ s[2] <= row[s[1]].tokenVersion
  BY <1>2, <1>3 DEF Sessions
<1> HIDE DEF s
<1>5. Fits(Idle)' /\ EnabledSecretShown'
  BY <1>1, IdleType DEF Fits, Core, EnabledSecretShown
<1>6. \A u \in Users : row[u].tokenVersion <= row'[u].tokenVersion
  BY <1>1 DEF Core, CoreTypes, Rows
<1>7. \A u \in Users : ~row'[u].exists => row'[u].tokenVersion = 0
  BY <1>1 DEF Core, Remembered, Accounts
<1>8. QED
  BY <1>1, <1>4, <1>5, <1>6, <1>7, IdleType, StepCore DEF Core, CoreTypes

-----------------------------------------------------------------------------
(* Steps that write a row.                                                 *)

\* Setup takes the secret from everyone who verifies the previous one.
LEMMA SetupCore ==
  ASSUME Core, NEW r \in Requests, Setup2fa(r)
  PROVE  Core'
<1> DEFINE u == req[r].user
           w == Enrolled(u)
<1>1. u \in Users /\ row[u] \in Rows /\ req[r].pc # "verified"
  BY DEF Setup2fa, Core, CoreTypes, ReqType
<1>2. /\ req' = [req EXCEPT ![r] = Idle]
      /\ row' = [row EXCEPT ![u] = w]
      /\ shown' = shown \ {u}
      /\ overlapped' = IF Verifying(u) THEN overlapped \union {u} ELSE overlapped \ {u}
      /\ UNCHANGED <<issued, revoked>>
  BY DEF Setup2fa, Done, Goto
<1>3. /\ w \in Rows /\ ~w.isTotpEnabled
      /\ w.exists = row[u].exists /\ w.tokenVersion = row[u].tokenVersion
  BY <1>1 DEF Enrolled, Rows
<1> HIDE DEF u, w
<1>4. \A v \in Users : row'[v] = IF v = u THEN w ELSE row[v]
  BY <1>2 DEF Core, CoreTypes
<1>5. \A v \in Users : /\ row[v].tokenVersion <= row'[v].tokenVersion
                       /\ row[v].exists => row'[v].exists
                       /\ ~row'[v].exists => row'[v].tokenVersion = 0
  BY <1>3, <1>4, RowIs DEF Core, Remembered, Accounts
<1>6. EnabledSecretShown'
  BY <1>2, <1>3, <1>4 DEF Core, EnabledSecretShown
<1>7. \A v \in Users : v \in shown \union overlapped /\ Verifying(v)
                      => v \in shown' \union overlapped'
  BY <1>2
<1>8. /\ row' \in [Users -> Rows]
      /\ shown' \subseteq Users /\ overlapped' \subseteq Users
  BY <1>1, <1>2, <1>3 DEF Core, CoreTypes
<1>9. Fits(Idle)'
  BY IdleType DEF Fits
<1>10. QED
  BY <1>2, <1>5, <1>6, <1>7, <1>8, <1>9, IdleType, StepCore DEF Core, CoreTypes

LEMMA VerifyCore ==
  ASSUME Core, NEW r \in Requests, Verify2fa(r)
  PROVE  Core'
<1> DEFINE u == req[r].user
<1>1. u \in Users
  BY DEF Core, CoreTypes, ReqType
<1>2. PICK n : n = At("verified", u, 0)
  OBVIOUS
<1>3. n \in ReqType /\ n.pc = "verified" /\ n.user = u
  BY <1>1, <1>2, AtType DEF Pcs
<1>4. /\ req' = [req EXCEPT ![r] = n]
      /\ shown' = shown \union {u}
      /\ UNCHANGED <<row, issued, revoked, overlapped>>
  BY <1>2 DEF Verify2fa, Goto
<1> HIDE DEF u
<1>5. Fits(n)' /\ EnabledSecretShown'
  BY <1>3, <1>4 DEF Fits, Core, EnabledSecretShown
<1>6. \A v \in Users : /\ row[v].tokenVersion <= row'[v].tokenVersion
                       /\ ~row'[v].exists => row'[v].tokenVersion = 0
  BY <1>4, RowIs DEF Core, Remembered, Accounts
<1>7. QED
  BY <1>1, <1>3, <1>4, <1>5, <1>6, StepCore DEF Core, CoreTypes

LEMMA EnableCore ==
  ASSUME Core, NEW r \in Requests, Enable2fa(r)
  PROVE  Core'
<1> DEFINE u == req[r].user
           w == [row[u] EXCEPT !.isTotpEnabled = TRUE]
<1>1. u \in Users /\ row[u] \in Rows /\ u \in shown \union overlapped
  BY DEF Enable2fa, Core, CoreTypes, ReqType, Remembered
<1>2. /\ req' = [req EXCEPT ![r] = Idle]
      /\ row' = [row EXCEPT ![u] = w]
      /\ UNCHANGED <<issued, revoked, shown, overlapped>>
  BY DEF Enable2fa, Done, Goto, OnlyRow
<1>3. w \in Rows /\ w.exists = row[u].exists /\ w.tokenVersion = row[u].tokenVersion
  BY <1>1 DEF Rows
<1> HIDE DEF u, w
<1>4. /\ row[u].tokenVersion <= w.tokenVersion
      /\ ~w.exists => w.tokenVersion = 0
  BY <1>1, <1>3, RowIs DEF Core, Remembered, Accounts
<1>5. Fits(Idle)'
  BY IdleType DEF Fits
<1>6. QED
  BY <1>1, <1>2, <1>3, <1>4, <1>5, IdleType, RowCore DEF Core, CoreTypes

LEMMA ActivateCore ==
  ASSUME Core, NEW r \in Requests, NEW u \in Users, ActivateUser(r, u)
  PROVE  Core'
<1> DEFINE w == [row[u] EXCEPT !.isActive = TRUE]
<1>1. /\ req' = [req EXCEPT ![r] = Idle]
      /\ row' = [row EXCEPT ![u] = w]
      /\ UNCHANGED <<issued, revoked, shown, overlapped>>
  BY DEF ActivateUser, Done, Goto, OnlyRow
<1>2. /\ w \in Rows /\ w.exists /\ w.tokenVersion = row[u].tokenVersion
      /\ w.isTotpEnabled = row[u].isTotpEnabled
  <2>1. row[u] \in Rows /\ row[u].exists
    BY RowIs DEF ActivateUser
  <2>2. QED
    BY <2>1 DEF Rows
<1> HIDE DEF w
<1>3. row[u].tokenVersion <= w.tokenVersion
  BY <1>2, RowIs
<1>4. w.isTotpEnabled => u \in shown \union overlapped
  BY <1>2 DEF Core, EnabledSecretShown
<1>5. Fits(Idle)'
  BY IdleType DEF Fits
<1>6. QED
  BY <1>1, <1>2, <1>3, <1>4, <1>5, IdleType, RowCore DEF Core, CoreTypes

\* The version grows past that of every session there is or will be.
LEMMA DeactivateCore ==
  ASSUME Core, NEW r \in Requests, NEW u \in Users, DeactivateUser(r, u)
  PROVE  Core'
<1> DEFINE w == Deactivated(u)
<1>1. /\ req' = [req EXCEPT ![r] = Idle]
      /\ row' = [row EXCEPT ![u] = w]
      /\ revoked' = revoked \union Outstanding(u)
      /\ UNCHANGED <<issued, shown, overlapped>>
  BY DEF DeactivateUser, Done, Goto
<1>2. /\ row[u].tokenVersion \in Nat /\ row[u].tokenVersion < MaxVersion
      /\ row[u].exists /\ row[u] \in Rows
  BY RowIs DEF DeactivateUser
<1>3. /\ w \in Rows /\ w.exists /\ w.isTotpEnabled = row[u].isTotpEnabled
      /\ w.tokenVersion = row[u].tokenVersion + 1
  <2>1. row[u].tokenVersion + 1 \in 0..MaxVersion
    BY <1>2
  <2>2. QED
    BY <1>2, <2>1 DEF Deactivated, Rows
<1> HIDE DEF w
<1>4. w.isTotpEnabled => u \in shown \union overlapped
  BY <1>3 DEF Core, EnabledSecretShown
<1>5. ASSUME NEW s \in Outstanding(u)
      PROVE  s \in Sessions /\ s[1] = u /\ s[2] <= row[u].tokenVersion
  <2>1. CASE s \in issued /\ s[1] = u
    BY <2>1 DEF Core, CoreTypes, Remembered
  <2>2. ASSUME NEW q \in Requests, req[q].pc = "sign", req[q].user = u, s = <<u, req[q].n>>
        PROVE  s \in Sessions /\ s[1] = u /\ s[2] <= row[u].tokenVersion
    <3>1. req[q].n \in Nat /\ req[q].n <= row[u].tokenVersion
      BY <2>2 DEF Core, CoreTypes, ReqType, Remembered
    <3>2. req[q].n \in 0..MaxVersion
      BY <1>2, <3>1
    <3>3. QED
      BY <2>2, <3>1, <3>2 DEF Sessions
  <2>3. QED
    BY <2>1, <2>2 DEF Outstanding
<1>6. row'[u] = w
  BY <1>1 DEF Core, CoreTypes
<1>7. \A s \in revoked' : s \in revoked \/ s[2] < row'[s[1]].tokenVersion
  <2> SUFFICES ASSUME NEW s \in Outstanding(u) PROVE s[2] < row'[s[1]].tokenVersion
    BY <1>1
  <2>1. s[2] \in Int
    BY <1>5 DEF Sessions
  <2>2. QED
    BY <1>2, <1>3, <1>5, <1>6, <2>1
<1>8. revoked' \subseteq Sessions
  BY <1>1, <1>5 DEF Core, CoreTypes
<1>9. row[u].tokenVersion <= w.tokenVersion
  BY <1>2, <1>3
<1>10. Fits(Idle)'
  BY IdleType DEF Fits
<1>11. QED
  BY <1>1, <1>3, <1>4, <1>7, <1>8, <1>9, <1>10, IdleType, RowCore DEF Core, CoreTypes

LEMMA SetUserRoleCore ==
  ASSUME Core, NEW r \in Requests, NEW u \in Users, NEW role \in Roles,
         SetUserRole(r, u, role)
  PROVE  Core'
<1> DEFINE pc == IF role = "admin" THEN "promote"
                 ELSE IF row[u].role = "admin" THEN "countAdmins" ELSE "demote"
<1>1. pc \in Pcs /\ pc \notin {"sign", "verified", "create", "seed"}
  BY DEF Pcs
<1>2. req' = [req EXCEPT ![r] = At(pc, u, 0)] /\ OnlyRequest
  BY DEF SetUserRole, Goto
<1> HIDE DEF pc
<1>3. QED
  BY <1>1, <1>2, PlainCore

LEMMA CountAdminsCore ==
  ASSUME Core, NEW r \in Requests, CountAdmins(r)
  PROVE  Core'
<1> DEFINE count == Cardinality(ActiveAdmins)
<1>1. count \in Nat
  <2>1. IsFiniteSet(ActiveAdmins)
    BY FS_Subset DEF ActiveAdmins, Accounts
  <2>2. QED
    BY <2>1, FS_CardinalityType
<1>2. CASE LastAdmin(count)
  BY <1>2, DoneCore DEF CountAdmins
<1>3. CASE ~LastAdmin(count)
  <2>1. req' = [req EXCEPT ![r] = At("demote", req[r].user, count)] /\ OnlyRequest
    BY <1>3 DEF CountAdmins, Goto
  <2>2. req[r].user \in Users /\ "demote" \in Pcs
    BY DEF Core, CoreTypes, ReqType, Pcs
  <2>3. QED
    BY <1>1, <2>1, <2>2, PlainCore
<1>4. QED
  BY <1>2, <1>3

LEMMA WriteRoleCore ==
  ASSUME Core, NEW r \in Requests, WriteRole(r)
  PROVE  Core'
<1> DEFINE u == req[r].user
           w == [row[u] EXCEPT !.role = IF req[r].pc = "promote" THEN "admin" ELSE "trader"]
<1>1. u \in Users /\ row[u] \in Rows
  BY DEF Core, CoreTypes, ReqType
<1>2. /\ req' = [req EXCEPT ![r] = Idle]
      /\ row' = [row EXCEPT ![u] = w]
      /\ UNCHANGED <<issued, revoked, shown, overlapped>>
  BY DEF WriteRole, Done, Goto, OnlyRow
<1>3. /\ w \in Rows /\ w.exists = row[u].exists /\ w.tokenVersion = row[u].tokenVersion
      /\ w.isTotpEnabled = row[u].isTotpEnabled
  BY <1>1 DEF Rows, Roles
<1> HIDE DEF u, w
<1>4. /\ row[u].tokenVersion <= w.tokenVersion
      /\ ~w.exists => w.tokenVersion = 0
  BY <1>1, <1>3, RowIs DEF Core, Remembered, Accounts
<1>5. w.isTotpEnabled => u \in shown \union overlapped
  BY <1>1, <1>3 DEF Core, EnabledSecretShown
<1>6. Fits(Idle)'
  BY IdleType DEF Fits
<1>7. QED
  BY <1>1, <1>2, <1>3, <1>4, <1>5, <1>6, IdleType, RowCore DEF Core, CoreTypes

-----------------------------------------------------------------------------
\* Steps on a session of some user.
LEMMA SessionCore ==
  ASSUME Core, NEW r \in Requests, NEW s \in Sessions, Refresh(r, s) \/ Authenticate(r, s)
  PROVE  Core'
<1>1. s[1] \in Users
  BY DEF Sessions
<1>2. CASE Refresh(r, s)
  BY <1>1, <1>2, LoginCore DEF Refresh
<1>3. CASE Authenticate(r, s)
  <2> DEFINE pc == IF row[s[1]].role = "admin" THEN "asAdmin" ELSE "asUser"
  <2>1. pc \in Pcs /\ pc \notin {"sign", "verified", "create", "seed"}
    BY DEF Pcs
  <2>2. req' = [req EXCEPT ![r] = At(pc, s[1], 0)] /\ OnlyRequest
    BY <1>3 DEF Authenticate, Goto
  <2> HIDE DEF pc
  <2>3. QED
    BY <1>1, <2>1, <2>2, PlainCore
<1>4. QED
  BY <1>2, <1>3

LEMMA NextCore == Core /\ [Next]_vars => Core'
<1> SUFFICES ASSUME Core, [Next]_vars PROVE Core'
  OBVIOUS
<1>1. ASSUME NEW r \in Requests, SeedDefaultAdminIfEmpty(r) PROVE Core'
  BY <1>1, PlainCore DEF SeedDefaultAdminIfEmpty, Goto, Pcs
<1>2. ASSUME NEW r \in Requests, AuditFails(r) \/ EndRequest(r) PROVE Core'
  BY <1>2, DoneCore DEF AuditFails, EndRequest
<1>3. ASSUME NEW r \in Requests, NEW u \in Users, Register(r, u) PROVE Core'
  BY <1>3, PlainCore DEF Register, Goto, Pcs
<1>4. ASSUME NEW r \in Requests, NEW u \in Users, Login(r, u) PROVE Core'
  BY <1>4, LoginCore DEF Login
<1>5. ASSUME NEW r \in Requests,
             \/ CountUsers(r) \/ CreateUser(r) \/ Sign(r) \/ Setup2fa(r) \/ Verify2fa(r)
             \/ Enable2fa(r) \/ CountAdmins(r) \/ WriteRole(r)
      PROVE  Core'
  BY <1>5, CountUsersCore, CreateUserCore, SignCore, SetupCore, VerifyCore, EnableCore,
     CountAdminsCore, WriteRoleCore
<1>6. ASSUME NEW r \in Requests, NEW u \in Users, ActivateUser(r, u) \/ DeactivateUser(r, u)
      PROVE  Core'
  BY <1>6, ActivateCore, DeactivateCore
<1>7. CASE UNCHANGED vars
  BY <1>7 DEF vars, Core, CoreTypes, Remembered, EnabledSecretShown, Accounts
<1>8. QED
  BY <1>1, <1>2, <1>3, <1>4, <1>5, <1>6, <1>7, SetUserRoleCore, SessionCore DEF Next

-----------------------------------------------------------------------------
(* The roles.                                                              *)
RolesInv ==
  /\ entitled \subseteq Users
  /\ unguarded \in BOOLEAN
  /\ RolesRemembered
  /\ AdminsMadeByAdmins
  /\ AdministratorLeft

\* RolesRemembered, of one request.
FitsRoles(n) ==
  /\ n.pc \in {"countAdmins", "promote", "demote"} => n.user \in Accounts
  /\ n.pc \in {"create", "seed"} /\ n.n = 0 => Accounts = {} \/ n.user \in Accounts \union entitled
  /\ n.pc = "demote" =>
       \/ unguarded
       \/ n.n = 0 /\ n.user \notin ActiveAdmins
       \/ n.n >= 2 /\ n.n = Cardinality(ActiveAdmins)

LEMMA Split == IInv <=> Core /\ RolesInv
BY DEF IInv, TypeOK, Core, CoreTypes, RolesInv

LEMMA AdminsFinite ==
  /\ IsFiniteSet(Accounts) /\ Cardinality(Accounts) \in Nat
  /\ IsFiniteSet(ActiveAdmins) /\ Cardinality(ActiveAdmins) \in Nat
  /\ Cardinality(Accounts) = 0 <=> Accounts = {}
<1>1. Accounts \subseteq Users /\ ActiveAdmins \subseteq Users
  BY DEF Accounts, ActiveAdmins
<1>2. IsFiniteSet(Accounts) /\ IsFiniteSet(ActiveAdmins)
  BY <1>1, FS_Subset
<1>3. QED
  BY <1>2, FS_CardinalityType, FS_EmptySet

\* Steps that change neither roles nor accounts.
LEMMA RolesKept ==
  ASSUME Core, RolesInv, NEW r \in Requests, NEW n \in ReqType, req' = [req EXCEPT ![r] = n],
         \A u \in Users : /\ row'[u].exists = row[u].exists
                          /\ row'[u].role = row[u].role
                          /\ row'[u].isActive = row[u].isActive,
         UNCHANGED roleVars, FitsRoles(n)
  PROVE  RolesInv'
<1>1. UNCHANGED <<entitled, unguarded>>
  BY DEF roleVars
<1>2. Accounts' = Accounts
  BY DEF Accounts
<1>3. ActiveAdmins' = ActiveAdmins
  BY <1>2 DEF ActiveAdmins, Accounts
<1>4. ASSUME NEW q \in Requests PROVE FitsRoles(req[q])'
  <2>1. FitsRoles(req[q])
    BY DEF RolesInv, RolesRemembered, FitsRoles
  <2>2. req'[q] = IF q = r THEN n ELSE req[q]
    BY DEF Core, CoreTypes
  <2>3. FitsRoles(req'[q])
    BY <2>1, <2>2
  <2>4. QED
    BY <1>1, <1>2, <1>3, <2>3 DEF FitsRoles
<1>5. RolesRemembered'
  BY <1>4 DEF RolesRemembered, FitsRoles
<1>6. AdminsMadeByAdmins' /\ AdministratorLeft'
  BY <1>1, <1>2, <1>3 DEF RolesInv, AdminsMadeByAdmins, AdministratorLeft, Accounts
<1>7. QED
  BY <1>1, <1>5, <1>6 DEF RolesInv

\* Steps that do, and leave the request with nothing to remember of them.
LEMMA RolesChanged ==
  ASSUME Core, RolesInv, NEW r \in Requests, NEW n \in ReqType, req' = [req EXCEPT ![r] = n],
         n.pc \in {"idle", "sign"},
         Accounts \subseteq Accounts',
         Accounts = {} => Founders \subseteq entitled',
         entitled \subseteq entitled' \union Accounts',
         entitled' \subseteq Users,
         unguarded' \in BOOLEAN, unguarded \/ Crossed(r) => unguarded',
         AdminsMadeByAdmins', AdministratorLeft'
  PROVE  RolesInv'
<1>1. ASSUME NEW q \in Requests PROVE FitsRoles(req[q])'
  <2>1. CASE q = r
    <3>1. req'[q] = n
      BY <2>1 DEF Core, CoreTypes
    <3>2. QED
      BY <3>1 DEF FitsRoles
  <2>2. CASE q # r
    <3>1. req'[q] = req[q]
      BY <2>2 DEF Core, CoreTypes
    <3>2. FitsRoles(req[q])
      BY DEF RolesInv, RolesRemembered, FitsRoles
    <3>3. ASSUME req[q].pc \in {"create", "seed"}, req[q].n = 0
          PROVE  req[q].user \in Accounts' \union entitled'
      <4>1. CASE Accounts = {}
        <5>1. req[q].user \in Founders
          BY <3>3 DEF Founders, Founding
        <5>2. QED
          BY <4>1, <5>1
      <4>2. CASE Accounts # {}
        BY <3>2, <3>3, <4>2 DEF FitsRoles
      <4>3. QED
        BY <4>1, <4>2
    <3>4. ASSUME req[q].pc = "demote", ~unguarded'
          PROVE  ~unguarded /\ ActiveAdmins' = ActiveAdmins
      BY <2>2, <3>4 DEF Crossed
    <3>5. QED
      BY <3>1, <3>2, <3>3, <3>4 DEF FitsRoles
  <2>3. QED
    BY <2>1, <2>2
<1>2. RolesRemembered'
  BY <1>1 DEF RolesRemembered, FitsRoles
<1>3. QED
  BY <1>2 DEF RolesInv

\* What the history says of a step that leaves the roles as they are.
LEMMA OnlyRequestRoles ==
  ASSUME Core, RolesInv, NEW r \in Requests, NEW pc \in Pcs, NEW u \in Users, NEW k \in Nat,
         req' = [req EXCEPT ![r] = At(pc, u, k)], OnlyRequest,
         pc \in {"countAdmins", "promote", "demote"} => u \in Accounts,
         pc \in {"create", "seed"} /\ k = 0 => Accounts = {},
         pc = "demote" => \/ unguarded
                          \/ k = 0 /\ u \notin ActiveAdmins
                          \/ k >= 2 /\ k = Cardinality(ActiveAdmins)
  PROVE  RolesInv'
<1> DEFINE n == At(pc, u, k)
<1>1. n \in ReqType /\ n.pc = pc /\ n.user = u /\ n.n = k
  BY AtType
<1>2. UNCHANGED roleVars /\ row' = row
  BY DEF OnlyRequest
<1> HIDE DEF n
<1>3. FitsRoles(n)
  BY <1>1 DEF FitsRoles
<1>4. QED
  BY <1>1, <1>2, <1>3, RolesKept DEF n

\* Steps of one request that touch nothing of the roles and end it.
LEMMA DoneRoles ==
  ASSUME Core, RolesInv, NEW r \in Requests, Done(r), UNCHANGED roleVars,
         \A u \in Users : /\ row'[u].exists = row[u].exists
                          /\ row'[u].role = row[u].role
                          /\ row'[u].isActive = row[u].isActive
  PROVE  RolesInv'
<1>1. FitsRoles(Idle)
  BY IdleType DEF FitsRoles
<1>2. QED
  BY <1>1, IdleType, RolesKept DEF Done, Goto

LEMMA EnrolmentRoles ==
  ASSUME Core, RolesInv, NEW r \in Requests, Setup2fa(r) \/ Enable2fa(r)
  PROVE  RolesInv'
<1> DEFINE u == req[r].user
<1>1. u \in Users /\ row[u] \in Rows /\ row \in [Users -> Rows]
  BY DEF Core, CoreTypes, ReqType
<1>2. Done(r) /\ UNCHANGED roleVars
  BY DEF Setup2fa, Enable2fa
<1>3. \A v \in Users : /\ row'[v].exists = row[v].exists
                       /\ row'[v].role = row[v].role
                       /\ row'[v].isActive = row[v].isActive
  <2>1. CASE Setup2fa(r)
    BY <1>1, <2>1 DEF Setup2fa, Enrolled, Rows
  <2>2. CASE Enable2fa(r)
    BY <1>1, <2>2 DEF Enable2fa, Rows
  <2>3. QED
    BY <2>1, <2>2
<1>4. QED
  BY <1>2, <1>3, DoneRoles

LEMMA VerifyRoles ==
  ASSUME Core, RolesInv, NEW r \in Requests, Verify2fa(r)
  PROVE  RolesInv'
<1> DEFINE n == At("verified", req[r].user, 0)
<1>1. n \in ReqType /\ n.pc = "verified"
  BY AtType DEF Core, CoreTypes, ReqType, Pcs
<1>2. req' = [req EXCEPT ![r] = n] /\ UNCHANGED roleVars /\ row' = row
  BY DEF Verify2fa, Goto
<1> HIDE DEF n
<1>3. FitsRoles(n)
  BY <1>1 DEF FitsRoles
<1>4. QED
  BY <1>1, <1>2, <1>3, RolesKept

-----------------------------------------------------------------------------
(* Steps that change roles or accounts.                                    *)

\* The first account is an administrator's; later ones of founders are entitled.
LEMMA CreateUserRoles ==
  ASSUME Core, RolesInv, NEW r \in Requests, CreateUser(r)
  PROVE  RolesInv'
<1> DEFINE u == req[r].user
           w == NewRow(FirstRole(req[r].n))
<1>1. /\ req[r] \in ReqType /\ u \in Users /\ req[r].n \in Nat
      /\ req[r].pc \in {"create", "seed"}
      /\ row \in [Users -> Rows]
  BY DEF CreateUser, Core, CoreTypes, ReqType
<1>2. /\ entitled' = entitled \union (IF Accounts = {} THEN Founders ELSE {})
      /\ unguarded' = (unguarded \/ Crossed(r))
  BY DEF CreateUser
<1>3. Founders \subseteq Users
  BY DEF Founders, Founding, Core, CoreTypes, ReqType
<1>4. CASE row[u].exists
  <2>1. Done(r) /\ row' = row
    BY <1>4 DEF CreateUser
  <2>2. Accounts # {}
    BY <1>1, <1>4 DEF Accounts
  <2>3. UNCHANGED roleVars
    BY <1>2, <2>1, <2>2 DEF roleVars, Crossed, ActiveAdmins, Accounts, RolesInv
  <2>4. QED
    BY <2>1, <2>3, DoneRoles
<1>5. CASE ~row[u].exists
  <2>1. PICK n \in {Idle, At("sign", u, 0)} : req' = [req EXCEPT ![r] = n]
    BY <1>5 DEF CreateUser, Done, Goto
  <2>2. n \in ReqType /\ n.pc \in {"idle", "sign"}
    BY <1>1, IdleType, AtType DEF Pcs
  <2>3. FirstRole(req[r].n) \in Roles
    BY DEF FirstRole, Roles
  <2>4. w.exists /\ w.isActive /\ w.role = FirstRole(req[r].n)
    BY <2>3, NewRowType
  <2>5. row' = [row EXCEPT ![u] = w]
    BY <1>5 DEF CreateUser
  <2> HIDE DEF w
  <2>6. \A v \in Users : row'[v] = IF v = u THEN w ELSE row[v]
    BY <1>1, <2>5
  <2>7. Accounts' = Accounts \union {u} /\ u \notin Accounts
    BY <1>1, <1>5, <2>4, <2>6 DEF Accounts
  <2>8. w.role = "admin" => req[r].n = 0
    BY <2>4 DEF FirstRole
  <2>9. Accounts = {} => w.role = "admin"
    BY <1>1, <2>4 DEF Core, Remembered, FirstRole
  <2>10. req[r].n = 0 => u \in entitled'
    <3>1. CASE Accounts = {}
      BY <1>1, <1>2, <3>1 DEF Founders, Founding
    <3>2. CASE Accounts # {}
      BY <1>1, <1>2, <2>7, <3>2 DEF RolesInv, RolesRemembered
    <3>3. QED
      BY <3>1, <3>2
  <2>11. AdminsMadeByAdmins'
    <3> SUFFICES ASSUME NEW v \in Accounts', row'[v].role = "admin" PROVE v \in entitled'
      BY DEF AdminsMadeByAdmins
    <3>1. CASE v = u
      BY <1>1, <2>6, <2>8, <2>10, <3>1
    <3>2. CASE v # u
      <4>1. v \in Accounts /\ row[v].role = "admin" /\ entitled \subseteq entitled'
        BY <1>2, <2>6, <2>7, <3>2 DEF Accounts
      <4>2. QED
        BY <4>1 DEF RolesInv, AdminsMadeByAdmins
    <3>3. QED
      BY <3>1, <3>2
  <2>12. AdministratorLeft'
    <3>1. CASE Accounts = {}
      <4>1. u \in ActiveAdmins'
        BY <1>1, <2>4, <2>6, <2>7, <2>9, <3>1 DEF ActiveAdmins
      <4>2. QED
        BY <4>1 DEF AdministratorLeft
    <3>2. CASE Accounts # {}
      <4>1. ActiveAdmins \subseteq ActiveAdmins'
        BY <2>6, <2>7 DEF ActiveAdmins, Accounts
      <4>2. QED
        BY <1>2, <3>2, <4>1 DEF AdministratorLeft, RolesInv
    <3>3. QED
      BY <3>1, <3>2
  <2>13. unguarded' \in BOOLEAN
    BY <1>2 DEF RolesInv
  <2>14. entitled' \subseteq Users /\ entitled \subseteq entitled'
    BY <1>2, <1>3 DEF RolesInv
  <2>15. QED
    BY <1>2, <2>1, <2>2, <2>7, <2>11, <2>12, <2>13, <2>14, RolesChanged
<1>6. QED
  BY <1>4, <1>5

\* An activation can only add an administrator; the roles stay.
LEMMA ActivateRoles ==
  ASSUME Core, RolesInv, NEW r \in Requests, NEW u \in Users, ActivateUser(r, u)
  PROVE  RolesInv'
<1>1. /\ req' = [req EXCEPT ![r] = Idle]
      /\ unguarded' = (unguarded \/ Crossed(r)) /\ entitled' = entitled
  BY DEF ActivateUser, Done, Goto, SameRoles
<1>2. \A v \in Users : /\ row'[v].exists = row[v].exists
                       /\ row'[v].role = row[v].role
                       /\ row[v].isActive => row'[v].isActive
  BY DEF ActivateUser, Core, CoreTypes, Rows
<1>3. Accounts' = Accounts /\ ActiveAdmins \subseteq ActiveAdmins'
  BY <1>2 DEF Accounts, ActiveAdmins
<1>4. AdminsMadeByAdmins'
  BY <1>1, <1>2, <1>3 DEF RolesInv, AdminsMadeByAdmins, Accounts
<1>5. AdministratorLeft'
  BY <1>1, <1>3 DEF RolesInv, AdministratorLeft
<1>6. /\ Accounts = {} => Founders \subseteq entitled'
      /\ unguarded' \in BOOLEAN
  BY <1>1 DEF RolesInv, ActivateUser, Accounts
<1>7. QED
  BY <1>1, <1>3, <1>4, <1>5, <1>6, IdleType, RolesChanged DEF RolesInv

\* A deactivation leaves an administrator or takes the last one unguarded.
LEMMA DeactivateRoles ==
  ASSUME Core, RolesInv, NEW r \in Requests, NEW u \in Users, DeactivateUser(r, u)
  PROVE  RolesInv'
<1>1. /\ req' = [req EXCEPT ![r] = Idle]
      /\ unguarded' = (unguarded \/ Crossed(r) \/ ActiveAdmins = {u})
      /\ entitled' = entitled
  BY DEF DeactivateUser, Done, Goto
<1>2. \A v \in Users : /\ row'[v].exists = row[v].exists
                       /\ row'[v].role = row[v].role
                       /\ v # u => row'[v].isActive = row[v].isActive
  BY DEF DeactivateUser, Deactivated, Core, CoreTypes, Rows
<1>3. Accounts' = Accounts /\ ActiveAdmins \ {u} \subseteq ActiveAdmins'
  BY <1>2 DEF Accounts, ActiveAdmins
<1>4. AdminsMadeByAdmins'
  BY <1>1, <1>2, <1>3 DEF RolesInv, AdminsMadeByAdmins, Accounts
<1>5. AdministratorLeft'
  BY <1>1, <1>3 DEF RolesInv, AdministratorLeft
<1>6. /\ Accounts = {} => Founders \subseteq entitled'
      /\ unguarded' \in BOOLEAN
  BY <1>1 DEF RolesInv, DeactivateUser, Accounts
<1>7. QED
  BY <1>1, <1>3, <1>4, <1>5, <1>6, IdleType, RolesChanged DEF RolesInv

\* A demotion that counted is still right about the number, or is unguarded.
LEMMA WriteRoleRoles ==
  ASSUME Core, RolesInv, NEW r \in Requests, WriteRole(r)
  PROVE  RolesInv'
<1> DEFINE u == req[r].user
           role == IF req[r].pc = "promote" THEN "admin" ELSE "trader"
<1>1. u \in Accounts /\ u \in Users
  BY DEF WriteRole, RolesInv, RolesRemembered, Accounts
<1>2. /\ req' = [req EXCEPT ![r] = Idle]
      /\ unguarded' = (unguarded \/ Crossed(r))
      /\ entitled' = IF req[r].pc = "promote" THEN entitled \union {u} ELSE entitled \ {u}
  BY DEF WriteRole, Done, Goto
<1>3. \A v \in Users : /\ row'[v].exists = row[v].exists
                       /\ row'[v].role = IF v = u THEN role ELSE row[v].role
                       /\ row'[v].isActive = row[v].isActive
  BY DEF WriteRole, Core, CoreTypes, Rows
<1>4. Accounts' = Accounts
  BY <1>3 DEF Accounts
<1>5. ActiveAdmins \ {u} \subseteq ActiveAdmins'
  BY <1>3, <1>4 DEF Accounts, ActiveAdmins
<1>6. AdminsMadeByAdmins'
  <2> SUFFICES ASSUME NEW v \in Accounts, row'[v].role = "admin" PROVE v \in entitled'
    BY <1>4 DEF AdminsMadeByAdmins
  <2>1. v \in Users
    BY DEF Accounts
  <2>2. QED
    BY <1>2, <1>3, <2>1 DEF RolesInv, AdminsMadeByAdmins
<1>7. CASE req[r].pc = "promote"
  <2>1. ActiveAdmins \subseteq ActiveAdmins'
    BY <1>3, <1>4, <1>7 DEF ActiveAdmins, Accounts
  <2>2. AdministratorLeft'
    BY <1>2, <1>4, <2>1 DEF RolesInv, AdministratorLeft
  <2>3. /\ entitled \subseteq entitled' /\ entitled' \subseteq Users
        /\ unguarded' \in BOOLEAN
    BY <1>1, <1>2, <1>7 DEF RolesInv
  <2>4. QED
    BY <1>1, <1>2, <1>4, <1>6, <2>2, <2>3, IdleType, RolesChanged
<1>8. CASE req[r].pc = "demote"
  <2>1. ASSUME ~unguarded PROVE ActiveAdmins' # {}
    <3>1. ActiveAdmins # {}
      BY <1>1, <2>1 DEF RolesInv, AdministratorLeft
    <3>2. CASE u \notin ActiveAdmins
      BY <1>5, <3>1, <3>2
    <3>3. CASE u \in ActiveAdmins
      <4>1. Cardinality(ActiveAdmins) >= 2
        BY <1>8, <2>1, <3>3 DEF RolesInv, RolesRemembered
      <4>2. ~(ActiveAdmins \subseteq {u})
        <5> SUFFICES ASSUME ActiveAdmins \subseteq {u} PROVE FALSE
          OBVIOUS
        <5>1. Cardinality(ActiveAdmins) <= Cardinality({u}) /\ Cardinality({u}) = 1
          BY FS_Singleton, FS_Subset
        <5>2. QED
          BY <4>1, <5>1, AdminsFinite
      <4>3. QED
        BY <1>5, <4>2
    <3>4. QED
      BY <3>2, <3>3
  <2>2. AdministratorLeft'
    BY <1>2, <2>1 DEF AdministratorLeft
  <2>3. /\ entitled \subseteq entitled' \union Accounts' /\ entitled' \subseteq Users
        /\ unguarded' \in BOOLEAN
    BY <1>1, <1>2, <1>4, <1>8 DEF RolesInv
  <2>4. QED
    BY <1>1, <1>2, <1>4, <1>6, <2>2, <2>3, IdleType, RolesChanged
<1>9. QED
  BY <1>7, <1>8 DEF WriteRole

LEMMA CountUsersRoles ==
  ASSUME Core, RolesInv, NEW r \in Requests, CountUsers(r)
  PROVE  RolesInv'
<1>1. req[r].user \in Users /\ "create" \in Pcs
  BY DEF Core, CoreTypes, ReqType, Pcs
<1>2. req' = [req EXCEPT ![r] = At("create", req[r].user, Cardinality(Accounts))] /\ OnlyRequest
  BY DEF CountUsers, Goto
<1>3. QED
  BY <1>1, <1>2, AdminsFinite, OnlyRequestRoles

LEMMA CountAdminsRoles ==
  ASSUME Core, RolesInv, NEW r \in Requests, CountAdmins(r)
  PROVE  RolesInv'
<1> DEFINE count == Cardinality(ActiveAdmins)
<1>1. count \in Nat
  BY AdminsFinite
<1>2. CASE LastAdmin(count)
  <2>1. Done(r) /\ OnlyRequest
    BY <1>2 DEF CountAdmins
  <2>2. QED
    BY <2>1, DoneRoles DEF OnlyRequest
<1>3. CASE ~LastAdmin(count)
  <2>1. req' = [req EXCEPT ![r] = At("demote", req[r].user, count)] /\ OnlyRequest
    BY <1>3 DEF CountAdmins, Goto
  <2>2. req[r].user \in Users /\ "demote" \in Pcs /\ req[r].user \in Accounts
    BY DEF CountAdmins, Core, CoreTypes, ReqType, Pcs, RolesInv, RolesRemembered
  <2> HIDE DEF count
  <2>3. count >= 2
    BY <1>1, <1>3 DEF LastAdmin
  <2>4. QED
    BY <1>1, <2>1, <2>2, <2>3, OnlyRequestRoles DEF count
<1>4. QED
  BY <1>2, <1>3

LEMMA SetUserRoleRoles ==
  ASSUME Core, RolesInv, NEW r \in Requests, NEW u \in Users, NEW role \in Roles,
         SetUserRole(r, u, role)
  PROVE  RolesInv'
<1> DEFINE pc == IF role = "admin" THEN "promote"
                 ELSE IF row[u].role = "admin" THEN "countAdmins" ELSE "demote"
<1>1. pc \in Pcs /\ pc \notin {"create", "seed"} /\ u \in Accounts
  BY DEF Pcs, SetUserRole, Accounts
<1>2. req' = [req EXCEPT ![r] = At(pc, u, 0)] /\ OnlyRequest
  BY DEF SetUserRole, Goto
<1>3. pc = "demote" => u \notin ActiveAdmins
  BY DEF ActiveAdmins
<1> HIDE DEF pc
<1>4. QED
  BY <1>1, <1>2, <1>3, OnlyRequestRoles

\* The other steps go on to a state that says nothing of roles.
LEMMA OtherRoles ==
  ASSUME Core, RolesInv, NEW r \in Requests, NEW pc \in Pcs, NEW u \in Users, NEW k \in Nat,
         Goto(r, At(pc, u, k)), OnlyRequest,
         pc \in {"count", "sign", "asUser", "asAdmin"} \/ (pc = "seed" /\ Accounts = {})
  PROVE  RolesInv'
BY OnlyRequestRoles DEF Goto

LEMMA NextRoles == Core /\ RolesInv /\ [Next]_vars => RolesInv'
<1> SUFFICES ASSUME Core, RolesInv, [Next]_vars PROVE RolesInv'
  OBVIOUS
<1>1. ASSUME NEW r \in Requests, SeedDefaultAdminIfEmpty(r) PROVE RolesInv'
  BY <1>1, OtherRoles DEF SeedDefaultAdminIfEmpty, Pcs
<1>2. ASSUME NEW r \in Requests, AuditFails(r) \/ EndRequest(r) \/ Sign(r) PROVE RolesInv'
  <2>1. Done(r) /\ UNCHANGED roleVars /\ row' = row
    BY <1>2 DEF AuditFails, EndRequest, Sign, OnlyRequest
  <2>2. QED
    BY <2>1, DoneRoles
<1>3. ASSUME NEW r \in Requests, NEW u \in Users, Register(r, u) PROVE RolesInv'
  BY <1>3, OtherRoles DEF Register, Pcs
<1>4. ASSUME NEW r \in Requests, NEW u \in Users, Login(r, u) PROVE RolesInv'
  <2>1. row[u].tokenVersion \in Nat /\ "sign" \in Pcs
    BY RowIs DEF Pcs
  <2>2. QED
    BY <1>4, <2>1, OtherRoles DEF Login
<1>5. ASSUME NEW r \in Requests,
             \/ CountUsers(r) \/ CreateUser(r) \/ Setup2fa(r) \/ Verify2fa(r)
             \/ Enable2fa(r) \/ CountAdmins(r) \/ WriteRole(r)
      PROVE  RolesInv'
  BY <1>5, CountUsersRoles, CreateUserRoles, EnrolmentRoles, VerifyRoles, CountAdminsRoles,
     WriteRoleRoles
<1>6. ASSUME NEW r \in Requests, NEW u \in Users, ActivateUser(r, u) \/ DeactivateUser(r, u)
      PROVE  RolesInv'
  BY <1>6, ActivateRoles, DeactivateRoles
<1>7. ASSUME NEW r \in Requests, NEW s \in Sessions, Refresh(r, s) \/ Authenticate(r, s)
      PROVE  RolesInv'
  <2>1. s[1] \in Users
    BY DEF Sessions
  <2>2. CASE Refresh(r, s)
    <3>1. row[s[1]].tokenVersion \in Nat /\ "sign" \in Pcs
      BY <2>1, RowIs DEF Pcs
    <3>2. QED
      BY <2>1, <2>2, <3>1, OtherRoles DEF Refresh
  <2>3. CASE Authenticate(r, s)
    <3> DEFINE pc == IF row[s[1]].role = "admin" THEN "asAdmin" ELSE "asUser"
    <3>1. pc \in Pcs /\ pc \in {"asUser", "asAdmin"}
      BY DEF Pcs
    <3>2. Goto(r, At(pc, s[1], 0)) /\ OnlyRequest
      BY <2>3 DEF Authenticate
    <3> HIDE DEF pc
    <3>3. QED
      BY <2>1, <3>1, <3>2, OtherRoles
  <2>4. QED
    BY <1>7, <2>2, <2>3
<1>8. CASE UNCHANGED vars
  BY <1>8 DEF vars, RolesInv, RolesRemembered, AdminsMadeByAdmins, AdministratorLeft,
     Accounts, ActiveAdmins
<1>9. QED
  BY <1>1, <1>2, <1>3, <1>4, <1>5, <1>6, <1>7, <1>8, SetUserRoleRoles DEF Next

LEMMA InitRoles == Init => RolesInv
<1> SUFFICES ASSUME Init PROVE RolesInv
  OBVIOUS
<1>1. Accounts = {}
  BY AbsentType DEF Init, Accounts
<1>2. RolesRemembered
  BY IdleType DEF Init, RolesRemembered
<1>3. QED
  BY <1>1, <1>2 DEF Init, RolesInv, AdminsMadeByAdmins, AdministratorLeft

-----------------------------------------------------------------------------
(* Every reachable state satisfies the inductive invariant.                *)
THEOREM Invariance == Spec => []IInv
<1>1. Init => Core /\ RolesInv
  BY InitCore, InitRoles
<1>2. Core /\ RolesInv /\ [Next]_vars => (Core /\ RolesInv)'
  BY NextCore, NextRoles
<1>3. QED
  BY <1>1, <1>2, Split, PTL DEF Spec

(* deactivateUser raises the version every session is checked against: no   *)
(* session it found, nor one a request signs later for the row it had read, *)
(* is valid again.                                                          *)
THEOREM Revocation == Spec => []RevokedStayRevoked
<1>1. IInv => RevokedStayRevoked
  <2> SUFFICES ASSUME IInv, NEW s \in revoked PROVE ~Valid(s)
    BY DEF RevokedStayRevoked
  <2>1. s[2] < row[s[1]].tokenVersion /\ s[1] \in Users /\ s[2] \in Int
    BY DEF IInv, TypeOK, Remembered, Sessions
  <2>2. row[s[1]].tokenVersion \in Int
    BY <2>1, RowIs, Split
  <2>3. QED
    BY <2>1, <2>2 DEF Valid
<1>2. QED
  BY <1>1, Invariance, PTL

(* Two-factor authentication is on only for a secret whose codes the user   *)
(* has given, unless setup and verification overlapped.                     *)
THEOREM TwoFactor == Spec => []EnabledSecretShown
<1>1. IInv => EnabledSecretShown
  BY DEF IInv
<1>2. QED
  BY <1>1, Invariance, PTL

(* Whoever is an administrator was made one by an administrator, or was     *)
(* registering or seeded when the first account was created, however        *)
(* registrations, role changes and deactivations interleave.                *)
THEOREM Administrators == Spec => []AdminsMadeByAdmins
<1>1. IInv => AdminsMadeByAdmins
  BY DEF IInv
<1>2. QED
  BY <1>1, Invariance, PTL

(* From the first account on there is an active administrator, unless the   *)
(* last one was deactivated or the administrators changed between the count *)
(* and the write of a demotion.                                             *)
THEOREM AdministratorRemains == Spec => []AdministratorLeft
<1>1. IInv => AdministratorLeft
  BY DEF IInv
<1>2. QED
  BY <1>1, Invariance, PTL
=============================================================================
