----------------------------- MODULE WalletKeys -----------------------------
(***************************************************************************)
(* The wallets of one user and the key that encrypts them.  A request or a *)
(* worker that needs the key creates it if the user has none; wallets of   *)
(* an older version are encrypted with the key of the deployment and are   *)
(* migrated by whoever comes across them: an execution cycle or the        *)
(* re-encrypt script.  Every awaited query is a step.                      *)
(*                                                                         *)
(* A payload is represented by the key it was encrypted with: decryption   *)
(* succeeds with that key and with no other.                               *)
(***************************************************************************)
EXTENDS Naturals, FiniteSets

CONSTANTS
  Wallets,      \* rows of the wallets table, each with its address
  Twins,        \* pairs of rows for one address: a wallet imported again
  Requests,     \* concurrent API requests
  Migrators,    \* execution cycles and runs of the script with --fix
  Keys,         \* keys that randomBytes can return
  Legacy,       \* ENCRYPTION_MASTER_KEY
  NoKey,
  LegacyKnown   \* is ENCRYPTION_MASTER_KEY set?

Actors == Requests \union Migrators

ASSUME WalletKeysOK ==
  /\ Twins \subseteq Wallets \X Wallets
  /\ Requests \intersect Migrators = {}
  /\ Legacy \notin Keys /\ NoKey \notin Keys \union {Legacy}
  /\ LegacyKnown \in BOOLEAN

VARIABLES
  userKey,      \* encryptionKey of the user row
  wallet,       \* the wallets table
  member,       \* wallets in a group
  used,         \* wallets with transactions
  actor,        \* what each request or migrator does next, and the key it has in hand
  forked        \* history: was a key stored while another actor had one to store?

vars == <<userKey, wallet, member, used, actor, forked>>

Payloads == Keys \union {Legacy}
NoWallet == [st |-> "none", key |-> Legacy]
Live == {w \in Wallets : wallet[w].st = "live"}
Ops == {"none", "import", "fix", "group", "delete", "migrate"}
Pcs == {"idle", "key", "mint", "work"}
Idle == [pc |-> "idle", op |-> "none", key |-> NoKey, todo |-> {}]

\* Wallets of the older version, of a user without a key.
Init ==
  /\ userKey = NoKey
  /\ wallet \in [Wallets -> {NoWallet, [st |-> "live", key |-> Legacy]}]
  /\ \A pair \in Twins : wallet[pair[1]].st = "none" \/ wallet[pair[2]].st = "none"
  /\ member = {} /\ used = {}
  /\ actor = [a \in Actors |-> Idle]
  /\ forked = FALSE

Goto(a, state) == actor' = [actor EXCEPT ![a] = state]
Done(a) == Goto(a, Idle)
OnlyActor == UNCHANGED <<userKey, wallet, member, used, forked>>

-----------------------------------------------------------------------------
(* getOrCreateUserEncryptionKey.                                           *)

\* Mutant of KeyInHand: a new key even if the user has one.
KeyInHandAlways == NoKey

KeyInHand == userKey

\* randomBytes returns none of these.
InUse == {userKey} \union {wallet[w].key : w \in Wallets} \union {actor[a].key : a \in Actors}

ReadKey(a) ==
  /\ actor[a].pc = "key"
  /\ IF KeyInHand # NoKey
     THEN Goto(a, [actor[a] EXCEPT !.pc = "work", !.key = userKey])
     ELSE \E k \in Keys \ InUse : Goto(a, [actor[a] EXCEPT !.pc = "mint", !.key = k])
  /\ OnlyActor

\* The update does not look at what it replaces.
SaveKey(a) ==
  /\ actor[a].pc = "mint"
  /\ userKey' = actor[a].key
  /\ forked' = (forked \/ \E b \in Actors \ {a} : actor[b].pc = "mint")
  /\ Goto(a, [actor[a] EXCEPT !.pc = "work"])
  /\ UNCHANGED <<wallet, member, used>>

-----------------------------------------------------------------------------
(* Requests: importWallet, the debug route that re-encrypts a wallet,      *)
(* createGroup and deleteWallet.  Each begins with a read.                 *)

SameAddress(w) == {w} \union {v \in Wallets : <<v, w>> \in Twins \/ <<w, v>> \in Twins}

Begin(r, op, w) ==
  /\ actor[r].pc = "idle"
  /\ IF op = "import" THEN wallet[w].st = "none" ELSE w \in Live
  /\ op = "delete" => w \notin used
  /\ Goto(r, [Idle EXCEPT !.pc = IF op \in {"import", "fix"} THEN "key" ELSE "work",
                          !.op = op, !.todo = {<<w, Legacy>>}])
  /\ OnlyActor

\* The unique constraint refuses a second row for an address.
Import(w, k) ==
  IF wallet[w].st = "none" /\ SameAddress(w) \intersect Live = {}
  THEN wallet' = [wallet EXCEPT ![w] = [st |-> "live", key |-> k]]
  ELSE UNCHANGED wallet

\* Mutant of ReEncrypt: the key of the deployment is used as before.
ReEncryptLegacy(w, k) ==
  IF w \in Live THEN wallet' = [wallet EXCEPT ![w].key = Legacy] ELSE UNCHANGED wallet

ReEncrypt(w, k) ==
  IF w \in Live THEN wallet' = [wallet EXCEPT ![w] = [@ EXCEPT !.key = k]] ELSE UNCHANGED wallet

\* Mutant of Removable: the rows that refer to a wallet do not keep it.
RemovableAny == Live

\* The foreign keys refuse to delete a wallet with transactions.
Removable == Live \ used

\* They refuse a group with a wallet that is gone, too.
Request(r) ==
  /\ actor[r].pc = "work"
  /\ \E w \in Wallets :
       /\ actor[r].todo = {<<w, Legacy>>}
       /\ \/ actor[r].op = "import" /\ Import(w, actor[r].key) /\ UNCHANGED member
          \/ actor[r].op = "fix" /\ ReEncrypt(w, actor[r].key) /\ UNCHANGED member
          \/ /\ actor[r].op = "group"
             /\ member' = IF w \in Live THEN member \union {w} ELSE member
             /\ UNCHANGED wallet
          \/ /\ actor[r].op = "delete"
             /\ IF w \in Removable
                THEN /\ wallet' = [wallet EXCEPT ![w] = [@ EXCEPT !.st = "deleted"]]
                     /\ member' = member \ {w}
                ELSE UNCHANGED <<wallet, member>>
  /\ Done(r)
  /\ UNCHANGED <<userKey, used, forked>>

-----------------------------------------------------------------------------
(* Migration, in a cycle of a bot or in the script.                        *)

\* The wallets are read before the key: all of a group, or all of the user.
LoadWallets(m) ==
  /\ actor[m].pc = "idle"
  /\ Live # {}
  /\ \E some \in {member, Live} :
       Goto(m, [Idle EXCEPT !.pc = "key", !.op = "migrate",
                            !.todo = {<<w, wallet[w].key>> : w \in some}])
  /\ OnlyActor

\* Mutant of Migrated: encrypted again with the key that decrypted it.
MigratedToItself(payload, k) == payload

\* autoMigrateWalletEncryption, on the payload that was read.
Migrated(payload, k) == IF payload = Legacy /\ LegacyKnown THEN k ELSE payload

MigrateWallet(m) ==
  /\ actor[m].op = "migrate" /\ actor[m].pc = "work"
  /\ \E item \in actor[m].todo :
       LET w == item[1]
           k == Migrated(item[2], actor[m].key) IN
         /\ IF k # item[2] /\ w \in Live
            THEN wallet' = [wallet EXCEPT ![w] = [@ EXCEPT !.key = k]]
            ELSE UNCHANGED wallet
         /\ Goto(m, [actor[m] EXCEPT !.todo = @ \ {item}])
  /\ UNCHANGED <<userKey, member, used, forked>>

EndMigration(m) ==
  /\ actor[m].op = "migrate" /\ actor[m].pc = "work"
  /\ actor[m].todo = {}
  /\ Done(m)
  /\ OnlyActor

\* A cycle records a transaction of a wallet.
Trade(w) ==
  /\ w \in Live \ used
  /\ used' = used \union {w}
  /\ UNCHANGED <<userKey, wallet, member, actor, forked>>

\* A process dies between two steps.
Crash(a) ==
  /\ actor[a].pc # "idle"
  /\ Done(a)
  /\ OnlyActor

-----------------------------------------------------------------------------
MigratorStep(m) ==
  LoadWallets(m) \/ ReadKey(m) \/ SaveKey(m) \/ MigrateWallet(m) \/ EndMigration(m)

RequestStep(r) ==
  \/ ReadKey(r) \/ SaveKey(r) \/ Request(r)
  \/ \E w \in Wallets, op \in {"import", "fix", "group", "delete"} : Begin(r, op, w)

Next ==
  \/ \E r \in Requests : RequestStep(r)
  \/ \E m \in Migrators : MigratorStep(m)
  \/ \E w \in Wallets : Trade(w)
  \/ \E a \in Actors : Crash(a)

Spec == Init /\ [][Next]_vars

\* Cycles, or runs of the script over all wallets, go on; see Whole below.
FairSpec == Spec /\ \A m \in Migrators : WF_vars(MigratorStep(m))

-----------------------------------------------------------------------------
(* Every variable is of its type.                                          *)
WalletType == [st : {"none", "live", "deleted"}, key : Payloads]
ActorType == [pc : Pcs, op : Ops, key : Keys \union {NoKey},
              todo : SUBSET (Wallets \X Payloads)]

TypeOK ==
  /\ userKey \in Keys \union {NoKey}
  /\ wallet \in [Wallets -> WalletType]
  /\ member \subseteq Wallets /\ used \subseteq Wallets
  /\ actor \in [Actors -> ActorType]
  /\ forked \in BOOLEAN

(* A wallet is encrypted with the key of its user or with the legacy key,   *)
(* through imports, migrations, repairs and crashes, as long as no two      *)
(* first uses created the key of the user at the same time.                 *)
WalletsDecrypt == ~forked => \A w \in Live : wallet[w].key \in {userKey, Legacy}

(* Before the user has a key no wallet is encrypted with one; afterwards    *)
(* whoever has finished asking for the key has the one of the user in hand. *)
HandsAgree ==
  /\ userKey = NoKey => \A w \in Live : wallet[w].key = Legacy
  /\ \A a \in Actors :
       actor[a].pc = "work" /\ actor[a].op \in {"import", "fix", "migrate"} =>
         /\ userKey # NoKey /\ actor[a].key # NoKey
         /\ ~forked => actor[a].key = userKey
  /\ \A a \in Actors : actor[a].pc = "mint" =>
         actor[a].key # NoKey /\ (~forked => userKey = NoKey)

(* Members of groups and wallets with transactions exist.                   *)
ReferencesLive == member \union used \subseteq Live

(* The inductive invariant behind the safety properties of this module.     *)
IInv == TypeOK /\ HandsAgree /\ WalletsDecrypt /\ ReferencesLive

(* Migration and repair never undo each other: a wallet the key of the user *)
(* decrypts goes on being decrypted by it.                                  *)
StaysDecryptable ==
  [][\A w \in Live : ~forked' /\ wallet[w].key = userKey
                     => wallet'[w].key = userKey']_vars

Whole == \A m \in Migrators : actor[m].pc = "key" => {item[1] : item \in actor[m].todo} = Live

(* Once migrations run over all wallets and are not interrupted, every      *)
(* wallet of the older version is migrated.                                 *)
LegacyMigrated ==
  /\ LegacyKnown
  /\ <>[](Whole /\ Live # {})
  /\ <>[][\A m \in Migrators : Crash(m) => EndMigration(m)]_vars
  => <>[](\A w \in Live : wallet[w].key # Legacy)
=============================================================================
