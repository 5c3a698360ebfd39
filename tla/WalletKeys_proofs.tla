------------------------- MODULE WalletKeys_proofs -------------------------
(* Proofs about WalletKeys, for any number of wallets, keys, requests and   *)
(* migrators, which may die anywhere.                                       *)
EXTENDS WalletKeys, TLAPS

USE WalletKeysOK DEF WalletKeysOK

\* What finds out a key for its work has that of the user, unless two first
\* uses created it at the same time.
InHand(n) ==
  /\ n.pc = "work" /\ n.op \in {"import", "fix", "migrate"} =>
       /\ userKey # NoKey /\ n.key # NoKey
       /\ ~forked => n.key = userKey
  /\ n.pc = "mint" => n.key # NoKey /\ (~forked => userKey = NoKey)

LEMMA IdleType == Idle \in ActorType /\ Idle.pc = "idle"
BY DEF Idle, ActorType, Pcs, Ops

LEMMA RequestsAct == Requests \subseteq Actors /\ Migrators \subseteq Actors
BY DEF Actors

\* The wallets are of the older version, and nobody has begun.
LEMMA InitIInv == Init => IInv
<1> SUFFICES ASSUME Init PROVE IInv
  OBVIOUS
<1>1. wallet \in [Wallets -> WalletType] /\ \A w \in Wallets : wallet[w].key = Legacy
  <2>1. {NoWallet, [st |-> "live", key |-> Legacy]} \subseteq WalletType
    BY DEF NoWallet, WalletType, Payloads
  <2>2. NoWallet.key = Legacy
    BY DEF NoWallet
  <2>3. QED
    BY <2>1, <2>2 DEF Init
<1>2. actor \in [Actors -> ActorType] /\ \A a \in Actors : actor[a].pc = "idle"
  BY IdleType DEF Init
<1>3. forked \in BOOLEAN
  BY DEF Init
<1>4. QED
  BY <1>1, <1>2, <1>3 DEF Init, IInv, TypeOK, HandsAgree, WalletsDecrypt, ReferencesLive, Live

\* One actor moves on; wallets it has written are encrypted with the user's key.
LEMMA ActorIInv ==
  ASSUME IInv, NEW a \in Actors, NEW n \in ActorType, InHand(n),
         actor' = [actor EXCEPT ![a] = n], UNCHANGED <<userKey, used, forked>>,
         wallet' \in [Wallets -> WalletType],
         member' \union used \subseteq Live',
         \A w \in Live' : \/ w \in Live /\ wallet'[w].key = wallet[w].key
                          \/ userKey # NoKey /\ (~forked => wallet'[w].key = userKey)
  PROVE  IInv'
<1>1. TypeOK'
  BY DEF IInv, TypeOK, Live
<1>2. ASSUME NEW b \in Actors
      PROVE  actor'[b] = IF b = a THEN n ELSE actor[b]
  BY DEF IInv, TypeOK
<1>3. HandsAgree'
  <2>1. userKey = NoKey => \A w \in Live' : wallet'[w].key = Legacy
    BY DEF IInv, HandsAgree
  <2>2. QED
    BY <1>2, <2>1 DEF IInv, HandsAgree, InHand
<1>4. WalletsDecrypt'
  BY DEF IInv, WalletsDecrypt
<1>5. ReferencesLive'
  BY DEF ReferencesLive
<1>6. QED
  BY <1>1, <1>3, <1>4, <1>5 DEF IInv

\* The same when only the actor changes.
LEMMA OnlyActorIInv ==
  ASSUME IInv, NEW a \in Actors, NEW n \in ActorType, InHand(n),
         actor' = [actor EXCEPT ![a] = n], OnlyActor
  PROVE  IInv'
<1>1. UNCHANGED <<userKey, wallet, member, used, forked>> /\ Live' = Live
  BY DEF OnlyActor, Live
<1>2. wallet' \in [Wallets -> WalletType] /\ member' \union used \subseteq Live'
  BY <1>1 DEF IInv, TypeOK, ReferencesLive
<1>3. QED
  BY <1>1, <1>2, ActorIInv

LEMMA IdleInHand == InHand(Idle)
BY IdleType DEF InHand

-----------------------------------------------------------------------------
(* The key of the user.                                                    *)

LEMMA ReadKeyIInv ==
  ASSUME IInv, NEW a \in Actors, ReadKey(a)
  PROVE  IInv'
<1>1. actor[a] \in ActorType /\ userKey \in Keys \union {NoKey}
  BY DEF IInv, TypeOK
<1>2. CASE userKey # NoKey
  <2> DEFINE n == [actor[a] EXCEPT !.pc = "work", !.key = userKey]
  <2>1. n \in ActorType /\ n.pc = "work" /\ n.key = userKey
    BY <1>1 DEF ActorType, Pcs
  <2>2. actor' = [actor EXCEPT ![a] = n] /\ OnlyActor
    BY <1>2 DEF ReadKey, KeyInHand, Goto
  <2> HIDE DEF n
  <2>3. InHand(n)
    BY <1>2, <2>1 DEF InHand
  <2>4. QED
    BY <2>1, <2>2, <2>3, OnlyActorIInv
<1>3. CASE userKey = NoKey
  <2>1. PICK k \in Keys : actor' = [actor EXCEPT ![a] = [actor[a] EXCEPT !.pc = "mint", !.key = k]]
    BY <1>3 DEF ReadKey, KeyInHand, Goto
  <2> DEFINE n == [actor[a] EXCEPT !.pc = "mint", !.key = k]
  <2>2. n \in ActorType /\ n.pc = "mint" /\ n.key = k
    BY <1>1 DEF ActorType, Pcs
  <2>3. actor' = [actor EXCEPT ![a] = n] /\ OnlyActor
    BY <2>1 DEF ReadKey
  <2> HIDE DEF n
  <2>4. InHand(n)
    BY <1>3, <2>2 DEF InHand
  <2>5. QED
    BY <2>2, <2>3, <2>4, OnlyActorIInv
<1>4. QED
  BY <1>2, <1>3

\* The first key is everybody's; a second one excuses what it makes unreadable.
LEMMA SaveKeyIInv ==
  ASSUME IInv, NEW a \in Actors, SaveKey(a)
  PROVE  IInv'
<1> DEFINE n == [actor[a] EXCEPT !.pc = "work"]
<1>1. n \in ActorType /\ n.pc = "work" /\ n.key = actor[a].key
  BY DEF IInv, TypeOK, ActorType, Pcs
<1>2. actor[a].key \in Keys
  BY DEF SaveKey, IInv, TypeOK, HandsAgree, ActorType
<1>3. /\ userKey' = actor[a].key
      /\ actor' = [actor EXCEPT ![a] = n]
      /\ UNCHANGED <<wallet, member, used>>
      /\ Live' = Live
  BY DEF SaveKey, Goto, Live
<1>4. /\ forked' \in BOOLEAN
      /\ ~forked' => ~forked /\ userKey = NoKey /\ \A b \in Actors \ {a} : actor[b].pc # "mint"
  BY DEF SaveKey, IInv, HandsAgree
<1> HIDE DEF n
<1>5. TypeOK'
  BY <1>1, <1>2, <1>3, <1>4 DEF IInv, TypeOK
<1>6. ASSUME NEW b \in Actors
      PROVE  actor'[b] = IF b = a THEN n ELSE actor[b]
  BY <1>3 DEF IInv, TypeOK
<1>7. userKey' # NoKey
  BY <1>2, <1>3
<1>8. ~forked' => \A b \in Actors \ {a} :
        ~(actor[b].pc = "work" /\ actor[b].op \in {"import", "fix", "migrate"})
  BY <1>4 DEF IInv, HandsAgree
<1>9. HandsAgree'
  BY <1>1, <1>3, <1>4, <1>6, <1>7, <1>8 DEF IInv, HandsAgree
<1>10. WalletsDecrypt'
  BY <1>3, <1>4 DEF IInv, HandsAgree, WalletsDecrypt
<1>11. QED
  BY <1>3, <1>5, <1>9, <1>10 DEF IInv, ReferencesLive

-----------------------------------------------------------------------------
(* Requests and migrators.                                                 *)

LEMMA BeginIInv ==
  ASSUME IInv, NEW r \in Requests, NEW w \in Wallets,
         NEW op \in {"import", "fix", "group", "delete"}, Begin(r, op, w)
  PROVE  IInv'
<1> DEFINE pc == IF op \in {"import", "fix"} THEN "key" ELSE "work"
           n == [Idle EXCEPT !.pc = pc, !.op = op, !.todo = {<<w, Legacy>>}]
<1>1. n \in ActorType /\ n.pc = pc /\ n.op = op
  <2>1. pc \in {"key", "work"} /\ {<<w, Legacy>>} \in SUBSET (Wallets \X Payloads)
    BY DEF Payloads
  <2> HIDE DEF pc
  <2>2. QED
    BY <2>1, IdleType DEF ActorType, Pcs, Ops
<1>2. actor' = [actor EXCEPT ![r] = n] /\ OnlyActor
  BY DEF Begin, Goto
<1>3. InHand(n)
  BY <1>1 DEF InHand
<1>4. QED
  BY <1>1, <1>2, <1>3, OnlyActorIInv, RequestsAct

\* Encrypting or repairing a wallet with the key in hand.
LEMMA EncryptType ==
  ASSUME IInv, NEW w \in Wallets, NEW k \in Payloads
  PROVE  /\ [st |-> "live", key |-> k] \in WalletType
         /\ [wallet[w] EXCEPT !.key = k] \in WalletType
         /\ [wallet[w] EXCEPT !.key = k].st = wallet[w].st
         /\ [wallet[w] EXCEPT !.key = k].key = k
         /\ [wallet[w] EXCEPT !.st = "deleted"] \in WalletType
         /\ [wallet[w] EXCEPT !.st = "deleted"].st = "deleted"
BY DEF IInv, TypeOK, WalletType

LEMMA RequestIInv ==
  ASSUME IInv, NEW r \in Requests, Request(r)
  PROVE  IInv'
<1>1. PICK w \in Wallets :
        \/ actor[r].op = "import" /\ Import(w, actor[r].key) /\ UNCHANGED member
        \/ actor[r].op = "fix" /\ ReEncrypt(w, actor[r].key) /\ UNCHANGED member
        \/ /\ actor[r].op = "group"
           /\ member' = IF w \in Live THEN member \union {w} ELSE member
           /\ UNCHANGED wallet
        \/ /\ actor[r].op = "delete"
           /\ IF w \in Removable
              THEN /\ wallet' = [wallet EXCEPT ![w] = [@ EXCEPT !.st = "deleted"]]
                   /\ member' = member \ {w}
              ELSE UNCHANGED <<wallet, member>>
  BY DEF Request
<1>2. /\ actor[r].pc = "work" /\ r \in Actors
      /\ actor' = [actor EXCEPT ![r] = Idle]
      /\ UNCHANGED <<userKey, used, forked>>
  BY RequestsAct DEF Request, Done, Goto
<1>3. actor[r].op \in {"import", "fix"} =>
        /\ actor[r].key \in Payloads /\ userKey # NoKey
        /\ ~forked => actor[r].key = userKey
  BY <1>2 DEF IInv, HandsAgree, TypeOK, ActorType, Payloads
<1>4. ASSUME NEW v \in WalletType, wallet' = [wallet EXCEPT ![w] = v]
      PROVE  /\ wallet' \in [Wallets -> WalletType]
             /\ \A x \in Wallets : wallet'[x] = IF x = w THEN v ELSE wallet[x]
  BY <1>4 DEF IInv, TypeOK
<1>5. CASE UNCHANGED <<wallet, member>>
  <2>1. Live' = Live
    BY <1>5 DEF Live
  <2>2. QED
    BY <1>2, <1>5, <2>1, ActorIInv, IdleType, IdleInHand DEF IInv, TypeOK, ReferencesLive
<1>6. CASE actor[r].op \in {"import", "fix"} /\ UNCHANGED member /\ wallet' # wallet
  <2> DEFINE v == IF actor[r].op = "import" THEN [st |-> "live", key |-> actor[r].key]
                  ELSE [wallet[w] EXCEPT !.key = actor[r].key]
  <2>1. wallet' = [wallet EXCEPT ![w] = v] /\ (actor[r].op = "fix" => w \in Live)
    BY <1>1, <1>6 DEF Import, ReEncrypt
  <2>2. v \in WalletType /\ v.st = "live" /\ v.key = actor[r].key
    BY <1>3, <1>6, <2>1, EncryptType DEF Live
  <2> HIDE DEF v
  <2>3. /\ wallet' \in [Wallets -> WalletType]
        /\ \A x \in Wallets : wallet'[x] = IF x = w THEN v ELSE wallet[x]
    BY <1>4, <2>1, <2>2
  <2>4. Live' = Live \union {w}
    BY <2>2, <2>3 DEF Live
  <2>5. member' \union used \subseteq Live'
    BY <1>6, <2>4 DEF IInv, ReferencesLive
  <2>6. \A x \in Live' : \/ x \in Live /\ wallet'[x].key = wallet[x].key
                         \/ userKey # NoKey /\ (~forked => wallet'[x].key = userKey)
    BY <1>3, <1>6, <2>2, <2>3, <2>4 DEF Live
  <2>7. QED
    BY <1>2, <2>3, <2>5, <2>6, ActorIInv, IdleType, IdleInHand
<1>7. CASE actor[r].op = "group" /\ UNCHANGED wallet /\ member' # member
  <2>1. Live' = Live /\ member' = member \union {w} /\ w \in Live
    BY <1>1, <1>7 DEF Live
  <2>2. QED
    BY <1>2, <1>7, <2>1, ActorIInv, IdleType, IdleInHand DEF IInv, TypeOK, ReferencesLive
<1>8. CASE actor[r].op = "delete" /\ w \in Removable
            /\ wallet' = [wallet EXCEPT ![w] = [@ EXCEPT !.st = "deleted"]]
            /\ member' = member \ {w}
  <2> DEFINE v == [wallet[w] EXCEPT !.st = "deleted"]
  <2>1. v \in WalletType /\ v.st = "deleted"
    BY EncryptType DEF Payloads
  <2> HIDE DEF v
  <2>2. /\ wallet' \in [Wallets -> WalletType]
        /\ \A x \in Wallets : wallet'[x] = IF x = w THEN v ELSE wallet[x]
    BY <1>4, <1>8, <2>1 DEF v
  <2>3. Live' = Live \ {w} /\ w \notin used
    BY <1>8, <2>1, <2>2 DEF Live, Removable
  <2>4. member' \union used \subseteq Live'
    BY <1>8, <2>3 DEF IInv, ReferencesLive
  <2>5. \A x \in Live' : x \in Live /\ wallet'[x].key = wallet[x].key
    BY <2>2, <2>3 DEF Live
  <2>6. QED
    BY <1>2, <2>2, <2>4, <2>5, ActorIInv, IdleType, IdleInHand
<1>9. QED
  BY <1>1, <1>5, <1>6, <1>7, <1>8 DEF Import, ReEncrypt

LEMMA LoadWalletsIInv ==
  ASSUME IInv, NEW m \in Migrators, LoadWallets(m)
  PROVE  IInv'
<1>1. PICK some \in {member, Live} :
        actor' = [actor EXCEPT ![m] = [Idle EXCEPT !.pc = "key", !.op = "migrate",
                                       !.todo = {<<w, wallet[w].key>> : w \in some}]]
  BY DEF LoadWallets, Goto
<1> DEFINE n == [Idle EXCEPT !.pc = "key", !.op = "migrate",
                             !.todo = {<<w, wallet[w].key>> : w \in some}]
<1>2. some \subseteq Wallets
  BY DEF IInv, TypeOK, Live
<1>3. {<<w, wallet[w].key>> : w \in some} \subseteq Wallets \X Payloads
  BY <1>2 DEF IInv, TypeOK, WalletType
<1>4. n \in ActorType /\ n.pc = "key"
  BY <1>3, IdleType DEF ActorType, Pcs, Ops
<1>5. actor' = [actor EXCEPT ![m] = n] /\ OnlyActor
  BY <1>1 DEF LoadWallets
<1> HIDE DEF n
<1>6. InHand(n)
  BY <1>4 DEF InHand
<1>7. QED
  BY <1>4, <1>5, <1>6, OnlyActorIInv, RequestsAct

LEMMA MigrateWalletIInv ==
  ASSUME IInv, NEW m \in Migrators, MigrateWallet(m)
  PROVE  IInv'
<1>1. PICK item \in actor[m].todo :
        /\ IF Migrated(item[2], actor[m].key) # item[2] /\ item[1] \in Live
           THEN wallet' = [wallet EXCEPT ![item[1]] =
                             [@ EXCEPT !.key = Migrated(item[2], actor[m].key)]]
           ELSE UNCHANGED wallet
        /\ Goto(m, [actor[m] EXCEPT !.todo = @ \ {item}])
  BY DEF MigrateWallet
<1> DEFINE w == item[1]
           k == Migrated(item[2], actor[m].key)
           n == [actor[m] EXCEPT !.todo = @ \ {item}]
<1>2. /\ m \in Actors /\ actor[m] \in ActorType
      /\ actor[m].pc = "work" /\ actor[m].op = "migrate"
      /\ UNCHANGED <<userKey, member, used, forked>>
  BY RequestsAct DEF MigrateWallet, IInv, TypeOK
<1>3. n \in ActorType /\ n.pc = "work" /\ n.op = "migrate" /\ n.key = actor[m].key
  BY <1>2 DEF ActorType
<1>4. userKey # NoKey /\ (~forked => actor[m].key = userKey) /\ actor[m].key \in Payloads
  BY <1>2 DEF IInv, HandsAgree, ActorType, Payloads
<1>5. InHand(n)
  <2> HIDE DEF n
  <2>1. QED
    BY <1>3, <1>4 DEF InHand, Payloads
<1>6. /\ actor' = [actor EXCEPT ![m] = n]
      /\ IF k # item[2] /\ w \in Live
         THEN wallet' = [wallet EXCEPT ![w] = [@ EXCEPT !.key = k]]
         ELSE UNCHANGED wallet
  BY <1>1 DEF Goto
<1> HIDE DEF n, w
<1>7. CASE UNCHANGED wallet
  <2>1. Live' = Live
    BY <1>7 DEF Live
  <2>2. QED
    BY <1>2, <1>3, <1>5, <1>6, <1>7, <2>1, ActorIInv DEF IInv, TypeOK, ReferencesLive
<1>8. CASE k # item[2] /\ w \in Live /\ wallet' = [wallet EXCEPT ![w] = [@ EXCEPT !.key = k]]
  <2>1. k = actor[m].key /\ w \in Wallets
    BY <1>8 DEF Migrated, Live
  <2>2. k \in Payloads
    BY <1>4, <2>1
  <2> HIDE DEF k
  <2> DEFINE v == [wallet[w] EXCEPT !.key = k]
  <2>3. v \in WalletType /\ v.st = "live" /\ v.key = k
    BY <1>8, <2>1, <2>2, EncryptType DEF Live
  <2>4. wallet' = [wallet EXCEPT ![w] = v]
    BY <1>8
  <2> HIDE DEF v
  <2>5. /\ wallet' \in [Wallets -> WalletType]
        /\ \A x \in Wallets : wallet'[x] = IF x = w THEN v ELSE wallet[x]
    BY <2>3, <2>4 DEF IInv, TypeOK
  <2>6. Live' = Live
    BY <1>8, <2>3, <2>5 DEF Live
  <2>7. member' \union used \subseteq Live'
    BY <1>2, <2>6 DEF IInv, ReferencesLive
  <2>8. \A x \in Live' : \/ x \in Live /\ wallet'[x].key = wallet[x].key
                         \/ userKey # NoKey /\ (~forked => wallet'[x].key = userKey)
    BY <1>4, <2>1, <2>3, <2>5, <2>6 DEF Live
  <2>9. QED
    BY <1>2, <1>3, <1>5, <1>6, <2>5, <2>7, <2>8, ActorIInv
<1>9. QED
  BY <1>6, <1>7, <1>8

\* A migration ends, a process dies: the actor is idle.
LEMMA EndIInv ==
  ASSUME IInv, NEW a \in Actors, EndMigration(a) \/ Crash(a)
  PROVE  IInv'
<1>1. actor' = [actor EXCEPT ![a] = Idle] /\ OnlyActor
  BY DEF EndMigration, Crash, Done, Goto
<1>2. QED
  BY <1>1, OnlyActorIInv, IdleType, IdleInHand

LEMMA TradeIInv ==
  ASSUME IInv, NEW w \in Wallets, Trade(w)
  PROVE  IInv'
<1>1. /\ used' = used \union {w} /\ w \in Live /\ Live' = Live
      /\ UNCHANGED <<userKey, wallet, member, actor, forked>>
  BY DEF Trade, Live
<1>2. TypeOK'
  BY <1>1 DEF IInv, TypeOK
<1>3. QED
  BY <1>1, <1>2 DEF IInv, HandsAgree, WalletsDecrypt, ReferencesLive

LEMMA NextIInv == IInv /\ [Next]_vars => IInv'
<1> SUFFICES ASSUME IInv, [Next]_vars PROVE IInv'
  OBVIOUS
<1>1. CASE UNCHANGED vars
  BY <1>1 DEF vars, IInv, TypeOK, HandsAgree, WalletsDecrypt, ReferencesLive, Live
<1>2. ASSUME NEW r \in Requests, RequestStep(r) PROVE IInv'
  BY <1>2, RequestsAct, ReadKeyIInv, SaveKeyIInv, RequestIInv, BeginIInv DEF RequestStep
<1>3. ASSUME NEW m \in Migrators, MigratorStep(m) PROVE IInv'
  BY <1>3, RequestsAct, ReadKeyIInv, SaveKeyIInv, LoadWalletsIInv, MigrateWalletIInv, EndIInv
     DEF MigratorStep
<1>4. QED
  BY <1>1, <1>2, <1>3, TradeIInv, EndIInv DEF Next

-----------------------------------------------------------------------------
(* The inductive invariant of keys, wallets, groups and their readers.      *)
THEOREM Invariance == Spec => []IInv
<1>1. QED
  BY InitIInv, NextIInv, PTL DEF Spec

(* Every wallet can be decrypted with the key of its user or the legacy     *)
(* one, unless two calls of getOrCreateUserEncryptionKey both created it.   *)
THEOREM Decryptable == Spec => []WalletsDecrypt
<1>1. IInv => WalletsDecrypt
  BY DEF IInv
<1>2. QED
  BY <1>1, Invariance, PTL

(* Groups and transactions refer to wallets that exist, whatever deletes.   *)
THEOREM References == Spec => []ReferencesLive
<1>1. IInv => ReferencesLive
  BY DEF IInv
<1>2. QED
  BY <1>1, Invariance, PTL

(* Migration and repair leave a wallet of the user's key with that key.     *)
THEOREM Migrations == Spec => StaysDecryptable
<1> DEFINE A == \A w \in Live : ~forked' /\ wallet[w].key = userKey => wallet'[w].key = userKey'
<1>1. ASSUME IInv, [Next]_vars PROVE A
  <2> SUFFICES ASSUME NEW w \in Live, ~forked', wallet[w].key = userKey
               PROVE  wallet'[w].key = userKey'
    OBVIOUS
  <2>1. w \in Wallets /\ userKey # NoKey /\ wallet \in [Wallets -> WalletType]
    <3>1. w \in Wallets /\ wallet \in [Wallets -> WalletType]
      BY <1>1 DEF Live, IInv, TypeOK
    <3>2. wallet[w].key \in Payloads
      BY <3>1 DEF WalletType
    <3>3. QED
      BY <3>1, <3>2 DEF Payloads
  <2>2. CASE \E a \in Actors : SaveKey(a)
    BY <1>1, <2>1, <2>2 DEF SaveKey, IInv, HandsAgree
  <2>3. CASE \E r \in Requests : Request(r)
    <3>1. PICK r \in Requests : Request(r)
      BY <2>3
    <3>2. userKey' = userKey /\ forked' = forked /\ actor[r].pc = "work" /\ r \in Actors
      BY <3>1, RequestsAct DEF Request
    <3>3. actor[r].op \in {"import", "fix"} => actor[r].key = userKey
      BY <1>1, <3>2 DEF IInv, HandsAgree
    <3>4. wallet' = wallet \/ \E v \in Wallets :
            \/ actor[r].op \in {"import", "fix"}
               /\ \/ wallet' = [wallet EXCEPT ![v] = [st |-> "live", key |-> actor[r].key]]
                  \/ wallet' = [wallet EXCEPT ![v] = [@ EXCEPT !.key = actor[r].key]]
            \/ wallet' = [wallet EXCEPT ![v] = [@ EXCEPT !.st = "deleted"]]
      BY <3>1 DEF Request, Import, ReEncrypt
    <3>5. QED
      BY <2>1, <3>2, <3>3, <3>4 DEF WalletType
  <2>4. CASE \E m \in Migrators : MigrateWallet(m)
    <3>1. PICK m \in Migrators : MigrateWallet(m)
      BY <2>4
    <3>2. /\ userKey' = userKey /\ forked' = forked /\ m \in Actors
          /\ actor[m].pc = "work" /\ actor[m].op = "migrate"
      BY <3>1, RequestsAct DEF MigrateWallet
    <3>3. actor[m].key = userKey
      BY <1>1, <3>2 DEF IInv, HandsAgree
    <3>4. wallet' = wallet \/ \E v \in Wallets :
            wallet' = [wallet EXCEPT ![v] = [@ EXCEPT !.key = actor[m].key]]
      BY <3>1 DEF MigrateWallet, Migrated, Live
    <3>5. QED
      BY <2>1, <3>2, <3>3, <3>4 DEF WalletType
  <2>5. CASE UNCHANGED <<wallet, userKey>>
    BY <2>5
  <2>6. QED
    BY <1>1, <2>2, <2>3, <2>4, <2>5 DEF Next, vars, RequestStep, MigratorStep, ReadKey, Begin,
       LoadWallets, EndMigration, Crash, Trade, OnlyActor, Actors
<1>2. QED
  BY <1>1, Invariance, PTL DEF Spec, StaysDecryptable
=============================================================================
