------------------------------ MODULE Holdings ------------------------------
(***************************************************************************)
(* The browser wallet and the list of its tokens.  The wallet extension    *)
(* decides on account and chain; effects copy its session to a store and   *)
(* load the holdings of the account, which the server gathers from several *)
(* remote calls.  Loads overlap; a sequence number tells the latest, here  *)
(* the identity of the load whose number is the counter's, if there is one.*)
(***************************************************************************)
EXTENDS Naturals, FiniteSets

CONSTANTS
  Accounts, None,
  Connectors,       \* MetaMask, WalletConnect, ...
  Tokens,
  Balance,          \* what each account holds of each token
  Shown,            \* the least balance that does not round to nothing
  Loads             \* loads that may be in flight at a time

ASSUME HoldingsOK ==
  /\ None \notin Accounts \union Connectors \union Loads
  /\ Balance \in [Accounts -> [Tokens -> Nat]]
  /\ Shown \in Nat \ {0}

VARIABLES
  wallet,       \* the session of the extension
  synced,       \* the session the effects have last seen
  connecting,   \* the connector of a pending connection
  closing,      \* a disconnection is pending
  store,        \* walletStore
  load,         \* loads in flight
  latest,       \* the load that holds the present number
  unclosed      \* history: a disconnection failed and nothing was loaded since

vars == <<wallet, synced, connecting, closing, store, load, latest, unclosed>>

Chains == {"bsc", "other"}
NoSession == [account |-> None, chain |-> "none"]
Session == [account : Accounts, chain : Chains]
Unmounted == [account |-> None, chain |-> "unmounted"]

\* A list of tokens, and whose they are; the native coin is in every list.
Lists == [of : Accounts, tokens : SUBSET Tokens]
Empty == [of |-> None, tokens |-> {}]
Cleared == [account |-> None, chain |-> "none", holdings |-> Empty, loading |-> FALSE, error |-> FALSE]
NoLoad == [pc |-> "idle", of |-> None, answer |-> Empty]
Failed == [of |-> None, tokens |-> Tokens]

Init ==
  /\ wallet = NoSession /\ synced = Unmounted
  /\ connecting = None /\ closing = FALSE
  /\ store = Cleared
  /\ load = [l \in Loads |-> NoLoad] /\ latest = None
  /\ unclosed = FALSE

Extension == <<wallet, connecting, closing>>
Page == <<store, load, latest, unclosed>>

-----------------------------------------------------------------------------
(* The loader.                                                             *)

\* Mutant of Invalidated: loads in flight stay valid.
InvalidatedNot == latest

Invalidated == None

Begin(l, account, s) ==
  /\ load[l] = NoLoad
  /\ load' = [load EXCEPT ![l] = [NoLoad EXCEPT !.pc = "sent", !.of = account]]
  /\ latest' = l
  /\ store' = [s EXCEPT !.loading = TRUE, !.error = FALSE]
  /\ unclosed' = FALSE

\* Tokens without usable metadata and amounts that round to nothing are left out.
List(account, described) ==
  [of |-> account, tokens |-> {t \in described : Balance[account][t] >= Shown}]

\* The balances or the native balance cannot be had, or metadata of some.
Serve(l) ==
  /\ load[l].pc = "sent"
  /\ \E a \in {List(load[l].of, described) : described \in SUBSET Tokens} \union {Failed} :
       load' = [load EXCEPT ![l] = [pc |-> "answered", of |-> load[l].of, answer |-> a]]
  /\ UNCHANGED <<store, latest, unclosed, synced>> /\ UNCHANGED Extension

\* Mutant of Current: whatever arrives is stored.
CurrentAlways(l) == TRUE

Current(l) == latest = l

\* A failure is shown beside the list there was; the latest ends the loading.
Stored(l) ==
  IF load[l].answer = Failed
  THEN [store EXCEPT !.error = TRUE, !.loading = FALSE]
  ELSE [store EXCEPT !.holdings = load[l].answer, !.loading = FALSE]

\* Mutant of Settled: an early return leaves the loading flag alone.
SettledUnlessFailed(l) ==
  IF Current(l) /\ load[l].answer # Failed THEN Stored(l) ELSE store

Settled(l) == IF Current(l) THEN Stored(l) ELSE store

Arrive(l) ==
  /\ load[l].pc = "answered"
  /\ store' = Settled(l)
  /\ load' = [load EXCEPT ![l] = NoLoad]
  /\ latest' = IF Current(l) THEN None ELSE latest
  /\ UNCHANGED <<synced, unclosed>> /\ UNCHANGED Extension

-----------------------------------------------------------------------------
(* The page.                                                               *)

\* The two effects of useWalletConnectionSync, one after the other.
SyncGone ==
  /\ wallet.account = None
  /\ latest' = Invalidated
  /\ store' = Cleared
  /\ UNCHANGED <<load, unclosed>>

Connected == [store EXCEPT !.account = wallet.account, !.chain = wallet.chain]

SyncWrongNetwork ==
  /\ wallet.chain = "other"
  /\ latest' = Invalidated
  /\ store' = [Connected EXCEPT !.holdings = Empty, !.error = FALSE, !.loading = FALSE]
  /\ UNCHANGED <<load, unclosed>>

SyncAccount ==
  /\ wallet.chain = "bsc"
  /\ \E l \in Loads : Begin(l, wallet.account, Connected)

Sync ==
  /\ wallet # synced
  /\ synced' = wallet
  /\ SyncGone \/ SyncWrongNetwork \/ SyncAccount
  /\ UNCHANGED Extension

\* The effects of a render have run before the next click or session.
Rendered == synced = wallet

\* Refresh and Retry of the holdings dialog, which is there on BSC only.
Refresh ==
  /\ wallet.chain = "bsc" /\ Rendered /\ store.account # None /\ ~store.loading
  /\ \E l \in Loads : Begin(l, store.account, store)
  /\ UNCHANGED synced /\ UNCHANGED Extension

\* The store keeps the account and the chain, not the holdings.
Reload ==
  /\ wallet' = NoSession /\ synced' = Unmounted
  /\ connecting' = None /\ closing' = FALSE
  /\ store' = [Cleared EXCEPT !.account = store.account, !.chain = store.chain]
  /\ load' = [l \in Loads |-> NoLoad] /\ latest' = None
  /\ unclosed' = FALSE

-----------------------------------------------------------------------------
(* The extension.                                                          *)

\* The dialog offers the other wallets again when the pending one has failed.
Connect(c) ==
  /\ wallet = NoSession /\ connecting = None
  /\ connecting' = c
  /\ UNCHANGED <<wallet, closing, synced>> /\ UNCHANGED Page

ConnectEnds ==
  /\ connecting # None /\ Rendered
  /\ connecting' = None
  /\ wallet' \in {NoSession} \union {s \in Session : s.chain = "bsc"}
  /\ UNCHANGED <<closing, synced>> /\ UNCHANGED Page

\* A session is restored after a reload, accounts and chains change, the
\* extension is locked; switchToBsc is one of these.
Switch ==
  /\ connecting = None /\ Rendered
  /\ wallet' \in Session \union {NoSession}
  /\ wallet' # wallet
  /\ UNCHANGED <<connecting, closing, synced>> /\ UNCHANGED Page

Disconnect ==
  /\ wallet.chain = "bsc" /\ ~closing
  /\ closing' = TRUE
  /\ latest' = Invalidated
  /\ UNCHANGED <<wallet, connecting, synced, store, load, unclosed>>

DisconnectEnds ==
  /\ closing /\ Rendered
  /\ closing' = FALSE
  /\ \/ wallet' = NoSession /\ UNCHANGED unclosed
     \/ UNCHANGED wallet /\ unclosed' = TRUE
  /\ UNCHANGED <<connecting, synced, store, load, latest>>

Next ==
  \/ \E l \in Loads : Serve(l) \/ Arrive(l)
  \/ Sync \/ Refresh \/ Reload
  \/ \E c \in Connectors : Connect(c)
  \/ ConnectEnds \/ Switch \/ Disconnect \/ DisconnectEnds

Spec ==
  /\ Init /\ [][Next]_vars
  /\ \A l \in Loads : WF_vars(Serve(l) \/ Arrive(l))
  /\ WF_vars(Sync) /\ WF_vars(DisconnectEnds)

-----------------------------------------------------------------------------
(* Every variable is of its type.                                          *)
LoadType == [pc : {"idle", "sent", "answered"}, of : Accounts \union {None},
             answer : Lists \union {Empty, Failed}]
StoreType == [account : Accounts \union {None}, chain : Chains \union {"none"},
              holdings : Lists \union {Empty}, loading : BOOLEAN, error : BOOLEAN]

TypeOK ==
  /\ wallet \in Session \union {NoSession}
  /\ synced \in Session \union {NoSession, Unmounted}
  /\ connecting \in Connectors \union {None} /\ closing \in BOOLEAN /\ unclosed \in BOOLEAN
  /\ store \in StoreType
  /\ load \in [Loads -> LoadType]
  /\ latest \in Loads \union {None}

(* A list that is shown without a spinner or an error beside it is of the  *)
(* account in the store, on BSC, whatever came late or out of order.       *)
HoldingsOfAccount ==
  (store.holdings # Empty /\ ~store.loading /\ ~store.error)
  => store.holdings.of = store.account /\ store.chain = "bsc"

(* Once the effects have seen the wallet go, nothing of it comes back: an  *)
(* answer that was on its way changes nothing.                             *)
GoneStaysGone == synced = NoSession => store = Cleared

(* A load is of the account in the store as long as its number is the       *)
(* counter's, and its answer is of the account it was asked for.            *)
LoadsAgree ==
  /\ latest # None => /\ load[latest].of = store.account
                      /\ store.chain = "bsc" /\ synced # NoSession
  /\ \A l \in Loads : load[l].pc # "idle" => load[l].of \in Accounts
  /\ \A l \in Loads :
       load[l].pc = "answered" /\ load[l].answer # Failed => load[l].answer.of = load[l].of

(* The effects leave in the store what they have seen of the wallet.        *)
StoreFollows ==
  synced # Unmounted => store.account = synced.account /\ store.chain = synced.chain

(* The inductive invariant behind the safety properties of this module.     *)
IInv == TypeOK /\ LoadsAgree /\ StoreFollows /\ HoldingsOfAccount /\ GoneStaysGone

(* When the wallet has settled, loading ends, unless disconnecting failed:  *)
(* disconnect() disowns the load before it knows.                          *)
LoadingEnds ==
  (<>[][wallet' = wallet]_vars) => (store.loading ~> ~store.loading \/ unclosed)
=============================================================================
