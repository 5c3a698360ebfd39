--------------------------- MODULE Panels_proofs ---------------------------
(* Proofs about two panels of the browser that share no state: first         *)
(* Holdings, for any accounts, tokens, balances and loads, and a wallet      *)
(* extension that does what it likes; then PriceCheck, for any tokens,       *)
(* markets and timing.                                                       *)
EXTENDS Holdings, PriceCheck, TLAPS

USE HoldingsOK DEF HoldingsOK

\* The records the actions write are stores and loads.
LEMMA ClearedType == Cleared \in StoreType
BY DEF Cleared, StoreType

LEMMA NoLoadType == NoLoad \in LoadType /\ NoLoad.pc = "idle"
BY DEF NoLoad, LoadType

LEMMA SessionsDiffer ==
  /\ Unmounted \notin Session \union {NoSession}
  /\ NoSession \notin Session
BY DEF Unmounted, NoSession, Session, Chains

\* Before anything is connected or loaded.
LEMMA InitIInv == Init => IInv
<1> SUFFICES ASSUME Init PROVE IInv
  OBVIOUS
<1>1. TypeOK
  BY ClearedType, NoLoadType DEF Init, TypeOK
<1>2. LoadsAgree
  BY NoLoadType DEF Init, LoadsAgree
<1>3. synced = Unmounted /\ store.holdings = Empty
  BY DEF Init, Cleared
<1>4. QED
  BY <1>1, <1>2, <1>3, SessionsDiffer
     DEF IInv, StoreFollows, HoldingsOfAccount, GoneStaysGone

\* Steps that leave the page alone: those of the extension, but for the ones
\* that disown the load in flight.
LEMMA OutsideIInv ==
  ASSUME IInv, UNCHANGED <<store, load, synced>>, latest' \in {latest, None},
         wallet' \in Session \union {NoSession}, connecting' \in Connectors \union {None},
         closing' \in BOOLEAN, unclosed' \in BOOLEAN
  PROVE  IInv'
<1>1. TypeOK'
  BY DEF IInv, TypeOK
<1>2. LoadsAgree'
  BY DEF IInv, LoadsAgree
<1>3. QED
  BY <1>1, <1>2 DEF IInv, StoreFollows, HoldingsOfAccount, GoneStaysGone

LEMMA ExtensionIInv ==
  ASSUME IInv, (\E c \in Connectors : Connect(c)) \/ ConnectEnds \/ Switch
               \/ Disconnect \/ DisconnectEnds
  PROVE  IInv'
<1>1. UNCHANGED <<store, load, synced>> /\ latest' \in {latest, None}
  BY DEF Connect, ConnectEnds, Switch, Disconnect, DisconnectEnds, Page, Invalidated
<1>2. wallet' \in Session \union {NoSession}
  BY DEF Connect, ConnectEnds, Switch, Disconnect, DisconnectEnds, IInv, TypeOK
<1>3. connecting' \in Connectors \union {None} /\ closing' \in BOOLEAN /\ unclosed' \in BOOLEAN
  BY DEF Connect, ConnectEnds, Switch, Disconnect, DisconnectEnds, IInv, TypeOK, Page
<1>4. QED
  BY <1>1, <1>2, <1>3, OutsideIInv

\* The server answers for the account it was asked about.
LEMMA ServeIInv ==
  ASSUME IInv, NEW l \in Loads, Serve(l)
  PROVE  IInv'
<1>1. PICK a \in {List(load[l].of, described) : described \in SUBSET Tokens} \union {Failed} :
        load' = [load EXCEPT ![l] = [pc |-> "answered", of |-> load[l].of, answer |-> a]]
  BY DEF Serve
<1> DEFINE n == [pc |-> "answered", of |-> load[l].of, answer |-> a]
<1>2. load[l].of \in Accounts
  BY DEF Serve, IInv, LoadsAgree
<1>3. a = Failed \/ (a \in Lists /\ a.of = load[l].of)
  BY <1>2 DEF List, Lists
<1>4. n \in LoadType
  BY <1>2, <1>3 DEF LoadType
<1>5. load' = [load EXCEPT ![l] = n] /\ n.pc = "answered" /\ n.of = load[l].of
      /\ (n.answer # Failed => n.answer.of = n.of)
  BY <1>1, <1>3
<1> HIDE DEF n
<1>6. UNCHANGED <<store, latest, unclosed, synced, wallet, connecting, closing>>
  BY DEF Serve, Extension
<1>7. TypeOK'
  BY <1>4, <1>5, <1>6 DEF IInv, TypeOK
<1>8. LoadsAgree'
  <2>1. \A k \in Loads : load'[k].of = load[k].of
    BY <1>5 DEF IInv, TypeOK
  <2>2. latest # None => load'[latest].of = load[latest].of
    BY <2>1 DEF IInv, TypeOK
  <2>3. \A k \in Loads : k # l => load'[k] = load[k]
    BY <1>5 DEF IInv, TypeOK
  <2>4. load'[l] = n
    BY <1>5 DEF IInv, TypeOK
  <2>5. QED
    BY <1>2, <1>5, <1>6, <2>1, <2>2, <2>3, <2>4 DEF IInv, LoadsAgree
<1>9. QED
  BY <1>6, <1>7, <1>8 DEF IInv, StoreFollows, HoldingsOfAccount, GoneStaysGone

\* An answer arrives: only that of the latest load is stored.
LEMMA ArriveIInv ==
  ASSUME IInv, NEW l \in Loads, Arrive(l)
  PROVE  IInv'
<1>1. /\ load' = [load EXCEPT ![l] = NoLoad]
      /\ UNCHANGED <<synced, unclosed, wallet, connecting, closing>>
  BY DEF Arrive, Extension
<1>2. ASSUME NEW k \in Loads
      PROVE  load'[k] = IF k = l THEN NoLoad ELSE load[k]
  BY <1>1 DEF IInv, TypeOK
<1>3. load' \in [Loads -> LoadType]
  BY <1>1, NoLoadType DEF IInv, TypeOK
<1>4. CASE Current(l)
  <2>1. latest = l /\ latest' = None /\ l # None
    BY <1>4 DEF Arrive, Current
  <2>2. store' = Stored(l)
    BY <1>4 DEF Arrive, Settled
  <2>3. /\ load[l].answer # Failed => /\ load[l].answer \in Lists
                                      /\ load[l].answer.of = store.account
        /\ store.chain = "bsc" /\ synced # NoSession
    BY <2>1 DEF Arrive, IInv, LoadsAgree, TypeOK, LoadType, Empty, Lists
  <2>4. /\ store' \in StoreType
        /\ store'.account = store.account /\ store'.chain = store.chain
        /\ ~store'.loading
        /\ store'.error \/ store'.holdings.of = store.account
    <3>1. CASE load[l].answer = Failed
      BY <2>2, <3>1 DEF Stored, IInv, TypeOK, StoreType
    <3>2. CASE load[l].answer # Failed
      BY <2>2, <2>3, <3>2 DEF Stored, IInv, TypeOK, StoreType
    <3>3. QED
      BY <3>1, <3>2
  <2>5. TypeOK'
    BY <1>1, <1>3, <2>1, <2>4 DEF IInv, TypeOK
  <2>6. LoadsAgree'
    BY <1>2, <2>1, NoLoadType DEF IInv, LoadsAgree
  <2>7. QED
    BY <1>1, <2>3, <2>4, <2>5, <2>6 DEF IInv, StoreFollows, HoldingsOfAccount, GoneStaysGone
<1>5. CASE ~Current(l)
  <2>1. latest' = latest /\ store' = store /\ latest # l
    BY <1>5 DEF Arrive, Settled, Current
  <2>2. TypeOK'
    BY <1>1, <1>3, <2>1 DEF IInv, TypeOK
  <2>3. LoadsAgree'
    BY <1>1, <1>2, <2>1, NoLoadType DEF IInv, LoadsAgree, TypeOK
  <2>4. QED
    BY <1>1, <2>1, <2>2, <2>3 DEF IInv, StoreFollows, HoldingsOfAccount, GoneStaysGone
<1>6. QED
  BY <1>4, <1>5

\* A load begins for the account that is, or comes to be, in the store.
LEMMA BeginIInv ==
  ASSUME IInv, NEW l \in Loads, NEW s \in StoreType, s.account \in Accounts, s.chain = "bsc",
         Begin(l, s.account, s), synced' \in Session,
         synced'.account = s.account, synced'.chain = s.chain,
         UNCHANGED <<wallet, connecting, closing>>
  PROVE  IInv'
<1> DEFINE n == [NoLoad EXCEPT !.pc = "sent", !.of = s.account]
           t == [s EXCEPT !.loading = TRUE, !.error = FALSE]
<1>1. n \in LoadType /\ n.pc = "sent" /\ n.of = s.account
  BY NoLoadType DEF LoadType, NoLoad
<1>2. t \in StoreType /\ t.account = s.account /\ t.chain = s.chain /\ t.loading
  BY DEF StoreType
<1>3. /\ load' = [load EXCEPT ![l] = n]
      /\ store' = t /\ latest' = l /\ unclosed' = FALSE
  BY DEF Begin
<1> HIDE DEF n, t
<1>4. TypeOK'
  BY <1>1, <1>2, <1>3 DEF IInv, TypeOK
<1>5. ASSUME NEW k \in Loads
      PROVE  load'[k] = IF k = l THEN n ELSE load[k]
  BY <1>3 DEF IInv, TypeOK
<1>6. LoadsAgree'
  BY <1>1, <1>2, <1>3, <1>5, SessionsDiffer DEF IInv, LoadsAgree
<1>7. QED
  BY <1>2, <1>3, <1>4, <1>6, SessionsDiffer
     DEF IInv, StoreFollows, HoldingsOfAccount, GoneStaysGone

\* The effects of useWalletConnectionSync.
LEMMA SyncIInv ==
  ASSUME IInv, Sync
  PROVE  IInv'
<1>1. synced' = wallet /\ UNCHANGED <<wallet, connecting, closing>>
  BY DEF Sync, Extension
<1>2. wallet \in Session \union {NoSession}
  BY DEF IInv, TypeOK
<1>3. CASE SyncGone
  <2>1. wallet = NoSession
    BY <1>2, <1>3 DEF SyncGone, Session
  <2>2. /\ latest' = None /\ store' = Cleared /\ UNCHANGED <<load, unclosed>>
    BY <1>3 DEF SyncGone, Invalidated
  <2>3. TypeOK'
    BY <1>1, <1>2, <2>2, ClearedType DEF IInv, TypeOK
  <2>4. LoadsAgree'
    BY <2>2 DEF IInv, LoadsAgree
  <2>5. store'.account = None /\ store'.chain = "none" /\ store'.holdings = Empty
    BY <2>2 DEF Cleared
  <2>6. QED
    BY <1>1, <2>1, <2>2, <2>3, <2>4, <2>5
       DEF IInv, StoreFollows, HoldingsOfAccount, GoneStaysGone, NoSession
<1>4. CASE SyncWrongNetwork
  <2>1. wallet \in Session
    BY <1>2, <1>4 DEF SyncWrongNetwork, NoSession
  <2>2. /\ latest' = None /\ UNCHANGED <<load, unclosed>>
        /\ store' = [Connected EXCEPT !.holdings = Empty, !.error = FALSE, !.loading = FALSE]
    BY <1>4 DEF SyncWrongNetwork, Invalidated
  <2>3. /\ store' \in StoreType /\ store'.holdings = Empty
        /\ store'.account = wallet.account /\ store'.chain = wallet.chain
    BY <2>1, <2>2 DEF Connected, IInv, TypeOK, StoreType, Session
  <2>4. TypeOK'
    BY <1>1, <1>2, <2>2, <2>3 DEF IInv, TypeOK
  <2>5. LoadsAgree'
    BY <2>2 DEF IInv, LoadsAgree
  <2>6. QED
    BY <1>1, <2>1, <2>3, <2>4, <2>5, SessionsDiffer
       DEF IInv, StoreFollows, HoldingsOfAccount, GoneStaysGone
<1>5. CASE SyncAccount
  <2>1. wallet \in Session /\ wallet.chain = "bsc"
    BY <1>2, <1>5 DEF SyncAccount, NoSession
  <2>2. /\ Connected \in StoreType /\ Connected.chain = "bsc"
        /\ Connected.account = wallet.account /\ wallet.account \in Accounts
    BY <2>1 DEF Connected, IInv, TypeOK, StoreType, Session
  <2>3. PICK l \in Loads : Begin(l, Connected.account, Connected)
    BY <1>5, <2>2 DEF SyncAccount
  <2>4. QED
    BY <1>1, <2>1, <2>2, <2>3, BeginIInv
<1>6. QED
  BY <1>3, <1>4, <1>5 DEF Sync

\* Refresh and Retry load for the account in the store.
LEMMA RefreshIInv ==
  ASSUME IInv, Refresh
  PROVE  IInv'
<1>1. PICK l \in Loads : Begin(l, store.account, store)
  BY DEF Refresh
<1>2. wallet \in Session /\ synced = wallet /\ wallet.chain = "bsc"
  BY DEF Refresh, Rendered, IInv, TypeOK, NoSession
<1>3. /\ store.account = synced.account /\ store.chain = synced.chain
      /\ synced.account \in Accounts
  BY <1>2, SessionsDiffer DEF IInv, StoreFollows, Session
<1>4. store \in StoreType /\ UNCHANGED <<synced, wallet, connecting, closing>>
  BY DEF Refresh, Extension, IInv, TypeOK
<1>5. QED
  BY <1>1, <1>2, <1>3, <1>4, BeginIInv

LEMMA ReloadIInv ==
  ASSUME IInv, Reload
  PROVE  IInv'
<1>1. /\ wallet' = NoSession /\ synced' = Unmounted /\ connecting' = None
      /\ closing' = FALSE /\ unclosed' = FALSE /\ latest' = None
      /\ load' = [l \in Loads |-> NoLoad]
      /\ store' = [Cleared EXCEPT !.account = store.account, !.chain = store.chain]
  BY DEF Reload
<1>2. store' \in StoreType /\ store'.holdings = Empty
  BY <1>1, ClearedType DEF Cleared, StoreType, IInv, TypeOK
<1>3. TypeOK'
  BY <1>1, <1>2, NoLoadType DEF TypeOK
<1>4. LoadsAgree'
  BY <1>1, NoLoadType DEF LoadsAgree
<1>5. QED
  BY <1>1, <1>2, <1>3, <1>4, SessionsDiffer
     DEF IInv, StoreFollows, HoldingsOfAccount, GoneStaysGone

LEMMA NextIInv == IInv /\ [Next]_vars => IInv'
<1> SUFFICES ASSUME IInv, [Next]_vars PROVE IInv'
  OBVIOUS
<1>1. CASE UNCHANGED vars
  BY <1>1 DEF vars, IInv, TypeOK, LoadsAgree, StoreFollows, HoldingsOfAccount, GoneStaysGone
<1>2. CASE Next
  BY <1>2, ServeIInv, ArriveIInv, SyncIInv, RefreshIInv, ReloadIInv, ExtensionIInv DEF Next
<1>3. QED
  BY <1>1, <1>2

(* The inductive invariant: what the counter of walletHoldingsLoader tells  *)
(* apart is enough, however many loads overlap.                             *)
THEOREM Invariance == Spec => []IInv
<1>1. QED
  BY InitIInv, NextIInv, PTL DEF Spec

(* A list shown without a spinner or an error is of the account in the      *)
(* store, on BSC.                                                           *)
THEOREM ShownIsOfAccount == Spec => []HoldingsOfAccount
<1>1. IInv => HoldingsOfAccount
  BY DEF IInv
<1>2. QED
  BY <1>1, Invariance, PTL

(* Nothing of a wallet that is gone comes back with a late answer.          *)
THEOREM GoneWalletLeavesNothing == Spec => []GoneStaysGone
<1>1. IInv => GoneStaysGone
  BY DEF IInv
<1>2. QED
  BY <1>1, Invariance, PTL

-----------------------------------------------------------------------------
(* The price panel: any tokens, any markets, any timing.                    *)

HIDE HoldingsOK DEF HoldingsOK

\* Every request in flight asks what was asked last; if the form has moved on
\* since, the timer of the debounce runs.
CallsAgree ==
  \A c \in calls :
    /\ c = [query |-> c.query, served |-> c.served]
    /\ c.query = asked
    /\ Enabled(step, base) /\ c.query # Query => timer

PriceInv == CallsAgree /\ StaleOnlyWhileChecking

\* The effects set the timer whenever they leave the panel enabled.
LEMMA EffectsPriceInv ==
  ASSUME PriceInv, Effects, Outside
  PROVE  PriceInv'
BY DEF Effects, Outside, panel, PriceInv, CallsAgree, StaleOnlyWhileChecking, Enabled

\* A form whose question is the same, or of no interest, before and after.
LEMMA RestPriceInv ==
  ASSUME PriceInv, UNCHANGED <<timer, panel>>, Outside,
         \/ ~ Enabled(step', base')
         \/ Enabled(step, base) /\ UNCHANGED <<combo, base, quote>>
  PROVE  PriceInv'
BY DEF Outside, panel, PriceInv, CallsAgree, StaleOnlyWhileChecking, Query

LEMMA FormPriceInv ==
  ASSUME PriceInv,
         \/ \E n \in 1..3 : Slide(n) \/ SlideEnds(n)
         \/ \E c \in Combos : SelectDex(c)
         \/ \E b \in Bases : SelectBase(b)
         \/ \E q \in Quotes : SelectQuote(q)
  PROVE  PriceInv'
<1>1. CASE \E n \in 1..3 : Slide(n)
  BY <1>1, RestPriceInv DEF Slide
<1>2. CASE \E n \in 1..3 : SlideEnds(n)
  BY <1>2, EffectsPriceInv, RestPriceInv DEF SlideEnds
<1>3. CASE (\E c \in Combos : SelectDex(c)) \/ \E b \in Bases : SelectBase(b)
  BY <1>3, EffectsPriceInv DEF SelectDex, SelectBase
<1>4. CASE \E q \in Quotes : SelectQuote(q)
  BY <1>4, EffectsPriceInv, RestPriceInv DEF SelectQuote
<1>5. QED
  BY <1>1, <1>2, <1>3, <1>4

\* A new request aborts the one in flight, so the timer is not needed any more.
LEMMA FetchPriceInv ==
  ASSUME PriceInv, Fetch
  PROVE  PriceInv'
BY DEF Fetch, InFlight, Call, form, Query, PriceInv, CallsAgree, StaleOnlyWhileChecking

LEMMA CallPriceInv ==
  ASSUME PriceInv, NEW c \in calls, GetTokenPrice(c) \/ Deliver(c) \/ Failure(c)
  PROVE  PriceInv'
<1>1. PICK q, s : c = [query |-> q, served |-> s]
  BY Zenon DEF PriceInv, CallsAgree
<1>2. \A p : [c EXCEPT !.served = {p}] = [query |-> c.query, served |-> {p}]
  BY <1>1
<1> USE DEF PriceInv, CallsAgree, StaleOnlyWhileChecking, form, Query
<1>3. CASE GetTokenPrice(c)
  <2>1. PICK p : calls' = (calls \ {c}) \union {[c EXCEPT !.served = {p}]}
    BY <1>3 DEF GetTokenPrice
  <2>2. UNCHANGED <<form, timer, asked, panel, market>>
    BY <1>3 DEF GetTokenPrice
  <2>3. PICK d : d = [query |-> c.query, served |-> {p}]
    OBVIOUS
  <2>4. calls' = (calls \ {c}) \union {d}
    BY <1>2, <2>1, <2>3
  <2>5. d = [query |-> d.query, served |-> d.served] /\ d.query = c.query
    BY <2>3
  <2>6. CallsAgree'
    BY <2>2, <2>4, <2>5
  <2>7. QED
    BY <2>2, <2>4, <2>6 DEF panel
<1>4. CASE Deliver(c)
  BY <1>4 DEF Deliver
<1>5. CASE Failure(c)
  BY <1>5 DEF Failure
<1>6. QED
  BY <1>3, <1>4, <1>5

LEMMA NextPriceInv == PriceInv /\ [PriceNext]_priceVars => PriceInv'
<1> SUFFICES ASSUME PriceInv, [PriceNext]_priceVars PROVE PriceInv'
  OBVIOUS
<1>1. CASE Debounced \/ Tick \/ OnRefresh
  BY <1>1, FetchPriceInv DEF Debounced, Tick, OnRefresh
<1>2. CASE Answers \/ Delivers \/ Fails
  BY <1>2, CallPriceInv DEF Answers, Delivers, Fails
<1>3. CASE MarketMoves \/ UNCHANGED priceVars
  BY <1>3 DEF MarketMoves, priceVars, form, panel, Query,
              PriceInv, CallsAgree, StaleOnlyWhileChecking
<1>4. QED
  BY <1>1, <1>2, <1>3, FormPriceInv DEF PriceNext

LEMMA InitPriceInv == PriceInit => PriceInv
BY DEF PriceInit, PriceInv, CallsAgree, StaleOnlyWhileChecking

\* A price of another pair or router is shown only while a newer one is on its
\* way, for any tokens and markets.
THEOREM PriceReplaced == PriceSpec => []StaleOnlyWhileChecking
<1>1. PriceInv => StaleOnlyWhileChecking
  BY DEF PriceInv
<1>2. QED
  BY <1>1, InitPriceInv, NextPriceInv, PTL DEF PriceSpec

\* No answer but that to the last question is ever shown.
THEOREM OlderAnswersAborted == PriceSpec => AnswersNewest
<1>1. PriceInv /\ [PriceNext]_priceVars
        => [data' \notin {data, NoData} => data'.query = asked]_priceVars
  <2> SUFFICES ASSUME PriceInv, [PriceNext]_priceVars, data' \notin {data, NoData}
               PROVE  data'.query = asked
    OBVIOUS
  <2>1. PICK c \in calls : Deliver(c)
    BY DEF PriceNext, Slide, SlideEnds, SelectDex, SelectBase, SelectQuote, Effects, Outside,
           Debounced, Tick, OnRefresh, Fetch, Answers, GetTokenPrice, Delivers, Fails, Failure,
           MarketMoves, priceVars, form, panel
  <2>2. QED
    BY <2>1 DEF Deliver, PriceInv, CallsAgree
<1>2. QED
  BY <1>1, InitPriceInv, NextPriceInv, PTL DEF PriceSpec, AnswersNewest
=============================================================================
