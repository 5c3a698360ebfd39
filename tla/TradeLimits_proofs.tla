------------------------- MODULE TradeLimits_proofs -------------------------
(* Proofs about TradeLimits, for any number of traders, requests, handlers  *)
(* and overlapping syncs, any limits and any course of the price.           *)
EXTENDS TradeLimits, TLAPS

USE LimitsOK DEF LimitsOK

-----------------------------------------------------------------------------
(* Types.                                                                  *)

LEMMA OneIsUSD == 1 \in USD
BY DEF USD

LEMMA ForType ==
  ASSUME NEW pc \in Pcs, NEW t \in Traders, NEW x \in USD
  PROVE  /\ For(pc, t, x) \in HandlerType
         /\ For(pc, t, x).pc = pc /\ For(pc, t, x).user = t
         /\ For(pc, t, x).usd = x /\ For(pc, t, x).about = {}
BY DEF For, HandlerType

LEMMA IdleType == Idle \in HandlerType /\ Idle.pc = "idle" /\ Idle.about = {}
<1>1. Default \in Traders /\ "idle" \in Pcs
  BY DEF Default, Pcs
<1>2. QED
  BY <1>1, OneIsUSD, ForType DEF Idle

LEMMA AboutType ==
  ASSUME NEW pc \in Pcs, NEW q \in Requests
  PROVE  About(pc, q) \in HandlerType /\ About(pc, q).pc = pc /\ About(pc, q).about = {q}
BY IdleType DEF About, HandlerType

LEMMA RestingType == Resting \in SyncType /\ Resting.pc = "idle" /\ Resting.todo = {}
BY DEF Resting, SyncType

LEMMA InitIInv == Init => IInv
<1> SUFFICES ASSUME Init PROVE IInv
  OBVIOUS
<1>1. NoRequest(Default) \in RequestType /\ NoRequest(Default).st = "none"
  BY OneIsUSD DEF NoRequest, RequestType, Statuses, Default
<1>2. TypeOK
  <2>1. usd \in [Traders -> USD] /\ bnb \in [Traders -> USD] /\ active \in [Traders -> BOOLEAN]
    BY OneIsUSD DEF Init
  <2>2. request \in [Requests -> RequestType] /\ handler \in [Handlers -> HandlerType]
    BY <1>1, IdleType DEF Init
  <2>3. sync \in [Syncs -> SyncType] /\ lastSync \in Prices \union {0}
    BY RestingType DEF Init
  <2>4. QED
    BY <2>1, <2>2, <2>3 DEF Init, TypeOK
<1>3. LimitsAgree
  BY IdleType, RestingType DEF Init, LimitsAgree, StaleReader
<1>4. OneDecision /\ GrantedStaysApproved
  BY IdleType DEF Init, OneDecision, GrantedStaysApproved, Concerned
<1>5. QED
  BY <1>2, <1>3, <1>4 DEF IInv

-----------------------------------------------------------------------------
(* Handlers that are about no request afterwards.                          *)

\* Who reads a limit holds the present one, or the trader is unsettled.
LEMMA FreeIInv ==
  ASSUME IInv, NEW h \in Handlers, NEW n \in HandlerType, n.about = {},
         n.pc = "store" => n.usd = usd[n.user] \/ n.user \in unsettled,
         handler' = [handler EXCEPT ![h] = n], OnlyHandler
  PROVE  IInv'
<1>1. UNCHANGED <<usd, bnb, active, request, lastSync, sync, granted, raced, unsettled>>
  BY DEF OnlyHandler, rowVars, syncVars, history
<1>2. ASSUME NEW g \in Handlers
      PROVE  handler'[g] = IF g = h THEN n ELSE handler[g]
  BY DEF IInv, TypeOK
<1>3. TypeOK'
  BY <1>1 DEF IInv, TypeOK
<1>4. LimitsAgree'
  <2> SUFFICES ASSUME NEW t \in Traders, t \notin unsettled
               PROVE  bnb[t] = usd[t] /\ ~StaleReader(t, usd[t])'
    BY <1>1 DEF LimitsAgree
  <2>1. bnb[t] = usd[t] /\ ~StaleReader(t, usd[t])
    BY DEF IInv, LimitsAgree
  <2>2. QED
    BY <1>1, <1>2, <2>1 DEF StaleReader
<1>5. \A q \in Requests : Concerned(q)' \subseteq Concerned(q) /\ h \notin Concerned(q)'
  BY <1>2 DEF Concerned
<1>6. \A q \in Requests, g \in Handlers : g \in Concerned(q)' => handler'[g] = handler[g]
  BY <1>2, <1>5
<1>7. OneDecision'
  BY <1>1, <1>5, <1>6 DEF IInv, OneDecision, Concerned
<1>8. GrantedStaysApproved'
  BY <1>1 DEF IInv, GrantedStaysApproved
<1>9. QED
  BY <1>3, <1>4, <1>7, <1>8 DEF IInv

LEMMA SubmitIInv ==
  ASSUME IInv, NEW h \in Handlers, NEW t \in Traders, NEW x \in USD, Submit(h, t, x)
  PROVE  IInv'
<1> DEFINE n == For("create", t, x)
<1>1. n \in HandlerType /\ n.pc = "create" /\ n.about = {}
  BY ForType DEF Pcs
<1>2. handler' = [handler EXCEPT ![h] = n] /\ OnlyHandler
  BY DEF Submit, Goto
<1> HIDE DEF n
<1>3. n.pc # "store"
  BY <1>1
<1>4. QED
  BY <1>1, <1>2, <1>3, FreeIInv

LEMMA RecalculateIInv ==
  ASSUME IInv, NEW h \in Handlers, Recalculate(h)
  PROVE  IInv'
<1> DEFINE t == handler[h].user
           n == For("store", t, usd[t])
<1>1. "store" \in Pcs /\ t \in Traders /\ usd[t] \in USD
  BY DEF Pcs, IInv, TypeOK, HandlerType
<1>2. n \in HandlerType /\ n.about = {} /\ n.user = t /\ n.usd = usd[t]
  BY <1>1, ForType
<1>3. handler' = [handler EXCEPT ![h] = n] /\ OnlyHandler
  BY DEF Recalculate, Goto
<1> HIDE DEF t, n
<1>4. QED
  BY <1>2, <1>3, FreeIInv

LEMMA AbortIInv ==
  ASSUME IInv, NEW h \in Handlers, Abort(h)
  PROVE  IInv'
<1>1. handler' = [handler EXCEPT ![h] = Idle] /\ OnlyHandler
  BY DEF Abort, Done, Goto
<1>2. QED
  BY <1>1, IdleType, FreeIInv

-----------------------------------------------------------------------------
(* The limits.                                                             *)

\* Steps that keep the requests and make some handler idle, or make it go on
\* without a request: what is left is the agreement of the limits.
LEMMA DecisionsKept ==
  ASSUME IInv, UNCHANGED <<request, granted, raced>>,
         \A g \in Handlers : handler'[g] = handler[g] \/ handler'[g].about = {}
  PROVE  OneDecision' /\ GrantedStaysApproved'
<1>1. \A q \in Requests, g \in Handlers :
        g \in Concerned(q)' => g \in Concerned(q) /\ handler'[g] = handler[g]
  BY DEF Concerned
<1>2. OneDecision'
  BY <1>1 DEF IInv, OneDecision, Concerned
<1>3. QED
  BY <1>2 DEF IInv, GrantedStaysApproved

\* A write of the BNB limit of one trader, by someone who then forgets it.
LEMMA BnbWritten ==
  ASSUME IInv, NEW t \in Traders, NEW x \in USD,
         usd' = usd, bnb' = [bnb EXCEPT ![t] = x],
         unsettled' = IF x = usd[t] THEN Settled(t, x) ELSE unsettled,
         x # usd[t] => StaleReader(t, usd[t]),
         \A u \in Traders, y \in USD : StaleReader(u, y)' => StaleReader(u, y)
  PROVE  LimitsAgree'
<1> SUFFICES ASSUME NEW u \in Traders, u \notin unsettled'
             PROVE  bnb'[u] = usd[u] /\ ~StaleReader(u, usd[u])'
  BY DEF LimitsAgree
<1>1. usd[u] \in USD /\ usd'[u] = usd[u]
  BY DEF IInv, TypeOK
<1>2. CASE u # t
  <2>1. u \notin unsettled /\ bnb'[u] = bnb[u]
    BY <1>2 DEF Settled, IInv, TypeOK
  <2>2. bnb[u] = usd[u] /\ ~StaleReader(u, usd[u])
    BY <2>1 DEF IInv, LimitsAgree
  <2>3. QED
    BY <1>1, <2>1, <2>2
<1>3. CASE u = t
  <2>1. x = usd[t]
    BY <1>3 DEF IInv, LimitsAgree
  <2>2. ~StaleReader(t, x)
    BY <1>3, <2>1 DEF Settled
  <2>3. QED
    BY <1>1, <1>3, <2>1, <2>2 DEF IInv, TypeOK
<1>4. QED
  BY <1>2, <1>3

LEMMA StoreBnbIInv ==
  ASSUME IInv, NEW h \in Handlers, StoreBnb(h)
  PROVE  IInv'
<1> DEFINE t == handler[h].user
           x == handler[h].usd
<1>1. t \in Traders /\ x \in USD /\ handler[h].pc = "store"
  BY DEF StoreBnb, IInv, TypeOK, HandlerType
<1>2. /\ handler' = [handler EXCEPT ![h] = Idle]
      /\ bnb' = [bnb EXCEPT ![t] = x]
      /\ unsettled' = IF x = usd[t] THEN Settled(t, x) ELSE unsettled
      /\ UNCHANGED <<usd, active, request, lastSync, sync, granted, raced>>
  BY DEF StoreBnb, Done, Goto, syncVars
<1>3. ASSUME NEW g \in Handlers
      PROVE  handler'[g] = IF g = h THEN Idle ELSE handler[g]
  BY <1>2 DEF IInv, TypeOK
<1>4. x # usd[t] => StaleReader(t, usd[t])
  BY <1>1 DEF StaleReader
<1> HIDE DEF t, x
<1>5. TypeOK'
  <2>1. unsettled' \subseteq Traders
    BY <1>1, <1>2 DEF Settled, IInv, TypeOK
  <2>2. handler' \in [Handlers -> HandlerType] /\ bnb' \in [Traders -> USD]
    BY <1>1, <1>2, IdleType DEF IInv, TypeOK
  <2>3. QED
    BY <1>2, <2>1, <2>2 DEF IInv, TypeOK
<1>6. \A u \in Traders, y \in USD : StaleReader(u, y)' => StaleReader(u, y)
  BY <1>2, <1>3, IdleType DEF StaleReader
<1>7. LimitsAgree'
  BY <1>1, <1>2, <1>4, <1>6, BnbWritten
<1>8. OneDecision' /\ GrantedStaysApproved'
  BY <1>2, <1>3, IdleType, DecisionsKept
<1>9. QED
  BY <1>5, <1>7, <1>8 DEF IInv

LEMMA SyncUserIInv ==
  ASSUME IInv, NEW s \in Syncs, SyncUser(s)
  PROVE  IInv'
<1>1. PICK item \in sync[s].todo :
        /\ bnb' = [bnb EXCEPT ![item[1]] = item[2]]
        /\ sync' = [sync EXCEPT ![s] = [@ EXCEPT !.todo = sync[s].todo \ {item}]]
        /\ unsettled' = IF item[2] = usd[item[1]] THEN Settled(item[1], item[2]) ELSE unsettled
  BY DEF SyncUser
<1>2. sync[s] \in SyncType /\ item \in Traders \X USD
  BY DEF IInv, TypeOK, SyncType
<1>3. PICK t \in Traders, x \in USD : item = <<t, x>>
  BY <1>2
<1> DEFINE n == [sync[s] EXCEPT !.todo = sync[s].todo \ {item}]
<1>4. n \in SyncType /\ n.todo \subseteq sync[s].todo
  BY <1>2 DEF SyncType
<1>5. /\ sync' = [sync EXCEPT ![s] = n]
      /\ bnb' = [bnb EXCEPT ![t] = x]
      /\ unsettled' = IF x = usd[t] THEN Settled(t, x) ELSE unsettled
  BY <1>1, <1>3
<1>6. UNCHANGED <<usd, active, request, handler, lastSync, granted, raced>>
  BY DEF SyncUser
<1> HIDE DEF n
<1>7. ASSUME NEW r \in Syncs
      PROVE  sync'[r].todo \subseteq sync[r].todo
  BY <1>4, <1>5 DEF IInv, TypeOK
<1>8. TypeOK'
  <2>1. unsettled' \subseteq Traders
    BY <1>5 DEF Settled, IInv, TypeOK
  <2>2. sync' \in [Syncs -> SyncType] /\ bnb' \in [Traders -> USD]
    BY <1>4, <1>5 DEF IInv, TypeOK
  <2>3. QED
    BY <1>6, <2>1, <2>2 DEF IInv, TypeOK
<1>9. x # usd[t] => StaleReader(t, usd[t])
  BY <1>1, <1>3 DEF StaleReader
<1>10. \A u \in Traders, y \in USD : StaleReader(u, y)' => StaleReader(u, y)
  BY <1>6, <1>7 DEF StaleReader
<1>11. LimitsAgree'
  BY <1>5, <1>6, <1>9, <1>10, BnbWritten
<1>12. OneDecision' /\ GrantedStaysApproved'
  BY <1>6, DecisionsKept
<1>13. QED
  BY <1>8, <1>11, <1>12 DEF IInv

\* Overriding excuses the trader until the BNB limit is written from it.
LEMMA OverrideIInv ==
  ASSUME IInv, NEW h \in Handlers, NEW t \in Traders, NEW x \in USD, Override(h, t, x)
  PROVE  IInv'
<1> DEFINE n == For("recalc", t, 1)
<1>1. n \in HandlerType /\ n.pc = "recalc" /\ n.about = {}
  BY OneIsUSD, ForType DEF Pcs
<1>2. /\ usd' = [usd EXCEPT ![t] = x]
      /\ handler' = [handler EXCEPT ![h] = n]
      /\ unsettled' = unsettled \union {t}
      /\ UNCHANGED <<bnb, active, request, lastSync, sync, granted, raced>>
  BY DEF Override, Goto, syncVars
<1> HIDE DEF n
<1>3. ASSUME NEW g \in Handlers
      PROVE  handler'[g] = IF g = h THEN n ELSE handler[g]
  BY <1>2 DEF IInv, TypeOK
<1>4. TypeOK'
  BY <1>1, <1>2 DEF IInv, TypeOK
<1>5. LimitsAgree'
  <2> SUFFICES ASSUME NEW u \in Traders, u \notin unsettled'
               PROVE  bnb[u] = usd'[u] /\ ~StaleReader(u, usd[u])'
    BY <1>2 DEF LimitsAgree
  <2>1. usd'[u] = usd[u] /\ u \notin unsettled
    BY <1>2 DEF IInv, TypeOK
  <2>2. bnb[u] = usd[u] /\ ~StaleReader(u, usd[u])
    BY <2>1 DEF IInv, LimitsAgree
  <2>3. QED
    BY <1>1, <1>2, <1>3, <2>1, <2>2 DEF StaleReader
<1>6. OneDecision' /\ GrantedStaysApproved'
  BY <1>1, <1>2, <1>3, DecisionsKept
<1>7. QED
  BY <1>4, <1>5, <1>6 DEF IInv

\* An approval writes both limits at once, and its handler is done with them.
LEMMA GrantIInv ==
  ASSUME IInv, NEW h \in Handlers, NEW q \in Requests, Grant(h, q)
  PROVE  IInv'
<1> DEFINE t == request[q].user
           x == request[q].usd
<1>1. t \in Traders /\ x \in USD
  BY DEF IInv, TypeOK, RequestType
<1>2. /\ handler' = [handler EXCEPT ![h] = Idle]
      /\ usd' = [usd EXCEPT ![t] = x]
      /\ bnb' = [bnb EXCEPT ![t] = x]
      /\ unsettled' = Settled(t, x)
      /\ granted' = granted \union {q}
      /\ UNCHANGED <<active, request, lastSync, sync, raced>>
  BY DEF Grant, Done, Goto, syncVars, GrantedBnb
<1>3. h \in Concerned(q) /\ handler[h].pc = "grant"
  BY DEF Grant, Concerned
<1> HIDE DEF t, x
<1>4. ASSUME NEW g \in Handlers
      PROVE  handler'[g] = IF g = h THEN Idle ELSE handler[g]
  BY <1>2 DEF IInv, TypeOK
<1>5. TypeOK'
  <2>1. unsettled' \subseteq Traders
    BY <1>1, <1>2 DEF Settled, IInv, TypeOK
  <2>2. handler' \in [Handlers -> HandlerType]
    BY <1>2, IdleType DEF IInv, TypeOK
  <2>3. usd' \in [Traders -> USD] /\ bnb' \in [Traders -> USD]
    BY <1>1, <1>2 DEF IInv, TypeOK
  <2>4. QED
    BY <1>2, <2>1, <2>2, <2>3 DEF IInv, TypeOK
<1>6. \A u \in Traders, y \in USD : StaleReader(u, y)' => StaleReader(u, y)
  BY <1>2, <1>4, IdleType DEF StaleReader
<1>7. LimitsAgree'
  <2> SUFFICES ASSUME NEW u \in Traders, u \notin unsettled'
               PROVE  bnb'[u] = usd'[u] /\ ~StaleReader(u, usd[u])'
    BY DEF LimitsAgree
  <2>1. usd'[u] \in USD
    BY <1>5 DEF TypeOK
  <2>2. CASE u # t
    <3>1. u \notin unsettled /\ bnb'[u] = bnb[u] /\ usd'[u] = usd[u]
      BY <1>2, <2>2 DEF Settled, IInv, TypeOK
    <3>2. bnb[u] = usd[u] /\ ~StaleReader(u, usd[u])
      BY <3>1 DEF IInv, LimitsAgree
    <3>3. QED
      BY <1>6, <2>1, <3>1, <3>2
  <2>3. CASE u = t
    <3>1. ~StaleReader(t, x)
      BY <1>2, <2>3 DEF Settled
    <3>2. bnb'[t] = x /\ usd'[t] = x
      BY <1>1, <1>2 DEF IInv, TypeOK
    <3>3. QED
      BY <1>6, <2>1, <2>3, <3>1, <3>2
  <2>4. QED
    BY <2>2, <2>3
<1>8. \A p \in Requests, g \in Handlers :
        g \in Concerned(p)' => g # h /\ g \in Concerned(p) /\ handler'[g] = handler[g]
  BY <1>4, IdleType DEF Concerned
<1>9. OneDecision'
  BY <1>2, <1>3, <1>8 DEF IInv, OneDecision, Concerned
<1>10. GrantedStaysApproved'
  BY <1>2, <1>3 DEF IInv, OneDecision, GrantedStaysApproved
<1>11. QED
  BY <1>5, <1>7, <1>9, <1>10 DEF IInv

-----------------------------------------------------------------------------
(* The decisions.                                                          *)

\* Steps that leave the limits alone and keep whoever is about to store one.
LEMMA LimitsKept ==
  ASSUME IInv, UNCHANGED <<usd, bnb, sync, unsettled>>,
         \A g \in Handlers : handler'[g] = handler[g] \/ handler'[g].pc # "store"
  PROVE  LimitsAgree'
<1> SUFFICES ASSUME NEW t \in Traders, t \notin unsettled
             PROVE  bnb[t] = usd[t] /\ ~StaleReader(t, usd[t])'
  BY DEF LimitsAgree
<1>1. bnb[t] = usd[t] /\ ~StaleReader(t, usd[t])
  BY DEF IInv, LimitsAgree
<1>2. QED
  BY <1>1 DEF StaleReader

\* A row that does not exist yet is no handler's, and nobody was granted it.
LEMMA CreateIInv ==
  ASSUME IInv, NEW h \in Handlers, NEW q \in Requests, Create(h, q)
  PROVE  IInv'
<1> DEFINE n == [st |-> "pending", user |-> handler[h].user, usd |-> handler[h].usd]
<1>1. n \in RequestType /\ n.st = "pending"
  BY DEF IInv, TypeOK, HandlerType, RequestType, Statuses
<1>2. /\ request[q].st = "none"
      /\ request' = [request EXCEPT ![q] = n]
      /\ handler' = [handler EXCEPT ![h] = Idle]
      /\ UNCHANGED <<usd, bnb, active, lastSync, sync, granted, raced, unsettled>>
  BY DEF Create, Done, Goto, rowVars, syncVars, history
<1> HIDE DEF n
<1>3. ASSUME NEW g \in Handlers
      PROVE  handler'[g] = IF g = h THEN Idle ELSE handler[g]
  BY <1>2 DEF IInv, TypeOK
<1>4. TypeOK'
  <2>1. request' \in [Requests -> RequestType] /\ handler' \in [Handlers -> HandlerType]
    BY <1>1, <1>2, IdleType DEF IInv, TypeOK
  <2>2. QED
    BY <1>2, <2>1 DEF IInv, TypeOK
<1>5. LimitsAgree'
  <2>1. Idle.pc # "store"
    BY IdleType
  <2>2. QED
    BY <1>2, <1>3, <2>1, LimitsKept
<1>6. \A p \in Requests, g \in Handlers :
        g \in Concerned(p)' => g # h /\ g \in Concerned(p) /\ handler'[g] = handler[g]
  BY <1>3, IdleType DEF Concerned
<1>7. \A p \in Requests : p # q => request'[p] = request[p]
  BY <1>2 DEF IInv, TypeOK
<1>8. q \notin raced => Concerned(q) = {} /\ q \notin granted
  <2> SUFFICES ASSUME q \notin raced PROVE Concerned(q) = {} /\ q \notin granted
    OBVIOUS
  <2>1. Concerned(q) = {}
    BY <1>2 DEF IInv, OneDecision, Concerned
  <2>2. q \notin granted
    BY <1>2 DEF IInv, GrantedStaysApproved
  <2>3. QED
    BY <2>1, <2>2
<1>9. OneDecision'
  <2> SUFFICES ASSUME NEW p \in Requests, p \notin raced
               PROVE  /\ \A g, k \in Concerned(p)' : g = k
                      /\ \A k \in Concerned(p)' :
                           request'[p].st = IF handler'[k].pc = "grant"
                                            THEN "approved" ELSE "pending"
                      /\ p \in granted => Concerned(p)' = {}
    BY <1>2 DEF OneDecision
  <2>1. CASE p = q
    BY <1>6, <1>8, <2>1 DEF Concerned
  <2>2. CASE p # q
    BY <1>6, <1>7, <2>2 DEF IInv, OneDecision, Concerned
  <2>3. QED
    BY <2>1, <2>2
<1>10. GrantedStaysApproved'
  BY <1>2, <1>7, <1>8 DEF IInv, GrantedStaysApproved
<1>11. QED
  BY <1>4, <1>5, <1>9, <1>10 DEF IInv

\* A second handler that finds the request pending is what makes a race.
LEMMA ReadRequestIInv ==
  ASSUME IInv, NEW h \in Handlers, NEW q \in Requests,
         NEW pc \in {"approve", "reject", "cancel"}, ReadRequest(h, q, pc)
  PROVE  IInv'
<1> DEFINE n == About(pc, q)
<1>1. n \in HandlerType /\ n.pc = pc /\ n.about = {q}
  BY AboutType DEF Pcs
<1>2. /\ request[q].st = "pending"
      /\ handler' = [handler EXCEPT ![h] = n]
      /\ raced' = IF Concerned(q) = {} THEN raced ELSE raced \union {q}
      /\ UNCHANGED <<usd, bnb, active, request, lastSync, sync, granted, unsettled>>
  BY DEF ReadRequest, Decidable, Goto, rowVars, syncVars
<1> HIDE DEF n
<1>3. ASSUME NEW g \in Handlers
      PROVE  handler'[g] = IF g = h THEN n ELSE handler[g]
  BY <1>2 DEF IInv, TypeOK
<1>4. TypeOK'
  BY <1>1, <1>2 DEF IInv, TypeOK
<1>5. LimitsAgree'
  <2>1. n.pc # "store"
    BY <1>1
  <2>2. QED
    BY <1>2, <1>3, <2>1, LimitsKept
<1>6. \A p \in Requests \ {q}, g \in Handlers :
        g \in Concerned(p)' => g # h /\ g \in Concerned(p) /\ handler'[g] = handler[g]
  BY <1>1, <1>3 DEF Concerned
<1>7. \A p \in Requests : p \notin raced' => p \notin raced
  BY <1>2
<1>8. q \notin raced' => Concerned(q) = {} /\ q \notin granted
  <2> SUFFICES ASSUME q \notin raced' PROVE Concerned(q) = {} /\ q \notin granted
    OBVIOUS
  <2>1. Concerned(q) = {}
    BY <1>2
  <2>2. q \notin granted
    BY <1>2, <1>7 DEF IInv, GrantedStaysApproved
  <2>3. QED
    BY <2>1, <2>2
<1>9. OneDecision'
  <2> SUFFICES ASSUME NEW p \in Requests, p \notin raced'
               PROVE  /\ \A g, k \in Concerned(p)' : g = k
                      /\ \A k \in Concerned(p)' :
                           request[p].st = IF handler'[k].pc = "grant"
                                           THEN "approved" ELSE "pending"
                      /\ p \in granted => Concerned(p)' = {}
    BY <1>2 DEF OneDecision
  <2>1. CASE p = q
    <3>1. \A g \in Concerned(q)' : g = h
      BY <1>3, <1>8, <2>1 DEF Concerned
    <3>2. handler'[h].pc # "grant"
      BY <1>1, <1>3
    <3>3. QED
      BY <1>2, <1>8, <2>1, <3>1, <3>2
  <2>2. CASE p # q
    BY <1>6, <1>7, <2>2 DEF IInv, OneDecision, Concerned
  <2>3. QED
    BY <2>1, <2>2
<1>10. GrantedStaysApproved'
  BY <1>2, <1>7 DEF IInv, GrantedStaysApproved
<1>11. QED
  BY <1>4, <1>5, <1>9, <1>10 DEF IInv

\* The status is written by the one handler about the request, to which only
\* an approval goes on.
LEMMA WriteStatusIInv ==
  ASSUME IInv, NEW h \in Handlers, NEW q \in Requests, WriteStatus(h, q)
  PROVE  IInv'
<1>1. handler[h].about = {q} /\ handler[h].pc \in {"approve", "reject", "cancel"}
  BY DEF WriteStatus
<1>2. UNCHANGED <<usd, bnb, active, lastSync, sync, granted, raced, unsettled>>
  BY DEF WriteStatus, rowVars, syncVars, history
<1>3. CASE request[q].st = "deleted"
  <2>1. handler' = [handler EXCEPT ![h] = Idle] /\ OnlyHandler
    BY <1>2, <1>3 DEF WriteStatus, Done, Goto, OnlyHandler, rowVars, syncVars, history
  <2>2. Idle.pc # "store"
    BY IdleType
  <2>3. QED
    BY <2>1, <2>2, IdleType, FreeIInv
<1>4. CASE request[q].st # "deleted"
  <2> DEFINE w == [request[q] EXCEPT !.st = Decided(handler[h].pc)]
             n == IF handler[h].pc = "approve" THEN About("grant", q) ELSE Idle
  <2>1. w \in RequestType /\ w.st = Decided(handler[h].pc)
    BY DEF IInv, TypeOK, RequestType, Decided, Statuses
  <2>2. /\ n \in HandlerType
        /\ \/ n.pc = "grant" /\ n.about = {q} /\ w.st = "approved"
           \/ n.pc = "idle" /\ n.about = {}
    BY <1>1, <2>1, IdleType, AboutType DEF Pcs, Decided
  <2>3. handler' = [handler EXCEPT ![h] = n] /\ request' = [request EXCEPT ![q] = w]
    BY <1>4 DEF WriteStatus, Done, Goto
  <2> HIDE DEF w, n
  <2>4. ASSUME NEW g \in Handlers
        PROVE  handler'[g] = IF g = h THEN n ELSE handler[g]
    BY <2>3 DEF IInv, TypeOK
  <2>5. TypeOK'
    BY <1>2, <2>1, <2>2, <2>3 DEF IInv, TypeOK
  <2>6. LimitsAgree'
    <3>1. n.pc # "store"
      BY <2>2
    <3>2. QED
      BY <1>2, <2>4, <3>1, LimitsKept
  <2>7. \A p \in Requests \ {q}, g \in Handlers :
          g \in Concerned(p)' => g # h /\ g \in Concerned(p) /\ handler'[g] = handler[g]
    BY <2>2, <2>4 DEF Concerned
  <2>8. /\ request'[q] = w
        /\ \A p \in Requests : p # q => request'[p] = request[p]
    BY <2>3 DEF IInv, TypeOK
  <2>9. h \in Concerned(q)
    BY <1>1 DEF Concerned
  <2>10. OneDecision'
    <3> SUFFICES ASSUME NEW p \in Requests, p \notin raced
                 PROVE  /\ \A g, k \in Concerned(p)' : g = k
                        /\ \A k \in Concerned(p)' :
                             request'[p].st = IF handler'[k].pc = "grant"
                                              THEN "approved" ELSE "pending"
                        /\ p \in granted => Concerned(p)' = {}
      BY <1>2 DEF OneDecision
    <3>1. CASE p = q
      <4>1. \A g \in Concerned(q)' : g = h /\ handler'[g].pc = "grant" /\ w.st = "approved"
        BY <2>2, <2>4, <2>9, <3>1 DEF IInv, OneDecision, Concerned
      <4>2. p \notin granted
        BY <2>9, <3>1 DEF IInv, OneDecision
      <4>3. QED
        BY <2>8, <3>1, <4>1, <4>2
    <3>2. CASE p # q
      BY <1>2, <2>7, <2>8, <3>2 DEF IInv, OneDecision, Concerned
    <3>3. QED
      BY <3>1, <3>2
  <2>11. GrantedStaysApproved'
    <3>1. q \notin raced => q \notin granted
      BY <2>9 DEF IInv, OneDecision
    <3>2. granted \subseteq Requests
      BY DEF IInv, TypeOK
    <3>3. QED
      BY <1>2, <2>8, <3>1, <3>2 DEF IInv, GrantedStaysApproved
  <2>12. QED
    BY <2>5, <2>6, <2>10, <2>11 DEF IInv
<1>5. QED
  BY <1>3, <1>4

-----------------------------------------------------------------------------
(* The price, the syncs and the rest.                                      *)

\* Steps of the syncs that write no limit.
LEMMA SyncIInv ==
  ASSUME IInv, UNCHANGED <<usd, bnb, active, request, handler, granted, raced, unsettled>>,
         sync' \in [Syncs -> SyncType], lastSync' \in Prices \union {0},
         \A r \in Syncs : \A item \in sync'[r].todo :
           item \in sync[r].todo \/ \E t \in Traders : item = <<t, usd[t]>>
  PROVE  IInv'
<1>1. TypeOK'
  BY DEF IInv, TypeOK
<1>2. LimitsAgree'
  <2> SUFFICES ASSUME NEW t \in Traders, t \notin unsettled
               PROVE  bnb[t] = usd[t] /\ ~StaleReader(t, usd[t])'
    BY DEF LimitsAgree
  <2>1. bnb[t] = usd[t] /\ ~StaleReader(t, usd[t])
    BY DEF IInv, LimitsAgree
  <2>2. \A s \in Syncs, y \in USD : <<t, y>> \in sync'[s].todo => y = usd[t]
    BY <2>1 DEF StaleReader
  <2>3. QED
    BY <2>1, <2>2 DEF StaleReader
<1>3. OneDecision' /\ GrantedStaysApproved'
  BY DecisionsKept
<1>4. QED
  BY <1>1, <1>2, <1>3 DEF IInv

LEMMA FetchPriceIInv ==
  ASSUME IInv, NEW p \in Prices, FetchPrice(p)
  PROVE  IInv'
<1>1. UNCHANGED <<usd, bnb, active, request, handler, lastSync, granted, raced, unsettled>>
  BY DEF FetchPrice, rowVars, history
<1>2. CASE UNCHANGED sync
  BY <1>1, <1>2, SyncIInv DEF IInv, TypeOK
<1>3. CASE sync' # sync
  <2>1. PICK s \in Syncs : sync' = [sync EXCEPT ![s] = [Resting EXCEPT !.pc = "read", !.at = p]]
    BY <1>3 DEF FetchPrice
  <2> DEFINE n == [Resting EXCEPT !.pc = "read", !.at = p]
  <2>2. n \in SyncType /\ n.todo = {}
    BY RestingType DEF SyncType
  <2>3. sync' = [sync EXCEPT ![s] = n]
    BY <2>1
  <2> HIDE DEF n
  <2>4. sync' \in [Syncs -> SyncType]
    BY <2>2, <2>3 DEF IInv, TypeOK
  <2>5. \A r \in Syncs : sync'[r].todo \subseteq sync[r].todo
    BY <2>2, <2>3 DEF IInv, TypeOK
  <2>6. QED
    BY <1>1, <2>4, <2>5, SyncIInv DEF IInv, TypeOK
<1>4. QED
  BY <1>2, <1>3

\* What a sync reads is the limit there is.
LEMMA ReadUsersIInv ==
  ASSUME IInv, NEW s \in Syncs, ReadUsers(s)
  PROVE  IInv'
<1> DEFINE todo == {<<t, usd[t]>> : t \in Selected}
           n == [sync[s] EXCEPT !.pc = "write", !.todo = todo]
<1>1. sync[s] \in SyncType /\ todo \subseteq Traders \X USD
  BY DEF IInv, TypeOK, Selected
<1>2. \A item \in todo : \E t \in Traders : item = <<t, usd[t]>>
  BY DEF Selected
<1>3. /\ sync' = [sync EXCEPT ![s] = n]
      /\ UNCHANGED <<usd, bnb, active, request, handler, lastSync, granted, raced, unsettled>>
  BY DEF ReadUsers, rowVars, history
<1> HIDE DEF todo
<1>4. n \in SyncType /\ n.todo = todo
  BY <1>1 DEF SyncType
<1> HIDE DEF n
<1>5. sync' \in [Syncs -> SyncType]
  BY <1>3, <1>4 DEF IInv, TypeOK
<1>6. \A r \in Syncs : sync'[r] = IF r = s THEN n ELSE sync[r]
  BY <1>3 DEF IInv, TypeOK
<1>7. QED
  BY <1>2, <1>3, <1>4, <1>5, <1>6, SyncIInv DEF IInv, TypeOK

LEMMA EndSyncIInv ==
  ASSUME IInv, NEW s \in Syncs, EndSync(s)
  PROVE  IInv'
<1>1. /\ lastSync' = sync[s].at
      /\ sync' = [sync EXCEPT ![s] = Resting]
      /\ UNCHANGED <<usd, bnb, active, request, handler, granted, raced, unsettled>>
  BY DEF EndSync, rowVars, history
<1>2. sync' \in [Syncs -> SyncType] /\ lastSync' \in Prices \union {0}
  BY <1>1, RestingType DEF IInv, TypeOK, SyncType
<1>3. \A r \in Syncs : sync'[r].todo \subseteq sync[r].todo
  BY <1>1, RestingType DEF IInv, TypeOK
<1>4. QED
  BY <1>1, <1>2, <1>3, SyncIInv

LEMMA SetActiveIInv ==
  ASSUME IInv, NEW h \in Handlers, NEW t \in Traders, NEW flag \in BOOLEAN,
         SetActive(h, t, flag)
  PROVE  IInv'
<1>1. UNCHANGED <<usd, bnb, request, handler, lastSync, sync, granted, raced, unsettled>>
  BY DEF SetActive, syncVars, history
<1>2. active' \in [Traders -> BOOLEAN]
  BY DEF SetActive, IInv, TypeOK
<1>3. LimitsAgree' /\ OneDecision' /\ GrantedStaysApproved'
  BY <1>1, LimitsKept, DecisionsKept
<1>4. QED
  BY <1>1, <1>2, <1>3 DEF IInv, TypeOK

\* The process dies: nobody holds an amount any more.
LEMMA CrashIInv ==
  ASSUME IInv, Crash
  PROVE  IInv'
<1>1. /\ lastSync' = 0
      /\ sync' = [s \in Syncs |-> Resting]
      /\ handler' = [h \in Handlers |-> Idle]
      /\ UNCHANGED <<usd, bnb, active, request, granted, raced, unsettled>>
  BY DEF Crash, rowVars, history
<1>2. TypeOK'
  BY <1>1, IdleType, RestingType DEF IInv, TypeOK
<1>3. LimitsAgree'
  BY <1>1, IdleType, RestingType DEF IInv, LimitsAgree, StaleReader
<1>4. OneDecision' /\ GrantedStaysApproved'
  BY <1>1, IdleType, DecisionsKept
<1>5. QED
  BY <1>2, <1>3, <1>4 DEF IInv

LEMMA NextIInv == IInv /\ [Next]_vars => IInv'
<1> SUFFICES ASSUME IInv, [Next]_vars PROVE IInv'
  OBVIOUS
<1>1. ASSUME NEW h \in Handlers, HandlerStep(h) PROVE IInv'
  <2>1. CASE Recalculate(h) \/ StoreBnb(h) \/ Abort(h)
    BY <2>1, RecalculateIInv, StoreBnbIInv, AbortIInv
  <2>2. ASSUME NEW t \in Traders, NEW x \in USD, Submit(h, t, x) \/ Override(h, t, x)
        PROVE  IInv'
    BY <2>2, SubmitIInv, OverrideIInv
  <2>3. ASSUME NEW t \in Traders, NEW flag \in BOOLEAN, SetActive(h, t, flag) PROVE IInv'
    BY <2>3, SetActiveIInv
  <2>4. ASSUME NEW q \in Requests, Create(h, q) \/ WriteStatus(h, q) \/ Grant(h, q)
        PROVE  IInv'
    BY <2>4, CreateIInv, WriteStatusIInv, GrantIInv
  <2>5. ASSUME NEW q \in Requests, NEW pc \in {"approve", "reject", "cancel"},
               ReadRequest(h, q, pc)
        PROVE  IInv'
    BY <2>5, ReadRequestIInv
  <2>6. QED
    BY <1>1, <2>1, <2>2, <2>3, <2>4, <2>5 DEF HandlerStep
<1>2. ASSUME NEW s \in Syncs, SyncStep(s) PROVE IInv'
  BY <1>2, ReadUsersIInv, SyncUserIInv, EndSyncIInv DEF SyncStep
<1>3. CASE Crash
  BY <1>3, CrashIInv
<1>4. CASE UNCHANGED vars
  <2>1. UNCHANGED <<usd, bnb, active, request, handler, lastSync, sync, granted, raced, unsettled>>
    BY <1>4 DEF vars
  <2>2. TypeOK'
    BY <2>1 DEF IInv, TypeOK
  <2>3. LimitsAgree' /\ OneDecision' /\ GrantedStaysApproved'
    BY <2>1, LimitsKept, DecisionsKept
  <2>4. QED
    BY <2>2, <2>3 DEF IInv
<1>5. QED
  BY <1>1, <1>2, <1>3, <1>4, FetchPriceIInv DEF Next

-----------------------------------------------------------------------------
(* Every reachable state satisfies the inductive invariant.                *)
THEOREM Invariance == Spec => []IInv
<1>1. QED
  BY InitIInv, NextIInv, PTL DEF Spec

(* The BNB limit the executor enforces is computed from the USD limit of    *)
(* the row, but for traders whose USD limit was overridden on its own or    *)
(* written while a sync or recalculation held the older amount.             *)
THEOREM EnforcedLimit == Spec => []LimitsAgree
<1>1. IInv => LimitsAgree
  BY DEF IInv
<1>2. QED
  BY <1>1, Invariance, PTL

(* approveRequest reads, writes the status and writes the limits in three   *)
(* steps: a request whose amount became the limit stays approved, unless    *)
(* its decisions overlapped.                                                *)
THEOREM ApprovalStands == Spec => []GrantedStaysApproved
<1>1. IInv => GrantedStaysApproved
  BY DEF IInv
<1>2. QED
  BY <1>1, Invariance, PTL
=============================================================================
