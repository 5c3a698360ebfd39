----------------------------- MODULE TradeLimits -----------------------------
(***************************************************************************)
(* The per-trade limit of a trader: a USD amount an administrator decides, *)
(* and the BNB amount derived from it which the executor enforces.  Limit  *)
(* requests are submitted, cancelled, approved and rejected by concurrent  *)
(* handlers; the polled BNB price starts syncs that rewrite the BNB limits *)
(* from USD limits they read before.  Every awaited query is a step.       *)
(*                                                                         *)
(* A BNB limit is represented by the USD amount it was computed from: no   *)
(* property depends on the price it was divided by.  The price only tells  *)
(* when a sync starts.  Reasons, notes and the audit log are left out.     *)
(***************************************************************************)
EXTENDS Naturals, FiniteSets

CONSTANTS
  Traders,
  Requests,       \* rows of the limit_requests table
  Handlers,       \* concurrent requests to the API
  Syncs,          \* bound on the syncs of the process that overlap
  MaxUSD,         \* MAX_TRADE_LIMIT_USD; the default limit is 1
  Prices          \* BNB prices in USD

ASSUME LimitsOK ==
  /\ Traders # {}
  /\ IsFiniteSet(Requests) /\ IsFiniteSet(Handlers)
  /\ MaxUSD \in Nat \ {0}
  /\ Prices \subseteq Nat \ {0}

VARIABLES
  usd, bnb, active,    \* the trader's row
  request,             \* the limit requests
  handler,             \* what each handler has read and does next
  lastSync,            \* price of the last sync that ended, 0 before
  sync,                \* the syncs under way
  granted, raced,      \* history: requests whose amount became the limit;
                       \* requests decided by handlers that overlapped
  unsettled            \* history: traders whose USD limit was written apart from,
                       \* or behind the back of, a write of their BNB limit

rowVars == <<usd, bnb, active>>
syncVars == <<lastSync, sync>>
history == <<granted, raced, unsettled>>
vars == <<usd, bnb, active, request, handler, lastSync, sync,
          granted, raced, unsettled>>

USD == 1..MaxUSD
Statuses == {"none", "pending", "approved", "rejected", "deleted"}
NoRequest(t) == [st |-> "none", user |-> t, usd |-> 1]
Pcs == {"idle", "create", "approve", "grant", "reject", "cancel", "recalc", "store"}
\* What a handler does next, for a trader and an amount or about a request.
For(pc, t, x) == [pc |-> pc, user |-> t, usd |-> x, about |-> {}]
Default == CHOOSE t \in Traders : TRUE
Idle == For("idle", Default, 1)
About(pc, q) == [Idle EXCEPT !.pc = pc, !.about = {q}]
Resting == [pc |-> "idle", at |-> 0, todo |-> {}]

Init ==
  /\ usd = [t \in Traders |-> 1]
  /\ bnb = [t \in Traders |-> 1]
  /\ active = [t \in Traders |-> TRUE]
  /\ request = [q \in Requests |-> NoRequest(Default)]
  /\ handler = [h \in Handlers |-> Idle]
  /\ lastSync = 0
  /\ sync = [s \in Syncs |-> Resting]
  /\ granted = {} /\ raced = {} /\ unsettled = {}

Goto(h, state) == handler' = [handler EXCEPT ![h] = state]
Done(h) == Goto(h, Idle)
Concerned(q) == {h \in Handlers : q \in handler[h].about}
OnlyHandler == UNCHANGED <<rowVars, request, syncVars, history>>

\* Some sync or recalculation will still write t's BNB limit from another amount.
StaleReader(t, x) ==
  \/ \E s \in Syncs, y \in USD \ {x} : <<t, y>> \in sync[s].todo
  \/ \E h \in Handlers : handler[h].pc = "store" /\ handler[h].user = t /\ handler[h].usd # x

Settled(t, x) == IF StaleReader(t, x) THEN unsettled \union {t} ELSE unsettled \ {t}

-----------------------------------------------------------------------------
(* The trader.                                                             *)

Pending(t) == {q \in Requests : request[q].st = "pending" /\ request[q].user = t}

NonePending(t) == Pending(t) = {}

\* submitRequest: the checks against the limit it read, then the search.
Submit(h, t, x) ==
  /\ handler[h].pc = "idle"
  /\ active[t]
  /\ x > usd[t] /\ x <= MaxUSD
  /\ NonePending(t)
  /\ Goto(h, For("create", t, x))
  /\ OnlyHandler

Create(h, q) ==
  /\ handler[h].pc = "create"
  /\ request[q].st = "none"
  /\ request' = [request EXCEPT ![q] = [st |-> "pending", user |-> handler[h].user,
                                        usd |-> handler[h].usd]]
  /\ Done(h)
  /\ UNCHANGED <<rowVars, syncVars, history>>

\* Mutant of Decidable: the status of the request is not checked.
DecidableAlways(q) == request[q].st \in {"pending", "approved", "rejected"}

Decidable(q) == request[q].st = "pending"

\* approveRequest, rejectRequest and cancelRequest read the request first.
ReadRequest(h, q, pc) ==
  /\ handler[h].pc = "idle"
  /\ Decidable(q)
  /\ pc = "cancel" => active[request[q].user]
  /\ Goto(h, About(pc, q))
  /\ raced' = IF Concerned(q) = {} THEN raced ELSE raced \union {q}
  /\ UNCHANGED <<rowVars, request, syncVars, granted, unsettled>>

Decided(pc) ==
  IF pc = "approve" THEN "approved" ELSE IF pc = "reject" THEN "rejected" ELSE "deleted"

\* Their write goes by id; it fails when the row is gone.
WriteStatus(h, q) ==
  /\ handler[h].about = {q}
  /\ handler[h].pc \in {"approve", "reject", "cancel"}
  /\ IF request[q].st = "deleted"
     THEN Done(h) /\ UNCHANGED request
     ELSE /\ request' = [request EXCEPT ![q] = [@ EXCEPT !.st = Decided(handler[h].pc)]]
          /\ IF handler[h].pc = "approve"
             THEN Goto(h, About("grant", q))
             ELSE Done(h)
  /\ UNCHANGED <<rowVars, syncVars, history>>

\* Mutant of GrantedBnb: the BNB limit stays as it was.
GrantedBnbOld(t, x) == bnb[t]

GrantedBnb(t, x) == x

\* approveRequest writes both limits at once.
Grant(h, q) ==
  /\ handler[h].pc = "grant" /\ handler[h].about = {q}
  /\ LET t == request[q].user
         x == request[q].usd IN
       /\ usd' = [usd EXCEPT ![t] = x]
       /\ bnb' = [bnb EXCEPT ![t] = GrantedBnb(t, x)]
       /\ unsettled' = Settled(t, x)
  /\ granted' = granted \union {q}
  /\ Done(h)
  /\ UNCHANGED <<active, request, syncVars, raced>>

-----------------------------------------------------------------------------
(* The administrator.                                                      *)

\* overrideUserLimit writes the USD limit, then recalculateUserLimitBNB reads it.
Override(h, t, x) ==
  /\ handler[h].pc = "idle"
  /\ usd' = [usd EXCEPT ![t] = x]
  /\ unsettled' = unsettled \union {t}
  /\ Goto(h, For("recalc", t, 1))
  /\ UNCHANGED <<bnb, active, request, syncVars, granted, raced>>

Recalculate(h) ==
  /\ handler[h].pc = "recalc"
  /\ Goto(h, For("store", handler[h].user, usd[handler[h].user]))
  /\ OnlyHandler

StoreBnb(h) ==
  /\ handler[h].pc = "store"
  /\ LET t == handler[h].user
         x == handler[h].usd IN
       /\ bnb' = [bnb EXCEPT ![t] = x]
       /\ unsettled' = IF x = usd[t] THEN Settled(t, x) ELSE unsettled
  /\ Done(h)
  /\ UNCHANGED <<usd, active, request, syncVars, granted, raced>>

SetActive(h, t, flag) ==
  /\ handler[h].pc = "idle"
  /\ active[t] # flag
  /\ active' = [active EXCEPT ![t] = flag]
  /\ UNCHANGED <<usd, bnb, request, handler, syncVars, history>>

\* A query fails: the handler ends between two of its steps.
Abort(h) ==
  /\ handler[h].pc # "idle"
  /\ Done(h)
  /\ OnlyHandler

-----------------------------------------------------------------------------
(* BnbPriceService and LimitSyncService.                                   *)

Distance(a, b) == IF a > b THEN a - b ELSE b - a

\* The price moved by two percent since the last sync that ended.
Moved(now) == lastSync = 0 \/ 100 * Distance(now, lastSync) >= 2 * lastSync

\* fetchPrice; its callback enters syncAllLimits, which takes the price along.
FetchPrice(p) ==
  /\ IF Moved(p)
     THEN \E s \in Syncs : /\ sync[s].pc = "idle"
                           /\ sync' = [sync EXCEPT ![s] = [Resting EXCEPT !.pc = "read", !.at = p]]
     ELSE UNCHANGED sync
  /\ UNCHANGED <<rowVars, request, handler, lastSync, history>>

\* Mutant of Selected: the filter is on the wrong users.
SelectedInactive == {t \in Traders : ~active[t]}

Selected == {t \in Traders : active[t]}

ReadUsers(s) ==
  /\ sync[s].pc = "read"
  /\ sync' = [sync EXCEPT ![s] = [@ EXCEPT !.pc = "write",
                                           !.todo = {<<t, usd[t]>> : t \in Selected}]]
  /\ UNCHANGED <<rowVars, request, handler, lastSync, history>>

SyncUser(s) ==
  /\ sync[s].pc = "write"
  /\ \E item \in sync[s].todo :
       LET t == item[1]
           x == item[2]
           rest == sync[s].todo \ {item} IN
         /\ bnb' = [bnb EXCEPT ![t] = x]
         /\ sync' = [sync EXCEPT ![s] = [@ EXCEPT !.todo = rest]]
         /\ unsettled' = IF x = usd[t] THEN Settled(t, x) ELSE unsettled
  /\ UNCHANGED <<usd, active, request, handler, lastSync, granted, raced>>

\* The price the sync began with is remembered, whatever it wrote last.
EndSync(s) ==
  /\ sync[s].pc = "write" /\ sync[s].todo = {}
  /\ lastSync' = sync[s].at
  /\ sync' = [sync EXCEPT ![s] = Resting]
  /\ UNCHANGED <<rowVars, request, handler, history>>

\* A failed query of a sync is an unhandled rejection: the process dies, and
\* starts again without a last sync.
Crash ==
  /\ lastSync' = 0
  /\ sync' = [s \in Syncs |-> Resting]
  /\ handler' = [h \in Handlers |-> Idle]
  /\ UNCHANGED <<rowVars, request, history>>

-----------------------------------------------------------------------------
HandlerStep(h) ==
  \/ Recalculate(h) \/ StoreBnb(h) \/ Abort(h)
  \/ \E t \in Traders, x \in USD : Submit(h, t, x) \/ Override(h, t, x)
  \/ \E t \in Traders, flag \in BOOLEAN : SetActive(h, t, flag)
  \/ \E q \in Requests : Create(h, q) \/ WriteStatus(h, q) \/ Grant(h, q)
  \/ \E q \in Requests, pc \in {"approve", "reject", "cancel"} : ReadRequest(h, q, pc)

SyncStep(s) == ReadUsers(s) \/ SyncUser(s) \/ EndSync(s)

Next ==
  \/ \E h \in Handlers : HandlerStep(h)
  \/ \E p \in Prices : FetchPrice(p)
  \/ \E s \in Syncs : SyncStep(s)
  \/ Crash

\* The event loop goes on with a sync that waits for nothing but the database.
Spec == Init /\ [][Next]_vars /\ \A s \in Syncs : WF_vars(SyncStep(s))

-----------------------------------------------------------------------------
(* Every variable is of its type.                                          *)
RequestType == [st : Statuses, user : Traders, usd : USD]
HandlerType == [pc : Pcs, user : Traders, usd : USD, about : SUBSET Requests]
SyncType == [pc : {"idle", "read", "write"}, at : Prices \union {0},
             todo : SUBSET (Traders \X USD)]

TypeOK ==
  /\ usd \in [Traders -> USD]
  /\ bnb \in [Traders -> USD]
  /\ active \in [Traders -> BOOLEAN]
  /\ request \in [Requests -> RequestType]
  /\ handler \in [Handlers -> HandlerType]
  /\ lastSync \in Prices \union {0}
  /\ sync \in [Syncs -> SyncType]
  /\ granted \subseteq Requests /\ raced \subseteq Requests /\ unsettled \subseteq Traders

(* The BNB limit the executor enforces is computed from the USD limit there *)
(* is, but for a trader whose USD limit an override wrote on its own, or    *)
(* any decision wrote while a sync or recalculation held the older amount.  *)
LimitsAgree ==
  \A t \in Traders \ unsettled : bnb[t] = usd[t] /\ ~StaleReader(t, usd[t])

(* A request whose amount became the limit stays approved, unless handlers  *)
(* that had all found it pending decided it one over the other.             *)
GrantedStaysApproved == \A q \in granted \ raced : request[q].st = "approved"

(* While its decisions do not overlap, one handler at a time is about a     *)
(* request, and finds it as the previous one left it.                       *)
OneDecision ==
  \A q \in Requests \ raced :
    /\ \A g, h \in Concerned(q) : g = h
    /\ \A h \in Concerned(q) :
         request[q].st = IF handler[h].pc = "grant" THEN "approved" ELSE "pending"
    /\ q \in granted => Concerned(q) = {}

(* The inductive invariant behind the safety properties of this module.     *)
IInv == TypeOK /\ LimitsAgree /\ OneDecision /\ GrantedStaysApproved

Quiet == \A h \in Handlers : handler[h].pc = "idle"

(* Once the decisions and the deaths of the process have ended, and while   *)
(* the price keeps starting syncs, the BNB limit of every active trader     *)
(* comes to agree with the USD limit, whatever happened before.             *)
LimitsFollow ==
  /\ <>[](Quiet /\ active = [t \in Traders |-> TRUE])
  /\ <>[][~Crash]_vars
  /\ []<>(\E s \in Syncs : sync[s].pc = "read")
  => <>[](\A t \in Traders : bnb[t] = usd[t])
=============================================================================
