------------------------------- MODULE Pages -------------------------------
(***************************************************************************)
(* What a browser tab shows and changes: the queries of its pages, cached  *)
(* by react-query under keys; the mutations the pages offer, each with the *)
(* keys it invalidates when it succeeds; the confirmation toasts, which    *)
(* outlive the page that raised them.  A key's content is abstracted to    *)
(* how fresh it is, a handler of the API to the facts it reads or writes.  *)
(*                                                                         *)
(* "stale" content misses something this tab changed on a page that was    *)
(* still offering the change; "excused" content misses something else: a   *)
(* change made elsewhere, one the tab was never told the end of, or the    *)
(* two-factor status, which the settings page does not query again when a  *)
(* code is generated.                                                      *)
(***************************************************************************)
EXTENDS Naturals, Sequences, FiniteSets

CONSTANTS
  MaxMishaps,     \* bound: changes made elsewhere, failed queries, lost answers
  MaxSlow,        \* bound: keys whose queries take time
  MaxPending,     \* bound: mutations in flight
  MaxBackground   \* bound: queries still in flight when their page was left

ASSUME PagesOK ==
  MaxMishaps \in Nat /\ MaxSlow \in Nat /\ MaxPending \in Nat /\ MaxBackground \in Nat

-----------------------------------------------------------------------------
(* Facts the handlers of the API read.                                     *)

ListBots == {"list", "status"}
GetBot == {"status", "trades"}
ListBotTransactions == {"trades"}
ListWallets == {"wallets"}
ListGroups == {"groups"}
ListMyRequests == {"requests"}
Me == {"me"}
SummaryAnalytics == {"status", "trades"}
VolumeAnalytics == {"trades"}
PlatformStats == {"users", "list", "status", "requests", "trades"}
ListLimitRequests == {"requests"}
PendingCount == {"requests"}
ListUsers == {"users", "limits", "requests", "status"}
GetUser == {"users", "limits", "requests", "list", "status", "trades"}
ListAllBots == {"list", "status"}
ListLogs == {"log", "trades"}

Reads ==
  [bots |-> ListBots, bot |-> GetBot, botTxs |-> ListBotTransactions,
   wallets |-> ListWallets, walletGroups |-> ListGroups,
   myLimitRequests |-> ListMyRequests, me |-> Me,
   analyticsSummary |-> SummaryAnalytics, analyticsVolume |-> VolumeAnalytics,
   adminStats |-> PlatformStats, adminStatsHeader |-> PlatformStats,
   adminRequests |-> ListLimitRequests, adminRequestsPending |-> ListLimitRequests,
   adminPendingCount |-> PendingCount, adminUsers |-> ListUsers, adminUser |-> GetUser,
   adminBots |-> ListAllBots, adminLogs |-> ListLogs]

Keys == DOMAIN Reads
Facts == UNION {Reads[k] : k \in Keys}

-----------------------------------------------------------------------------
(* The mutations: what the handler writes, and the keys the page           *)
(* invalidates then, one set after the other where it awaits each.         *)

Mutation(writes, invalidates) == [writes |-> writes, invalidates |-> invalidates]

\* Mutant of Lifecycle: the page of the bot is forgotten.
LifecycleListOnly == Mutation({"status"}, <<{"bots"}>>)
Lifecycle == Mutation({"status"}, <<{"bots"}, {"bot"}>>)
CreateBot == Mutation({"list"}, <<{"bots"}>>)
DeleteBot == Mutation({"list", "status"}, <<{"bots"}>>)
ImportWallet == Mutation({"wallets"}, <<{"wallets"}>>)
CreateGroup == Mutation({"groups"}, <<{"walletGroups"}>>)
SubmitRequest == Mutation({"requests"}, <<{"myLimitRequests"}, {"adminPendingCount"}>>)
CancelRequest == Mutation({"requests"}, <<{"myLimitRequests"}, {"adminPendingCount"}>>)
InvalidateAll == <<{"adminRequests", "adminRequestsPending", "adminPendingCount",
                    "adminStats", "adminUsers", "adminUser"}>>
ApproveRequest == Mutation({"requests", "limits", "log"}, InvalidateAll)
RejectRequest == Mutation({"requests", "log"}, InvalidateAll)
OverrideUserLimit == Mutation({"limits", "log"}, <<{"adminUser"}>>)
ToggleActive == Mutation({"users", "log"}, <<{"adminUser"}>>)
\* Generating a code turns two-factor off; the page invalidates nothing then.
Setup2fa == Mutation({"me"}, <<{}>>)
Verify2fa == Mutation({"me"}, <<{"me"}>>)
UpdateProfile == Mutation({"me"}, <<{"me"}>>)

Mutations ==
  [lifecycle |-> Lifecycle, create |-> CreateBot, delete |-> DeleteBot,
   import |-> ImportWallet, group |-> CreateGroup,
   submit |-> SubmitRequest, cancel |-> CancelRequest,
   approve |-> ApproveRequest, reject |-> RejectRequest,
   override |-> OverrideUserLimit, toggle |-> ToggleActive,
   setup |-> Setup2fa, verify |-> Verify2fa, profile |-> UpdateProfile]

Ops == DOMAIN Mutations
ReadsWritesOf(k, o) == Reads[k] \cap Mutations[o].writes # {}

\* The one mutation the cache is never told of: what it changed is not owed.
Untold == {"setup"}

-----------------------------------------------------------------------------
(* The pages: the keys they query, and the mutations they offer, each with *)
(* the keys that must have loaded before its button is there.              *)

Page(shows, offers) == [shows |-> shows, offers |-> offers]
Nothing == [o \in {} |-> {}]

Dashboard == Page({"analyticsSummary", "bots", "wallets"}, Nothing)
BotCard == [lifecycle |-> {"bots"}, delete |-> {"bots"}, create |-> {"walletGroups"}]
Bots == Page({"bots", "walletGroups"}, BotCard)
BotDetail == Page({"bot", "botTxs"}, [lifecycle |-> {"bot"}])
Wallets == Page({"wallets"}, [import |-> {}, group |-> {"wallets"}])
Analytics == Page({"analyticsVolume", "analyticsSummary"}, Nothing)
TraderLimitRequest == Page({"myLimitRequests"}, [submit |-> {}, cancel |-> {"myLimitRequests"}])
\* The field of a verification comes with the answer of setup; not tracked.
Settings == Page({"me"}, [o \in {"setup", "verify", "profile"} |-> {}])
AdminDashboard == Page({"adminStats", "adminRequestsPending", "adminUsers"},
  [approve |-> {"adminRequestsPending"}, reject |-> {"adminRequestsPending"}])
AdminTraders == Page({"adminUsers"}, Nothing)
AdminTraderDetail == Page({"adminUser"},
  [o \in {"override", "toggle", "approve", "reject"} |-> {"adminUser"}])
AdminRequests == Page({"adminRequests"}, [o \in {"approve", "reject"} |-> {"adminRequests"}])
AdminBots == Page({"adminBots"}, Nothing)
AdminLogs == Page({"adminLogs"}, Nothing)

TraderRoutes ==
  [dashboard |-> Dashboard, bots |-> Bots, bot |-> BotDetail, wallets |-> Wallets,
   analytics |-> Analytics, limit |-> TraderLimitRequest, settings |-> Settings]
AdminRoutes ==
  [dashboard |-> AdminDashboard, traders |-> AdminTraders, trader |-> AdminTraderDetail,
   requests |-> AdminRequests, bots |-> AdminBots, logs |-> AdminLogs, settings |-> Settings]
Routes == [trader |-> TraderRoutes, admin |-> AdminRoutes]

\* The layouts keep their queries mounted beside every page.
TraderLayout == {"myLimitRequests"}
AdminLayout == {"adminPendingCount", "adminStatsHeader"}
Layout == [trader |-> TraderLayout, admin |-> AdminLayout]
Polled == {"adminPendingCount", "adminStatsHeader"}

-----------------------------------------------------------------------------
VARIABLES
  role,      \* whose tab it is
  slow,      \* the keys that take time; the others load at once
  page,      \* the route
  entry,     \* the query cache
  act,       \* the mutations
  toast,     \* the mutation a confirmation waits for
  mishaps    \* counts, for the bound

pagesVars == <<role, slow, page, entry, act, toast, mishaps>>

Content == {"none", "fresh", "stale", "excused"}
Fetch == {"idle", "sent", "fresh", "stale", "excused"}   \* sent, or answered with that
Empty == [data |-> "none", fetch |-> "idle"]
Loading == [data |-> "none", fetch |-> "sent"]
Idle == [at |-> "idle", batch |-> 0, waits |-> {}]

PagesTypeOK ==
  /\ role \in DOMAIN Routes /\ page \in DOMAIN Routes[role]
  /\ slow \subseteq Keys
  /\ entry \in [slow -> [data : Content, fetch : Fetch]]
  /\ act \in [Ops -> [at : {"idle", "sent", "done", "settling"}, batch : 0..2, waits : SUBSET Keys]]
  /\ toast \in Ops \union {"none"}
  /\ mishaps \in 0..MaxMishaps

Shows(p) == slow \cap Routes[role][p].shows
Mounts(p) == Shows(p) \union (slow \cap Layout[role])
Mounted == Mounts(page)

\* A mutation that cannot be seen in the slow keys is left out.
Seen(o) == \E k \in slow : \/ ReadsWritesOf(k, o)
                           \/ \E n \in DOMAIN Mutations[o].invalidates : k \in Mutations[o].invalidates[n]

Offers == Routes[role][page].offers
Offered(o) == o \in DOMAIN Offers /\ Seen(o) /\ \A k \in Offers[o] \cap slow : entry[k].data # "none"
Mishap == mishaps < MaxMishaps /\ mishaps' = mishaps + 1

KeysOf(r) == Layout[r] \union UNION {Routes[r][p].shows : p \in DOMAIN Routes[r]}

PagesInit ==
  /\ role \in DOMAIN Routes /\ page = "dashboard"
  /\ slow \in {ks \in SUBSET KeysOf(role) : Cardinality(ks) = MaxSlow}
  /\ entry = [k \in slow |-> IF k \in Mounted THEN Loading ELSE Empty]
  /\ act = [o \in Ops |-> Idle]
  /\ toast = "none" /\ mishaps = 0

-----------------------------------------------------------------------------
(* Queries.                                                                *)

\* A mutation awaits the queries it invalidated until they end.
Ended(k) == [o \in Ops |-> [act[o] EXCEPT !.waits = @ \ {k}]]

Read(k) ==
  /\ entry[k].fetch = "sent"
  /\ entry' = [entry EXCEPT ![k].fetch = "fresh"]
  /\ UNCHANGED <<role, slow, page, act, toast, mishaps>>

Arrive(k) ==
  /\ entry[k].fetch \in Content
  /\ entry' = [entry EXCEPT ![k] = IF k \in Mounted THEN [data |-> @.fetch, fetch |-> "idle"] ELSE Empty]
  /\ act' = Ended(k)
  /\ UNCHANGED <<role, slow, page, toast, mishaps>>

\* Content the tab is not told to replace.
Excused(e) == [data |-> IF e.data = "stale" THEN "excused" ELSE e.data,
               fetch |-> IF e.fetch = "stale" THEN "excused" ELSE e.fetch]

Fail(k) ==
  /\ entry[k].fetch # "idle"
  /\ Mishap
  /\ entry' = [entry EXCEPT ![k] = IF k \in Mounted THEN [Excused(@) EXCEPT !.fetch = "idle"] ELSE Empty]
  /\ act' = Ended(k)
  /\ UNCHANGED <<role, slow, page, toast>>

\* Mutant of PollDue: the timer goes on only until something was loaded.
PollDueFirst(k) == k \in Polled \cap Mounted /\ entry[k] = Empty
PollDue(k) == k \in Polled \cap Mounted /\ entry[k].fetch = "idle"

Poll(k) ==
  /\ PollDue(k)
  /\ entry' = [entry EXCEPT ![k].fetch = "sent"]
  /\ UNCHANGED <<role, slow, page, act, toast, mishaps>>

\* A page that mounts queries its keys, or joins a query in flight; what it
\* shows meanwhile is what the cache kept.
Entered(k, cached) ==
  [data |-> CASE k \in Mounted -> entry[k].data
              [] k \notin Mounted /\ cached -> "excused"
              [] OTHER -> "none",
   fetch |-> IF entry[k].fetch = "idle" THEN "sent" ELSE entry[k].fetch]

Navigate(p) ==
  LET left == {k \in Mounted \ Mounts(p) : entry[k].fetch # "idle"} IN
  /\ p \in DOMAIN Routes[role] /\ p # page
  /\ page' = p
  /\ \E background \in SUBSET left, cached \in BOOLEAN :
       /\ Cardinality(background) <= MaxBackground
       /\ entry' = [k \in slow |->
            CASE k \in Shows(p) -> Entered(k, cached)
              [] k \in Layout[role] \ Shows(p) -> entry[k]
              [] k \in background -> [entry[k] EXCEPT !.data = "none"]
              [] OTHER -> Empty]
       /\ act' = [o \in Ops |-> [act[o] EXCEPT !.waits = @ \ (left \ background)]]
  /\ UNCHANGED <<role, slow, toast, mishaps>>

-----------------------------------------------------------------------------
(* Mutations.                                                              *)

Pending == {o \in Ops : act[o].at # "idle"}
Start(o) ==
  /\ act[o].at = "idle" /\ Cardinality(Pending) < MaxPending
  /\ act' = [act EXCEPT ![o].at = "sent"]

\* Deleting, and starting or stopping a bot, is confirmed first.
Confirmed == {"lifecycle", "delete"}

Click(o) ==
  /\ Offered(o) /\ o # "delete"
  /\ Start(o)
  /\ UNCHANGED <<role, slow, page, entry, toast, mishaps>>

Ask(o) ==
  /\ Offered(o) /\ o \in Confirmed
  /\ toast = "none" /\ toast' = o
  /\ UNCHANGED <<role, slow, page, entry, act, mishaps>>

Dismiss ==
  /\ toast # "none" /\ toast' = "none"
  /\ UNCHANGED <<role, slow, page, entry, act, mishaps>>

Confirm ==
  /\ toast # "none" /\ toast' = "none"
  /\ Start(toast)
  /\ UNCHANGED <<role, slow, page, entry, mishaps>>

\* What a change of a fact makes of content that shows it.
Outdated(content, owed) ==
  CASE content \in {"fresh", "excused"} /\ owed -> "stale"
    [] content = "fresh" /\ ~owed -> "excused"
    [] OTHER -> content
Changed(e, owed) == [data |-> Outdated(e.data, owed), fetch |-> Outdated(e.fetch, owed)]

\* Whether the page has to show what a mutation changes of k.
Owes(k, o) == k \in Mounted /\ o \in DOMAIN Offers \ Untold

\* The handler of the API; a mutation it refuses changes nothing.
Write(o) ==
  /\ act[o].at = "sent"
  /\ act' = [act EXCEPT ![o].at = "done"]
  /\ entry' = [k \in slow |->
       IF ReadsWritesOf(k, o) THEN Changed(entry[k], Owes(k, o)) ELSE entry[k]]
  /\ UNCHANGED <<role, slow, page, toast, mishaps>>

Refuse(o) ==
  /\ act[o].at = "sent"
  /\ act' = [act EXCEPT ![o] = Idle]
  /\ UNCHANGED <<role, slow, page, entry, toast, mishaps>>

\* The tab is told of an error and invalidates nothing.
LoseAnswer(o) ==
  /\ act[o].at = "done"
  /\ Mishap
  /\ act' = [act EXCEPT ![o] = Idle]
  /\ entry' = [k \in slow |-> IF ReadsWritesOf(k, o) THEN Excused(entry[k]) ELSE entry[k]]
  /\ UNCHANGED <<role, slow, page, toast>>

\* invalidateQueries: a mounted key is queried, anew unless it never loaded;
\* for the others nothing is sent, and a query in flight stays good enough.
Joins(k) == entry[k].fetch # "idle" /\ (k \notin Mounted \/ entry[k].data = "none")
Invalidated(k) ==
  CASE Joins(k) -> Excused(entry[k])
    [] ~Joins(k) /\ k \in Mounted -> [entry[k] EXCEPT !.fetch = "sent"]
    [] OTHER -> entry[k]

Invalidate(o, n) ==
  LET keys == Mutations[o].invalidates[n] \cap slow
      restarted == {k \in keys \cap Mounted : ~Joins(k)} IN
  /\ entry' = [k \in slow |-> IF k \in keys THEN Invalidated(k) ELSE entry[k]]
  /\ act' = [q \in Ops |->
       IF q = o THEN [at |-> "settling", batch |-> n, waits |-> keys \cap Mounted]
       ELSE [act[q] EXCEPT !.waits = @ \ restarted]]

Succeed(o) ==
  /\ act[o].at = "done"
  /\ Invalidate(o, 1)
  /\ UNCHANGED <<role, slow, page, toast, mishaps>>

NextBatch(o) ==
  /\ act[o].at = "settling" /\ act[o].waits = {}
  /\ IF act[o].batch < Len(Mutations[o].invalidates)
     THEN Invalidate(o, act[o].batch + 1)
     ELSE act' = [act EXCEPT ![o] = Idle] /\ entry' = entry
  /\ UNCHANGED <<role, slow, page, toast, mishaps>>

\* Workers, other users and other tabs.
Elsewhere(f) ==
  /\ \E k \in slow : f \in Reads[k]
  /\ Mishap
  /\ entry' = [k \in slow |-> IF f \in Reads[k] THEN Changed(entry[k], FALSE) ELSE entry[k]]
  /\ UNCHANGED <<role, slow, page, act, toast>>

-----------------------------------------------------------------------------
PagesNext ==
  \/ \E k \in slow : Read(k) \/ Arrive(k) \/ Fail(k) \/ Poll(k)
  \/ \E p \in DOMAIN TraderRoutes \union DOMAIN AdminRoutes : Navigate(p)
  \/ \E o \in Ops : \/ Click(o) \/ Ask(o) \/ Write(o) \/ Refuse(o)
                    \/ LoseAnswer(o) \/ Succeed(o) \/ NextBatch(o)
  \/ Dismiss \/ Confirm
  \/ \E f \in Facts : Elsewhere(f)

\* Queries and mutations end, and timers of mounted pages fire.
Fairness ==
  /\ WF_pagesVars(\E k \in slow : Read(k))
  /\ WF_pagesVars(\E k \in slow : Arrive(k))
  /\ WF_pagesVars(\E k \in slow : Poll(k))
  /\ WF_pagesVars(\E o \in Ops : Write(o) \/ Refuse(o))
  /\ WF_pagesVars(\E o \in Ops : Succeed(o))
  /\ WF_pagesVars(\E o \in Ops : NextBatch(o))

PagesSpec == PagesInit /\ [][PagesNext]_pagesVars /\ Fairness

-----------------------------------------------------------------------------
(* Properties.                                                             *)

Behind(k) == k \in Mounted /\ entry[k].data = "stale"

\* A mutation on its way to telling the cache what it changed.
Telling(k) == \E o \in Pending : ReadsWritesOf(k, o) /\ act[o].at # "sent"

\* What a page shows never stays behind what the user changed on it, but for
\* the two-factor status after setup (Untold), which does: content that
\* misses such a change is being queried, polled, or is about to be
\* invalidated.  The pages list the keys to invalidate by hand, and a key
\* left out would show the old status, limit or request for as long as the
\* page stays open, for the queries are not repeated on focus.  A change
\* confirmed after its page was left is not among those owed.
OwnChangesShow ==
  \A k \in slow \ Polled : Behind(k) => entry[k].fetch # "idle" \/ Telling(k)

\* Once the user changes nothing more, nothing that stays on the screen misses
\* a change owed to it for ever, what is only polled included, unless its
\* query fails or is the first of its key, which an invalidation joins.
OwnChangesArrive ==
  <>[](Pending = {}) => <>[](\A k \in slow : ~Behind(k))
=============================================================================
