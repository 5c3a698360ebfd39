------------------------------- MODULE Trading -------------------------------
(***************************************************************************)
(* The decisions of one execution cycle: the strategy turns the bot and    *)
(* its wallets into intents, and the executor takes each intent through    *)
(* its cap, its quotes, its approval and its gas estimate to a broadcast,  *)
(* while other traders move the pool and the administrator moves the       *)
(* limit.  Each read of the chain is a step, so two quotes of one intent   *)
(* may come from different blocks.  What becomes of rows, runs and failed  *)
(* broadcasts is in Execution; here a failed intent just ends.             *)
(*                                                                         *)
(* The pool is external: a constant-product pair without fee.  Balances,   *)
(* allowances and gas are abstracted to the outcome of their checks.       *)
(***************************************************************************)
EXTENDS SwapMath, Sequences

CONSTANTS
  Bots,        \* the bot configurations considered
  MaxWallets,  \* bound on the wallets of the group; one is its place in address order
  Pools,       \* reserves other traders may bring the pool to
  Limits,      \* trade limits, in the wei of WBNB
  MaxMoves     \* bound on the moves of pool and limit in one cycle

ASSUME TradingOK ==
  /\ Bots # {} /\ Limits # {} /\ Limits \subseteq Nat
  /\ Pools # {} /\ \A p \in Pools :
       p = [base |-> p.base, quote |-> p.quote] /\ {p.base, p.quote} \subseteq Nat \ {0}
  /\ MaxWallets \in Nat
  /\ \A b \in Bots : /\ b.min \in Nat /\ b.max \in Nat
                     /\ b.buy \in BOOLEAN /\ b.sell \in BOOLEAN
                     /\ b.slippage \in 50..2000 /\ b.concurrent \in Nat \ {0}

VARIABLES
  bot, queue,     \* the bot of the cycle, the intents it has yet to begin
  pc, amount,     \* step of the current intent, and what it will spend
  quoted, small,  \* the quote the impact is judged by, and its small quote
  floor, built,   \* minimum output of the swap built, the pool it was built on
  swaps,          \* the swaps broadcast in this cycle
  pool, limit,    \* the outside world
  moves,          \* moves it has made in this cycle
  begun,          \* history: intents begun, per side
  calm, highest   \* history: has the pool stood still since the intent began,
                  \* and the highest limit the trader has had since

intentVars == <<amount, quoted, small, floor, built>>
world == <<pool, limit, moves>>
vars == <<bot, queue, pc, intentVars, swaps, world, begun, calm, highest>>

Pcs == {"idle", "next", "cap", "balance", "quote", "small", "impact", "allowance",
        "approve", "build", "estimate", "fees", "send"}

Init ==
  /\ bot \in Bots /\ queue = <<>>
  /\ pc = "idle" /\ amount = 0
  /\ quoted = 0 /\ small = 0 /\ floor = 0 /\ built = CHOOSE p \in Pools : TRUE
  /\ swaps = {}
  /\ pool \in Pools /\ limit \in Limits /\ moves = 0
  /\ begun = [buy |-> 0, sell |-> 0] /\ calm = TRUE /\ highest = limit

-----------------------------------------------------------------------------
(* The strategy.                                                           *)

Enabled(b, side) == IF side = "buy" THEN b.buy ELSE b.sell
Amounts(b) == AmountRange(b.min, b.max)
Intent(w, side, a) == [wallet |-> w, side |-> side, amount |-> a]

\* smooth_buy, smooth_sell: one of the n wallets at random.
Smooth(b, n, side) ==
  IF ~Enabled(b, side) \/ n = 0
  THEN {<<>>}
  ELSE {<<Intent(w, side, a)>> : w \in 1..n, a \in Amounts(b)}

\* Mutant of Turn: two wallets of a side in a row.
TurnLate(i) == IF ((i + 1) \div 2) % 2 = 1 THEN "buy" ELSE "sell"

\* volume_cycle: the wallets in address order, in turn a buyer and a seller;
\* the turn passes on even from a wallet whose side is disabled.
Turn(i) == IF i % 2 = 1 THEN "buy" ELSE "sell"

\* The k-th wallet whose side is enabled, and how many there are.
Acting(b, k) == CASE b.buy /\ b.sell -> k [] b.buy /\ ~b.sell -> 2 * k - 1 [] OTHER -> 2 * k
Actors(b, n) ==
  CASE b.buy /\ b.sell   -> n
    [] b.buy /\ ~b.sell  -> (n + 1) \div 2
    [] ~b.buy /\ b.sell  -> n \div 2
    [] OTHER             -> 0
VolumeCycle(b, n) ==
  {[k \in 1..Actors(b, n) |-> Intent(Acting(b, k), Turn(Acting(b, k)), a[k])] :
     a \in [1..Actors(b, n) -> Amounts(b)]}

Generated(b, n) ==
  CASE b.strategy = "smooth_buy"  -> Smooth(b, n, "buy")
    [] b.strategy = "smooth_sell" -> Smooth(b, n, "sell")
    [] OTHER -> VolumeCycle(b, n)

\* generateIntents, and the slice the worker takes of its result.
Begin ==
  /\ pc = "idle"
  /\ \E b \in Bots, n \in 0..MaxWallets : \E intents \in Generated(b, n) :
       /\ bot' = b
       /\ queue' = SubSeq(intents, 1, Least(b.concurrent, Len(intents)))
  /\ pool' \in Pools /\ moves' = 0 /\ swaps' = {}
  /\ begun' = [buy |-> 0, sell |-> 0]
  /\ pc' = "next"
  /\ UNCHANGED <<intentVars, limit, calm, highest>>

-----------------------------------------------------------------------------
(* One intent.                                                             *)

current == Head(queue)
TokenIn == IF current.side = "buy" THEN bot.quote ELSE bot.base
NativePath == TokenIn = "WBNB"
QuoteSpend == current.side = "buy" /\ NativePath

\* What the pool p pays for x of the input token.
InReserve(p, side) == IF side = "buy" THEN p.quote ELSE p.base
OutReserve(p, side) == IF side = "buy" THEN p.base ELSE p.quote
Pays(p, side, x) == (x * OutReserve(p, side)) \div (InReserve(p, side) + x)
Quote(x) == Pays(pool, current.side, x)

\* The registry: every DEX has a V2 router, only PancakeSwap a V3 router.
HasRouter(b) == b.version = "v2" \/ b.dex = "pancakeswap"

Goto(from, to) == pc = from /\ pc' = to
Outside == UNCHANGED <<bot, world, begun, calm, highest>>
Local == Outside /\ UNCHANGED <<queue, swaps>>

\* The intent ends, submitted or failed; its local variables are dropped.
Drop ==
  /\ pc' = "next" /\ queue' = Tail(queue)
  /\ amount' = 0 /\ quoted' = 0 /\ small' = 0 /\ floor' = 0
  /\ UNCHANGED built
Fail == Drop /\ Outside /\ UNCHANGED swaps

StartIntent ==
  /\ pc = "next" /\ queue # <<>>
  /\ IF HasRouter(bot)
     THEN pc' = "cap" /\ UNCHANGED queue
     ELSE pc' = "next" /\ queue' = <<>>        \* resolveRouterAddress throws: so does the job
  /\ begun' = [begun EXCEPT ![current.side] = @ + 1]
  /\ calm' = TRUE /\ highest' = limit
  /\ UNCHANGED <<bot, intentVars, swaps, world>>

EndCycle ==
  /\ Goto("next", "idle") /\ queue = <<>>
  /\ Outside /\ UNCHANGED <<queue, swaps, intentVars>>

\* Mutant of Cap: the limit is not applied.
CapForgotten ==
  /\ Goto("cap", "balance")
  /\ amount' = current.amount
  /\ Local /\ UNCHANGED <<quoted, small, floor, built>>

\* capWeiToUserLimit.  Its user exists: bots refer to it and no user is ever deleted.
Cap ==
  /\ Goto("cap", "balance")
  /\ amount' \in IF QuoteSpend THEN Capped(current.amount, limit) ELSE {current.amount}
  /\ Local /\ UNCHANGED <<quoted, small, floor, built>>

Balance ==
  \/ Goto("balance", "quote") /\ Local /\ UNCHANGED intentVars
  \/ pc = "balance" /\ Fail

\* getQuote: the full quote first, the small one in a later call.
FullQuote ==
  \/ /\ Goto("quote", IF amount <= Negligible THEN "impact" ELSE "small")
     /\ quoted' = Quote(amount)
     /\ Local /\ UNCHANGED <<amount, small, floor, built>>
  \/ pc = "quote" /\ Fail

SmallQuote ==
  \/ /\ Goto("small", "impact")
     /\ small' = Quote(SmallIn(amount))
     /\ Local /\ UNCHANGED <<amount, quoted, floor, built>>
  \/ pc = "small" /\ Fail

MaxImpact == 1500

\* Mutant of TooDeep: percents for basis points.
TooDeepTenfold == ImpactBps(amount, quoted, small) > 10 * MaxImpact

TooDeep == ImpactBps(amount, quoted, small) > MaxImpact
ImpactCheck ==
  /\ pc = "impact"
  /\ IF TooDeep
     THEN Fail
     ELSE /\ pc' = IF NativePath THEN "build" ELSE "allowance"
          /\ Local /\ UNCHANGED intentVars

Allowance ==
  \/ \E to \in {"approve", "build"} : Goto("allowance", to) /\ Local /\ UNCHANGED intentVars
  \/ pc = "allowance" /\ Fail

Approve ==
  \/ Goto("approve", "build") /\ Local /\ UNCHANGED intentVars
  \/ pc = "approve" /\ Fail

\* Mutant of Build: the minimum output comes from the quote there is.
BuildOnFirstQuote ==
  /\ Goto("build", "estimate")
  /\ floor' = MinOut(quoted, bot.slippage)
  /\ built' = pool
  /\ Local /\ UNCHANGED <<amount, quoted, small>>

\* buildSwapTx quotes again, and takes the minimum output from that quote.
Build ==
  \/ /\ Goto("build", "estimate")
     /\ floor' = MinOut(Quote(amount), bot.slippage)
     /\ built' = pool
     /\ Local /\ UNCHANGED <<amount, quoted, small>>
  \/ pc = "build" /\ Fail

\* estimateGas runs the swap on the current state, and throws if it reverts.
Estimate ==
  \/ Goto("estimate", "fees") /\ Quote(amount) >= floor /\ Local /\ UNCHANGED intentVars
  \/ pc = "estimate" /\ Fail

Fees ==
  \/ Goto("fees", "send") /\ Local /\ UNCHANGED intentVars
  \/ pc = "fees" /\ Fail

Swap == [wallet |-> current.wallet, side |-> current.side, limited |-> QuoteSpend,
         in |-> amount, floor |-> floor, built |-> built, limit |-> highest, calm |-> calm,
         st |-> "pending", out |-> 0]

Send ==
  /\ pc = "send"
  /\ \/ swaps' = swaps \union {Swap}
     \/ UNCHANGED swaps                       \* refused by the node
  /\ Drop /\ Outside

-----------------------------------------------------------------------------
(* The chain, the other traders and the administrator.                     *)

After(p, side, x, out) ==
  IF side = "buy" THEN [base |-> p.base - out, quote |-> p.quote + x]
                  ELSE [base |-> p.base + x, quote |-> p.quote - out]

Paid(s, out) == [s EXCEPT !.st = "mined", !.out = out]
Reverted(s) == [s EXCEPT !.st = "reverted"]

\* The router pays at least the floor, or reverts; it reverts too when late.
Mine ==
  \E s \in swaps :
    /\ s.st = "pending"
    /\ LET out == Pays(pool, s.side, s.in) IN
       \/ /\ out >= s.floor
          /\ swaps' = (swaps \ {s}) \union {Paid(s, out)}
          /\ pool' = After(pool, s.side, s.in, out) /\ calm' = FALSE
       \/ /\ swaps' = (swaps \ {s}) \union {Reverted(s)}
          /\ UNCHANGED <<pool, calm>>
    /\ UNCHANGED <<bot, queue, pc, intentVars, limit, moves, begun, highest>>

PoolMoves ==
  /\ pc # "idle" /\ moves < MaxMoves
  /\ pool' \in Pools \ {pool} /\ moves' = moves + 1 /\ calm' = FALSE
  /\ UNCHANGED <<bot, queue, pc, intentVars, swaps, limit, begun, highest>>

LimitMoves ==
  /\ pc # "idle" /\ moves < MaxMoves
  /\ limit' \in Limits \ {limit} /\ moves' = moves + 1
  /\ highest' = IF limit' > highest THEN limit' ELSE highest
  /\ UNCHANGED <<bot, queue, pc, intentVars, swaps, pool, begun, calm>>

Next ==
  \/ Begin \/ StartIntent \/ EndCycle
  \/ Cap \/ Balance \/ FullQuote \/ SmallQuote \/ ImpactCheck
  \/ Allowance \/ Approve \/ Build \/ Estimate \/ Fees \/ Send
  \/ Mine \/ PoolMoves \/ LimitMoves

Spec == Init /\ [][Next]_vars

-----------------------------------------------------------------------------
(* Properties.                                                             *)

\* Whatever limit, amounts and sides were read along the way, a broadcast swap
\* trades an enabled side and a configured amount; only a purchase in WBNB may
\* spend less, and it stays within a limit the trader has had since the intent
\* began.  Doubles may let it pass limit and amount by what they cannot tell
\* (capWeiToUserLimit), and by no more.
SwapsAsConfigured ==
  \A s \in swaps :
    /\ Enabled(bot, s.side)
    /\ \E a \in Amounts(bot) :
         IF s.limited THEN s.in <= a + Slack(a) + Slack(s.limit) ELSE s.in = a
    /\ s.limited => s.in - Slack(s.in) <= s.limit

\* A mined swap pays what the pool offered when the swap was built (after the
\* approval, not when its impact was judged), less the slippage tolerated.
FreshFloor ==
  \A s \in swaps : s.st = "mined" => s.out >= MinOut(Pays(s.built, s.side, s.in), bot.slippage)

\* When the pool has stood still, a broadcast swap keeps five sixths of the spot
\* price, although the impact is judged in integers and against a small quote
\* that is off the spot price itself, provided that quote has three digits.
Telling == 100
KeepsPrice(in, inReserve, outReserve, out) == 6 * (out * inReserve) >= 5 * (outReserve * in)
ImpactBounded ==
  \A s \in swaps :
    /\ s.calm /\ s.in > Negligible
    /\ Pays(s.built, s.side, SmallIn(s.in)) >= Telling
    => KeepsPrice(s.in, InReserve(s.built, s.side), OutReserve(s.built, s.side),
                  Pays(s.built, s.side, s.in))

\* A volume cycle with both sides enabled never runs more than one intent ahead
\* on one side, even when the worker cuts the list of intents short.
CycleBalanced ==
  bot.strategy = "volume_cycle" /\ bot.buy /\ bot.sell
    => begun.buy - begun.sell \in {0, 1}

-----------------------------------------------------------------------------
(* The inductive invariant behind them.                                    *)

PoolType == [base : Nat \ {0}, quote : Nat \ {0}]
IntentType == [wallet : Int, side : {"buy", "sell"}, amount : Nat]
SwapFields == {"wallet", "side", "limited", "in", "floor", "built", "limit", "calm", "st", "out"}

TypeOK ==
  /\ bot \in Bots /\ queue \in Seq(IntentType) /\ pc \in Pcs /\ amount \in Nat
  /\ pool \in PoolType /\ built \in PoolType
  /\ limit \in Limits /\ highest \in Nat
  /\ begun \in [buy : Nat, sell : Nat]
  /\ \A s \in swaps : DOMAIN s = SwapFields /\ s.in \in Nat

\* Intents are what the strategy may generate.
IntentsAsConfigured ==
  \A i \in DOMAIN queue : Enabled(bot, queue[i].side) /\ queue[i].amount \in Amounts(bot)

\* What the current intent spends is its amount, or bounded by it and the limit.
Within(a) ==
  IF QuoteSpend
  THEN /\ a <= current.amount + Slack(current.amount) + Slack(highest)
       /\ a - Slack(a) <= highest
  ELSE a = current.amount
SpendsWithin ==
  /\ limit <= highest
  /\ pc \notin {"idle", "next"} => queue # <<>>
  /\ pc \notin {"idle", "next", "cap"} => Within(amount)

\* Minimum outputs come from the pool the transaction was built on.
FloorsFromBuild ==
  /\ pc \in {"estimate", "fees", "send"}
       => floor = MinOut(Pays(built, current.side, amount), bot.slippage)
  /\ \A s \in swaps : s.floor = MinOut(Pays(s.built, s.side, s.in), bot.slippage)

\* While the pool stands still, the quotes are those of the pool, the one the
\* transaction is built on included, and have passed the check.
QuotesFresh ==
  calm =>
    /\ pc \notin {"idle", "next", "cap", "balance", "quote"}
         => quoted = Pays(pool, current.side, amount)
    /\ pc \notin {"idle", "next", "cap", "balance", "quote", "small"} /\ amount > Negligible
         => small = Pays(pool, current.side, SmallIn(amount))
    /\ pc \in {"allowance", "approve", "build", "estimate", "fees", "send"} => ~TooDeep
    /\ pc \in {"estimate", "fees", "send"} => built = pool

\* The intents to come alternate, and the next is a purchase when as many
\* purchases as sales have begun.
TwoSided == bot.strategy = "volume_cycle" /\ bot.buy /\ bot.sell
Alternates(q) == \A i \in 1 .. Len(q) - 1 : q[i].side # q[i + 1].side
TurnsFollow ==
  TwoSided =>
    /\ Alternates(queue)
    /\ queue # <<>> =>
         (current.side = "buy") <=> ((begun.buy = begun.sell) <=> (pc = "next"))

IInv ==
  /\ TypeOK /\ IntentsAsConfigured /\ SpendsWithin /\ FloorsFromBuild /\ QuotesFresh
  /\ TurnsFollow /\ SwapsAsConfigured /\ FreshFloor /\ ImpactBounded /\ CycleBalanced
=============================================================================
