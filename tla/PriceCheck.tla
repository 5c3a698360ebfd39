----------------------------- MODULE PriceCheck -----------------------------
(***************************************************************************)
(* The price panel of the form that creates a bot.  The form's second step *)
(* holds the pair; the panel asks for its price when the pair has stood    *)
(* still for a while, again every fifteen seconds, and whenever the trader *)
(* asks.  A new request aborts the one in flight.  Answers take their time *)
(* and the market moves.                                                   *)
(*                                                                         *)
(* A token brings its decimals along, so a query is a pair and a router.   *)
(***************************************************************************)
EXTENDS PriceRoutes

CONSTANTS
  Bases,        \* tokens the trader may choose
  Quotes,       \* QUOTE_TOKENS
  NoToken,
  Markets       \* a sequence: states the market may be in

ASSUME PriceCheckOK ==
  /\ WBNB \in Quotes /\ NoToken \notin Bases
  /\ USDT \in Dollars
  /\ FeeTiers \in Nat \ {0}
  /\ Unit \in [Bases \union Quotes \union Dollars -> Nat \ {0}]

VARIABLES
  step, sliding,          \* step of the form, steps it is being animated to
  combo, base, quote,     \* the fields of the form
  timer,                  \* is the debounce timer running?
  calls, asked,           \* requests in flight, the query of the last one
  data, failed, loading,  \* state of the panel
  market                  \* which of Markets it is in

form == <<step, sliding, combo, base, quote>>
panel == <<data, failed, loading>>
priceVars == <<form, timer, calls, asked, panel, market>>

NoData == [query |-> <<>>, price |-> {}]     \* the query answered, and the answer
Query == <<combo, base, quote>>
Call(q) == [query |-> q, served |-> {}]
Enabled(s, b) == s = 2 /\ b # NoToken

PriceInit ==
  /\ step = 1 /\ sliding = {}
  /\ combo = <<"pancakeswap", "v2">> /\ base = NoToken /\ quote = WBNB
  /\ timer = FALSE
  /\ calls = {} /\ asked = <<>>
  /\ data = NoData /\ failed = FALSE /\ loading = FALSE
  /\ market \in DOMAIN Markets

-----------------------------------------------------------------------------
(* The form.  Whatever re-renders it runs the effects of usePriceCheck.    *)

\* Mutant of Effects: the price stays on the screen while nothing is asked.
EffectsWithoutTimer ==
  /\ timer' = FALSE
  /\ IF Enabled(step', base')
     THEN UNCHANGED panel
     ELSE data' = NoData /\ failed' = FALSE /\ loading' = FALSE

\* The effects of a change of query or step: the panel is cleared while it is
\* disabled, and otherwise waits for the pair to stand still.
Effects ==
  /\ timer' = Enabled(step', base')
  /\ IF Enabled(step', base')
     THEN UNCHANGED panel
     ELSE data' = NoData /\ failed' = FALSE /\ loading' = FALSE

Outside == UNCHANGED <<calls, asked, market>>

\* goToStep: validation and animation take a while, and others may start.
Slide(n) ==
  /\ n \in {step - 1, step + 1} \intersect 1..3
  /\ n = 3 => base \notin {NoToken, quote}
  /\ sliding' = sliding \union {n}
  /\ UNCHANGED <<step, combo, base, quote, timer, panel>> /\ Outside

SlideEnds(n) ==
  /\ n \in sliding
  /\ sliding' = sliding \ {n}
  /\ step' = n
  /\ UNCHANGED <<combo, base, quote>> /\ Outside
  /\ IF Enabled(n, base) = Enabled(step, base) THEN UNCHANGED <<timer, panel>> ELSE Effects

SelectDex(c) ==
  /\ step = 1 /\ c # combo
  /\ combo' = c
  /\ UNCHANGED <<step, sliding, base, quote>> /\ Outside
  /\ Effects

SelectBase(b) ==
  /\ step = 2 /\ b # base
  /\ base' = b
  /\ UNCHANGED <<step, sliding, combo, quote>> /\ Outside
  /\ Effects

SelectQuote(q) ==
  /\ step = 2 /\ q # quote
  /\ quote' = q
  /\ UNCHANGED <<step, sliding, combo, base>> /\ Outside
  /\ IF Enabled(step, base) THEN Effects ELSE UNCHANGED <<timer, panel>>

-----------------------------------------------------------------------------
(* fetchPrice.                                                             *)

\* Mutant of InFlight: the request in flight is not aborted.
InFlightAll(q) == calls \union {Call(q)}

InFlight(q) == {Call(q)}

\* An aborted request ends after the new one has begun, and switches its
\* spinner off.
Fetch ==
  /\ Enabled(step, base)
  /\ calls' = InFlight(Query)
  /\ asked' = Query
  /\ loading' = (calls = {})
  /\ failed' = FALSE
  /\ UNCHANGED <<form, data, market>>

Debounced == timer /\ timer' = FALSE /\ Fetch
Tick == Fetch /\ UNCHANGED timer
OnRefresh == (data # NoData \/ failed) /\ Fetch /\ UNCHANGED timer

\* The price of a query in the market as it is, and what the server may
\* answer when calls to the node fail.
PriceOf(q) == Price(Markets[market], q[1], q[2], q[3])
PricesOf(q) == Prices(Markets[market], q[1], q[2], q[3])

\* It refuses a token paired with itself.
GetTokenPrice(c) ==
  /\ c.served = {} /\ c.query[2] # c.query[3]
  /\ UNCHANGED <<form, timer, asked, panel, market>>
  /\ \E p \in PricesOf(c.query) : calls' = (calls \ {c}) \union {[c EXCEPT !.served = {p}]}

Deliver(c) ==
  /\ c.served # {}
  /\ data' = [query |-> c.query, price |-> c.served]
  /\ calls' = calls \ {c}
  /\ loading' = FALSE
  /\ UNCHANGED <<form, timer, asked, failed, market>>

Failure(c) ==
  /\ calls' = calls \ {c}
  /\ data' = NoData /\ failed' = TRUE /\ loading' = FALSE
  /\ UNCHANGED <<form, timer, asked, market>>

MarketMoves ==
  /\ market' \in DOMAIN Markets \ {market}
  /\ UNCHANGED <<form, timer, calls, asked, panel>>

-----------------------------------------------------------------------------
Fails == \E c \in calls : Failure(c)
Answers == \E c \in calls : GetTokenPrice(c)
Delivers == \E c \in calls : Deliver(c)

\* An answer that calls to the node have failed for.
Degraded ==
  \E c \in calls' \ calls : c.served # {} /\ c.served # {PriceOf(c.query)}

PriceNext ==
  \/ \E n \in 1..3 : Slide(n) \/ SlideEnds(n)
  \/ \E c \in Combos : SelectDex(c)
  \/ \E b \in Bases : SelectBase(b)
  \/ \E q \in Quotes : SelectQuote(q)
  \/ Debounced \/ Tick \/ OnRefresh
  \/ Answers \/ Delivers \/ Fails
  \/ MarketMoves

\* Timers fire, the server answers, and it does so within the fifteen seconds
\* after which the panel gives a request up.
PriceSpec ==
  /\ PriceInit /\ [][PriceNext]_priceVars
  /\ WF_priceVars(Debounced) /\ WF_priceVars(Tick)
  /\ SF_priceVars(Answers) /\ SF_priceVars(Delivers)

-----------------------------------------------------------------------------
(* An answer is shown only if it answers the last question: not even a      *)
(* refresh during a change of pair brings an older answer back.             *)
AnswersNewest == [][data' \notin {data, NoData} => data'.query = asked]_priceVars

(* A price of another pair or router is on the screen only while the timer  *)
(* or a request that will replace it is running.                            *)
StaleOnlyWhileChecking ==
  Enabled(step, base) /\ data # NoData /\ data.query # Query => timer \/ calls # {}

\* What the market says of a query, independently of the order of the paths.
Reachable(m, q) ==
  LET Pool(a, b) == \E i \in 1..FeeTiers :
                      IF q[1][2] = "v2" THEN m.v2[q[1][1]][a, b].in > 0 ELSE m.v3[i][a, b].in > 0
  IN  \/ Pool(q[2], q[3])
      \/ q[3] # WBNB /\ Pool(q[2], WBNB) /\ Pool(WBNB, q[3])

(* When the trader rests on a pair, the market stands still and calls come  *)
(* through, those to the node included, the panel comes to show the price   *)
(* of that pair in that market, listed exactly if pools lead from base to   *)
(* quote: what an error of the node made of a price does not stay.          *)
PriceCatchesUp ==
  /\ <>[][UNCHANGED <<step, combo, base, quote, market>> /\ ~Fails /\ ~Degraded]_priceVars
  /\ <>[](Enabled(step, base) /\ base # quote)
  => <>[](/\ data.query = Query
          /\ data.price = {PriceOf(Query)}
          /\ \A p \in data.price : p.listed = Reachable(Markets[market], Query))
=============================================================================
