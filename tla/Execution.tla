------------------------------ MODULE Execution ------------------------------
(***************************************************************************)
(* The trading part of the execution cycles of one bot, and what becomes   *)
(* of their swaps: each cycle opens a BotRun and executes one intent per   *)
(* wallet (executor.service); the chain mines or replaces what the cycles  *)
(* broadcast; the confirmation worker polls receipts and settles the rows  *)
(* of the transactions table.  Cycles of one bot may overlap (see          *)
(* BotLifecycle) and then share its wallets, and so their nonces.          *)
(*                                                                         *)
(* Every awaited database or RPC call is a step.  Amounts, prices and gas  *)
(* are abstracted to the decisions taken on them.                          *)
(***************************************************************************)
EXTENDS Naturals, FiniteSets

CONSTANTS
  Cycles,       \* one execution cycle, hence one BotRun, each
  Wallets,      \* the active wallets of the bot's group
  BadWallets,   \* wallets whose key cannot be decrypted
  Polls,        \* overlapping rounds of the confirmation worker
  BatchSize,    \* rows one round reads: 100 in the code
  Deletable,    \* may the bot be deleted while cycles are in flight?
  Faults        \* which calls may fail for reasons of their own

ASSUME ConstantsOK ==
  /\ IsFiniteSet(Cycles)
  /\ IsFiniteSet(Wallets)
  /\ BadWallets \subseteq Wallets
  /\ BatchSize \in Nat \ {0}
  /\ Deletable \in BOOLEAN
  /\ Faults \subseteq {"db",       \* a query of the executor fails
                       "rpc",      \* a broadcast succeeds but its answer is lost
                       "crash"}    \* the worker dies

Intents == Cycles \X Wallets
Kinds == {"approve", "swap"}
TxIds == Intents \X Kinds
NoWallet == "no wallet"
Free == [st |-> "none", nonce |-> 0]

VARIABLES
  step,       \* where each cycle is
  left,       \* wallets whose intent each cycle has not begun
  at,         \* wallet of the current intent
  ok, bad,    \* intents submitted and failed so far, as the cycle counts them
  nonce,      \* nonce the signer has chosen for the transaction it sends
  run,        \* the BotRun rows
  row,        \* the transaction rows, one per intent
  deleted,    \* has the bot been deleted, with its runs and transactions?
  tx,         \* the chain and its mempool
  allowance,  \* wallets whose token allowance to the router is in place
  batch       \* rows each polling round still has to look at

cycleVars == <<step, left, at, ok, bad, nonce>>
chainVars == <<tx, allowance>>
dbVars == <<run, row, deleted>>
vars == <<step, left, at, ok, bad, nonce, run, row, deleted, tx, allowance, batch>>

Steps == {"open", "next", "sign", "check", "refuse", "allowance", "approve",
          "approveSend", "approveWait", "build", "send", "broadcast", "record", "catch",
          "close", "end", "thrown"}
\* "refused": status failed without a hash; the others carry the hash.
RowStates == {"none", "refused", "submitted", "confirmed", "reverted"}
Hashed == {"submitted", "confirmed", "reverted"}
TxStates == {"none", "pending", "success", "revert", "replaced"}
Runs == [status : {"none", "running", "completed", "failed"},
         successes : Nat, failures : Nat]
NoRun == [status |-> "none", successes |-> 0, failures |-> 0]

Init ==
  /\ step = [c \in Cycles |-> "open"]
  /\ left = [c \in Cycles |-> {}]
  /\ at = [c \in Cycles |-> NoWallet]
  /\ ok = [c \in Cycles |-> 0]
  /\ bad = [c \in Cycles |-> 0]
  /\ nonce = [c \in Cycles |-> 0]
  /\ run = [c \in Cycles |-> NoRun]
  /\ row = [i \in Intents |-> "none"]
  /\ deleted = FALSE
  /\ tx = [t \in TxIds |-> Free]
  /\ allowance \in [Wallets -> BOOLEAN]
  /\ batch = [p \in Polls |-> {}]

Goto(c, s) == step' = [step EXCEPT ![c] = s]
Intent(c) == <<c, at[c]>>

-----------------------------------------------------------------------------
(* processExecutionJob: the run and the loop over the intents.              *)

\* botRun.create; the foreign key refuses it once the bot is gone.
OpenRun(c) ==
  /\ step[c] = "open"
  /\ IF deleted
     THEN Goto(c, "thrown") /\ UNCHANGED <<run, left>>
     ELSE /\ run' = [run EXCEPT ![c].status = "running"]
          /\ \E intents \in SUBSET Wallets : left' = [left EXCEPT ![c] = intents]
          /\ Goto(c, "next")
  /\ UNCHANGED <<at, ok, bad, nonce, row, deleted, chainVars, batch>>

NextIntent(c) ==
  /\ step[c] = "next"
  /\ IF left[c] = {}
     THEN Goto(c, "close") /\ UNCHANGED <<left, at>>
     ELSE \E w \in left[c] : /\ at' = [at EXCEPT ![c] = w]
                             /\ left' = [left EXCEPT ![c] = @ \ {w}]
                             /\ Goto(c, "sign")
  /\ UNCHANGED <<ok, bad, nonce, dbVars, chainVars, batch>>

\* botRun.update with the counts; there is nothing to update once it is deleted.
CloseRun(c) ==
  /\ step[c] = "close"
  /\ IF deleted
     THEN Goto(c, "thrown") /\ UNCHANGED run
     ELSE /\ run' = [run EXCEPT ![c] =
                      [status |-> IF bad[c] > 0 /\ ok[c] = 0 THEN "failed" ELSE "completed",
                       successes |-> ok[c], failures |-> bad[c]]]
          /\ Goto(c, "end")
  /\ UNCHANGED <<left, at, ok, bad, nonce, row, deleted, chainVars, batch>>

\* executeIntent returns: the loop counts a failure code as a failure.
Submitted(c) == ok' = [ok EXCEPT ![c] = @ + 1] /\ Goto(c, "next") /\ UNCHANGED bad
Failed(c) == bad' = [bad EXCEPT ![c] = @ + 1] /\ Goto(c, "next") /\ UNCHANGED ok

-----------------------------------------------------------------------------
(* executeIntent.                                                           *)

Insertable == ~deleted

\* Token addresses, signer and limit (capWeiToUserLimit) come before the try:
\* bad addresses are a failed row, and anything thrown ends the whole cycle.
Sign(c) ==
  /\ step[c] = "sign"
  /\ \/ Goto(c, "catch")
     \/ Goto(c, IF at[c] \in BadWallets THEN "thrown" ELSE "check")
     \/ "db" \in Faults /\ Goto(c, "thrown")
  /\ UNCHANGED <<left, at, ok, bad, nonce, dbVars, chainVars, batch>>

\* Balance, quote and price impact; native balance and RPC errors throw.
Check(c) ==
  /\ step[c] = "check"
  /\ \E s \in {"refuse", "catch", "allowance"} : Goto(c, s)
  /\ UNCHANGED <<left, at, ok, bad, nonce, dbVars, chainVars, batch>>

\* buildSwapTx quotes again; then gas estimation and the gas balance.
Build(c) ==
  /\ step[c] = "build"
  /\ \E s \in {"refuse", "catch", "send"} : Goto(c, s)
  /\ UNCHANGED <<left, at, ok, bad, nonce, dbVars, chainVars, batch>>

\* Mutant of PersistFailed: the return after the insert is missing, so that the
\* intent goes on into the catch block.
PersistFailedTwice(c) ==
  /\ step[c] \in {"refuse", "catch"}
  /\ Insertable
  /\ row' = [row EXCEPT ![Intent(c)] = "refused"]
  /\ bad' = [bad EXCEPT ![c] = @ + 1]
  /\ Goto(c, IF step[c] = "refuse" THEN "catch" ELSE "next")
  /\ UNCHANGED <<left, at, ok, nonce, run, deleted, chainVars, batch>>

\* persistFailed and return of the failure code.  When the insert fails inside
\* the try ("refuse"), the catch block tries again; in the catch block it throws.
PersistFailed(c) ==
  /\ step[c] \in {"refuse", "catch"}
  /\ \/ /\ Insertable
        /\ row' = [row EXCEPT ![Intent(c)] = "refused"]
        /\ Failed(c)
     \/ /\ ~Insertable \/ "db" \in Faults
        /\ Goto(c, IF step[c] = "refuse" THEN "catch" ELSE "thrown")
        /\ UNCHANGED <<row, ok, bad>>
  /\ UNCHANGED <<left, at, nonce, run, deleted, chainVars, batch>>

OfWallet(w) == {t \in TxIds : t[1][2] = w /\ tx[t].st # "none"}

\* getTransactionCount(address, "pending").
PendingCount(w) == Cardinality({tx[t].nonce : t \in OfWallet(w)})

\* Spending BNB needs no allowance; one given for a token is never used up.
Allowance(c) ==
  /\ step[c] = "allowance"
  /\ \/ Goto(c, "build")
     \/ ~allowance[at[c]] /\ Goto(c, "approve")
  /\ UNCHANGED <<left, at, ok, bad, nonce, dbVars, chainVars, batch>>

\* The signer fills in the nonce, then signs and broadcasts: two calls.
Send(c) ==
  /\ \/ step[c] = "approve" /\ Goto(c, "approveSend")
     \/ step[c] = "send" /\ Goto(c, "broadcast")
  /\ nonce' = [nonce EXCEPT ![c] = PendingCount(at[c])]
  /\ UNCHANGED <<left, at, ok, bad, dbVars, chainVars, batch>>

\* A node takes a transaction with a new nonce, or in place of a cheaper one.
Rivals(c) == {t \in OfWallet(at[c]) : tx[t].nonce = nonce[c] /\ tx[t].st # "replaced"}
Accepted(c, kind) ==
  /\ \A t \in Rivals(c) : tx[t].st = "pending"
  /\ tx' = [t \in TxIds |->
              IF t = <<Intent(c), kind>> THEN [st |-> "pending", nonce |-> nonce[c]]
              ELSE IF t \in Rivals(c) THEN [tx[t] EXCEPT !.st = "replaced"]
              ELSE tx[t]]

Broadcast(c) ==
  /\ \/ /\ step[c] = "approveSend"
        /\ Accepted(c, "approve")
        /\ Goto(c, "approveWait")
     \/ /\ step[c] = "broadcast"
        /\ Accepted(c, "swap")
        /\ \/ Goto(c, "record")
           \/ "rpc" \in Faults /\ Goto(c, "catch")
     \/ /\ step[c] \in {"approveSend", "broadcast"}
        /\ Rivals(c) # {}
        /\ Goto(c, "catch")
        /\ UNCHANGED tx
  /\ UNCHANGED <<left, at, ok, bad, nonce, dbVars, allowance, batch>>

\* Mutant of ApproveWait: waits for a success that may never come.
ApproveWaitSuccess(c) ==
  /\ step[c] = "approveWait"
  /\ tx[<<Intent(c), "approve">>].st = "success"
  /\ Goto(c, "build")
  /\ UNCHANGED <<left, at, ok, bad, nonce, dbVars, chainVars, batch>>

\* approveTx.wait(): a reverted or replaced approval throws.
ApproveWait(c) ==
  LET t == <<Intent(c), "approve">>
  IN /\ step[c] = "approveWait"
     /\ tx[t].st # "pending"
     /\ Goto(c, IF tx[t].st = "success" THEN "build" ELSE "catch")
     /\ UNCHANGED <<left, at, ok, bad, nonce, dbVars, chainVars, batch>>

\* Mutant of Record: the row is inserted without the hash.
RecordWithoutHash(c) ==
  /\ step[c] = "record"
  /\ Insertable
  /\ row' = [row EXCEPT ![Intent(c)] = "refused"]
  /\ Submitted(c)
  /\ UNCHANGED <<left, at, nonce, run, deleted, chainVars, batch>>

\* transaction.create with status submitted and the hash.
Record(c) ==
  /\ step[c] = "record"
  /\ \/ /\ Insertable
        /\ row' = [row EXCEPT ![Intent(c)] = "submitted"]
        /\ Submitted(c)
     \/ /\ ~Insertable \/ "db" \in Faults
        /\ Goto(c, "catch")
        /\ UNCHANGED <<row, ok, bad>>
  /\ UNCHANGED <<left, at, nonce, run, deleted, chainVars, batch>>

Crash(c) ==
  /\ "crash" \in Faults
  /\ step[c] \notin {"end", "thrown"}
  /\ Goto(c, "thrown")
  /\ UNCHANGED <<left, at, ok, bad, nonce, dbVars, chainVars, batch>>

-----------------------------------------------------------------------------
(* The chain, deleteBot, and the confirmation worker.                       *)

\* Transactions of a wallet are mined in the order of their nonces.
Mine(t) ==
  /\ tx[t].st = "pending"
  /\ \A u \in OfWallet(t[1][2]) : tx[u].nonce < tx[t].nonce => tx[u].st # "pending"
  /\ \E outcome \in {"success", "revert"} :
       /\ tx' = [tx EXCEPT ![t].st = outcome]
       /\ allowance' = [allowance EXCEPT ![t[1][2]] =
                          @ \/ (t[2] = "approve" /\ outcome = "success")]
  /\ UNCHANGED <<cycleVars, dbVars, batch>>

\* The transaction of deleteBot, on a bot that was stopped in mid-cycle.
DeleteBot ==
  /\ Deletable
  /\ ~deleted
  /\ deleted' = TRUE
  /\ run' = [c \in Cycles |-> NoRun]
  /\ row' = [i \in Intents |-> "none"]
  /\ UNCHANGED <<cycleVars, chainVars, batch>>

\* Mutant of Waiting: the status filter is missing.
WaitingAny == {i \in Intents : row[i] # "none"}

Waiting == {i \in Intents : row[i] = "submitted"}

\* findMany(submitted, take 100), in whatever order the database likes.
PollStart(p) ==
  /\ batch[p] = {}
  /\ Waiting # {}
  /\ \E rows \in SUBSET Waiting :
       /\ \/ Cardinality(rows) = BatchSize
          \/ Cardinality(rows) < BatchSize /\ rows = Waiting
       /\ batch' = [batch EXCEPT ![p] = rows]
  /\ UNCHANGED <<cycleVars, dbVars, chainVars>>

Receipt(i) == tx[<<i, "swap">>].st

\* Mutants of PollRow: no receipt yet counts as reverted; or a revert is ignored.
PollRowHasty(p) ==
  \E i \in batch[p] :
    /\ batch' = [batch EXCEPT ![p] = @ \ {i}]
    /\ row' = [row EXCEPT ![i] = IF @ = "none" THEN @
                                 ELSE IF Receipt(i) = "success" THEN "confirmed"
                                 ELSE "reverted"]
    /\ UNCHANGED <<cycleVars, run, deleted, chainVars>>
PollRowSuccessOnly(p) ==
  \E i \in batch[p] :
    /\ batch' = [batch EXCEPT ![p] = @ \ {i}]
    /\ row' = [row EXCEPT ![i] = IF Receipt(i) = "success" /\ @ # "none" THEN "confirmed" ELSE @]
    /\ UNCHANGED <<cycleVars, run, deleted, chainVars>>

\* One row of the round: no receipt, no change; otherwise update by id, which
\* a deleted row makes throw, and the round goes on.
PollRow(p) ==
  \E i \in batch[p] :
    /\ batch' = [batch EXCEPT ![p] = @ \ {i}]
    /\ row' = [row EXCEPT ![i] = IF @ = "none" THEN @
                                 ELSE IF Receipt(i) = "success" THEN "confirmed"
                                 ELSE IF Receipt(i) = "revert" THEN "reverted"
                                 ELSE @]
    /\ UNCHANGED <<cycleVars, run, deleted, chainVars>>

-----------------------------------------------------------------------------
CycleStep(c) ==
  \/ OpenRun(c)
  \/ NextIntent(c)
  \/ CloseRun(c)
  \/ Sign(c)
  \/ Check(c)
  \/ Build(c)
  \/ PersistFailed(c)
  \/ Allowance(c)
  \/ Send(c)
  \/ Broadcast(c)
  \/ ApproveWait(c)
  \/ Record(c)

Next ==
  \/ \E c \in Cycles : CycleStep(c) \/ Crash(c)
  \/ \E t \in TxIds : Mine(t)
  \/ \E p \in Polls : PollStart(p) \/ PollRow(p)
  \/ DeleteBot

(* A worker that lives goes on with its cycle, the chain mines what is in   *)
(* the mempool, and setInterval starts a round every five seconds.          *)
Fairness ==
  /\ \A c \in Cycles : WF_vars(CycleStep(c))
  /\ \A t \in TxIds : WF_vars(Mine(t))
  /\ \A p \in Polls : WF_vars(PollStart(p)) /\ WF_vars(PollRow(p))

SafeSpec == Init /\ [][Next]_vars
Spec == SafeSpec /\ Fairness

-----------------------------------------------------------------------------
(* Properties.                                                              *)

TypeOK ==
  /\ step \in [Cycles -> Steps]
  /\ left \in [Cycles -> SUBSET Wallets]
  /\ at \in [Cycles -> Wallets \union {NoWallet}]
  /\ ok \in [Cycles -> Nat]
  /\ bad \in [Cycles -> Nat]
  /\ nonce \in [Cycles -> Nat]
  /\ run \in [Cycles -> Runs]
  /\ row \in [Intents -> RowStates]
  /\ deleted \in BOOLEAN
  /\ tx \in [TxIds -> [st : TxStates, nonce : Nat]]
  /\ allowance \in [Wallets -> BOOLEAN]
  /\ batch \in [Polls -> SUBSET Intents]

RowsOf(c, states) == {w \in Wallets : row[<<c, w>>] \in states}

\* The counts a finished run reports are those of its transaction rows, however
\* its inserts failed and whatever the confirmation worker did to them since.
RunCountsItsRows ==
  \A c \in Cycles : run[c].status \in {"completed", "failed"} =>
    /\ run[c].successes = Cardinality(RowsOf(c, Hashed))
    /\ run[c].failures = Cardinality(RowsOf(c, {"refused"}))

\* A row never says more than the chain: submitted only what was broadcast,
\* confirmed or reverted only what was mined that way.
RowsAgreeWithChain ==
  \A i \in Intents :
    /\ row[i] = "submitted" => Receipt(i) # "none"
    /\ row[i] = "confirmed" => Receipt(i) = "success"
    /\ row[i] = "reverted" => Receipt(i) = "revert"

\* What these two rest on.  The current intent of a cycle has no row yet, and no
\* swap before its broadcast; intents not begun have neither; a round of the
\* confirmation worker holds rows with a hash; a deleted bot has no rows; the
\* counters of a cycle are those of its rows, and a closed run repeats them.
BeforeSwap == {"sign", "check", "refuse", "allowance", "approve", "approveSend",
               "approveWait", "build", "send", "broadcast"}
CurrentIntents ==
  \A c \in Cycles : step[c] \in BeforeSwap \union {"record", "catch"} =>
    /\ at[c] \in Wallets \ left[c]
    /\ row[Intent(c)] = "none"
    /\ step[c] \in BeforeSwap => Receipt(Intent(c)) = "none"
    /\ step[c] = "record" => Receipt(Intent(c)) # "none"
IntentsNotBegun ==
  \A c \in Cycles, w \in Wallets : step[c] = "open" \/ w \in left[c] =>
    row[<<c, w>>] = "none" /\ Receipt(<<c, w>>) = "none"
BatchesHashed == \A p \in Polls : \A i \in batch[p] : row[i] \in Hashed \/ deleted
DeletedEmpty ==
  deleted => Deletable /\ (\A i \in Intents : row[i] = "none")
CountsMatch ==
  \A c \in Cycles : ~deleted => /\ ok[c] = Cardinality(RowsOf(c, Hashed))
                               /\ bad[c] = Cardinality(RowsOf(c, {"refused"}))
RunsReport ==
  \A c \in Cycles : run[c].status \in {"completed", "failed"} =>
    step[c] = "end" /\ ~deleted /\ run[c].successes = ok[c] /\ run[c].failures = bad[c]
IInv ==
  /\ TypeOK
  /\ RowsAgreeWithChain
  /\ CurrentIntents
  /\ IntentsNotBegun
  /\ BatchesHashed
  /\ DeletedEmpty
  /\ CountsMatch
  /\ RunsReport

\* "Persist Transaction doc with status 'submitted' and txHash": what a cycle has
\* broadcast and is not just recording has a row with its hash, so in particular
\* no row says failed while the swap is on the chain.
EverySwapRecorded ==
  \A c \in Cycles, w \in Wallets :
    /\ Receipt(<<c, w>>) # "none"
    /\ ~(step[c] = "record" /\ at[c] = w)
    => row[<<c, w>>] \in Hashed

\* A settled row stays as it is until the bot is deleted, although rounds of the
\* confirmation worker overlap and work on rows they read long ago.
SettledRowsStay ==
  [][\A i \in Intents : row[i] \in {"refused", "confirmed", "reverted"}
       => row'[i] = row[i] \/ deleted']_row

\* The swaps and rows as SwapLedger sees them.  Only a failed query or a lost
\* answer can make a swap look refused.
Ledger == INSTANCE SwapLedger WITH
  chain <- [i \in Intents |-> Receipt(i)],
  ledger <- row,
  gone <- deleted,
  Misreports <- Faults \intersect {"db", "rpc"} # {}

\* However cycles and rounds overlap and whatever fails, an intent is never swapped
\* twice nor after its refusal, a row follows its swap and is settled once, by what
\* was mined, and a deleted bot has no rows again.
ImplementsLedger == Ledger!Spec

\* Every run is closed: conflicting nonces, replaced approvals and refused
\* intents never leave a run open.
RunsEnd == \A c \in Cycles : run[c].status = "running" ~> run[c].status # "running"

\* Rows that wait for a receipt that will never come: another transaction of the
\* wallet took the nonce.
Orphans == {i \in Waiting : Receipt(i) = "replaced"}

\* A mined swap does not stay submitted for ever, however few rows a round reads
\* and in whatever order, as long as the rows that nothing will ever settle do not
\* fill a round: from the hundredth of those on, the confirmation worker may stand still.
MinedSwapsSettle ==
  \A i \in Intents :
    []<>(Cardinality(Orphans) < BatchSize)
      => (row[i] = "submitted" /\ Receipt(i) \in {"success", "revert"}
            ~> row[i] # "submitted")
=============================================================================
