--------------------------- MODULE Execution_proofs ---------------------------
(* Proofs about Execution, for any number of cycles, wallets and rounds of  *)
(* the confirmation worker, and any faults.                                 *)
EXTENDS Execution, FiniteSetTheorems, TLAPS

USE ConstantsOK DEF ConstantsOK

\* The pending count of a wallet is a number: a wallet has finitely many
\* transactions (Send's choice of a nonce).
LEMMA PendingCountType == ASSUME NEW w PROVE PendingCount(w) \in Nat
<1> DEFINE S == OfWallet(w)
           T == {tx[t].nonce : t \in S}
           f == [t \in S |-> tx[t].nonce]
<1>1. IsFiniteSet(S)
  <2>1. IsFiniteSet(Intents)
    BY FS_Product DEF Intents
  <2>2. IsFiniteSet(Kinds)
    <3>1. Kinds = {"approve"} \union {"swap"}
      BY DEF Kinds
    <3>2. IsFiniteSet({"approve"})
      BY FS_Singleton
    <3>3. QED
      BY <3>1, <3>2, FS_AddElement
  <2>3. IsFiniteSet(TxIds)
    BY <2>1, <2>2, FS_Product DEF TxIds
  <2>4. QED
    BY <2>3, FS_Subset DEF OfWallet
<1>2. f \in Surjection(S, T)
  BY DEF Surjection
<1>3. IsFiniteSet(T)
  BY <1>1, <1>2, FS_Surjection
<1>4. QED
  BY <1>3, FS_CardinalityType DEF PendingCount

\* Every step keeps every variable within its type.
LEMMA TypeStep == TypeOK /\ [Next]_vars => TypeOK'
<1> SUFFICES ASSUME TypeOK, [Next]_vars PROVE TypeOK'
  OBVIOUS
<1> USE DEF TypeOK, Goto, Steps, RowStates, cycleVars, chainVars, dbVars
<1>1. ASSUME NEW c \in Cycles, OpenRun(c) PROVE TypeOK'
  <2>1. run' \in [Cycles -> Runs]
    BY <1>1 DEF OpenRun, Runs
  <2>2. left' \in [Cycles -> SUBSET Wallets]
    BY <1>1 DEF OpenRun
  <2>3. QED
    BY <1>1, <2>1, <2>2 DEF OpenRun
<1>2. ASSUME NEW c \in Cycles, NextIntent(c) PROVE TypeOK'
  <2>1. left' \in [Cycles -> SUBSET Wallets]
    BY <1>2 DEF NextIntent
  <2>2. at' \in [Cycles -> Wallets \union {NoWallet}]
    BY <1>2 DEF NextIntent
  <2>3. QED
    BY <1>2, <2>1, <2>2 DEF NextIntent
<1>3. ASSUME NEW c \in Cycles, CloseRun(c) PROVE TypeOK'
  <2>1. run' \in [Cycles -> Runs]
    <3>1. PICK status \in {"failed", "completed"} :
                 \/ run' = [run EXCEPT ![c] = [status |-> status,
                              successes |-> ok[c], failures |-> bad[c]]]
                 \/ run' = run
      BY <1>3 DEF CloseRun
    <3>2. QED
      BY <3>1 DEF Runs
  <2>2. QED
    BY <1>3, <2>1 DEF CloseRun
<1>4. ASSUME NEW c \in Cycles,
             Sign(c) \/ Check(c) \/ Build(c) \/ Allowance(c) \/ ApproveWait(c) \/ Crash(c)
      PROVE  TypeOK'
  BY <1>4 DEF Sign, Check, Build, Allowance, ApproveWait, Crash
<1>5. ASSUME NEW c \in Cycles, PersistFailed(c) \/ Record(c) PROVE TypeOK'
  <2>1. row' \in [Intents -> RowStates]
    BY <1>5 DEF PersistFailed, Record
  <2>2. ok' \in [Cycles -> Nat] /\ bad' \in [Cycles -> Nat]
    BY <1>5 DEF PersistFailed, Record, Failed, Submitted
  <2>3. step' \in [Cycles -> Steps]
    BY <1>5 DEF PersistFailed, Record, Failed, Submitted
  <2>4. QED
    BY <1>5, <2>1, <2>2, <2>3 DEF PersistFailed, Record
<1>6. ASSUME NEW c \in Cycles, Send(c) PROVE TypeOK'
  BY <1>6, PendingCountType DEF Send
<1>7. ASSUME NEW c \in Cycles, Broadcast(c) PROVE TypeOK'
  <2>1. tx' \in [TxIds -> [st : TxStates, nonce : Nat]]
    BY <1>7 DEF Broadcast, Accepted, TxStates
  <2>2. QED
    BY <1>7, <2>1 DEF Broadcast
<1>8. ASSUME NEW t \in TxIds, Mine(t) PROVE TypeOK'
  <2>1. tx' \in [TxIds -> [st : TxStates, nonce : Nat]]
    BY <1>8 DEF Mine, TxStates
  <2>2. allowance' \in [Wallets -> BOOLEAN]
    BY <1>8, Zenon DEF Mine
  <2>3. QED
    BY <1>8, <2>1, <2>2 DEF Mine
<1>9. ASSUME NEW p \in Polls, PollStart(p) \/ PollRow(p) PROVE TypeOK'
  <2>1. row' \in [Intents -> RowStates]
    BY <1>9 DEF PollStart, PollRow
  <2>2. batch' \in [Polls -> SUBSET Intents]
    BY <1>9 DEF PollStart, PollRow, Waiting
  <2>3. QED
    BY <1>9, <2>1, <2>2 DEF PollStart, PollRow
<1>10. CASE DeleteBot
  BY <1>10 DEF DeleteBot, Runs, NoRun
<1>11. CASE UNCHANGED vars
  BY <1>11 DEF vars
<1>12. QED
  BY <1>1, <1>2, <1>3, <1>4, <1>5, <1>6, <1>7, <1>8, <1>9, <1>10, <1>11 DEF Next, CycleStep

-----------------------------------------------------------------------------
(* The inductive invariant.                                                 *)

\* Nothing has been opened, broadcast or recorded.
LEMMA InitIInv == Init => IInv
<1> SUFFICES ASSUME Init PROVE IInv
  OBVIOUS
<1> USE DEF Init, Free, NoRun
<1>1. TypeOK
  BY DEF TypeOK, Steps, Runs, RowStates, TxStates
<1>2. \A i \in Intents : row[i] = "none" /\ Receipt(i) = "none"
  BY DEF Receipt, TxIds, Kinds
<1>3. \A c \in Cycles, states \in {Hashed, {"refused"}} : RowsOf(c, states) = {}
  BY DEF RowsOf, Hashed, Intents
<1>4. QED
  BY <1>1, <1>2, <1>3, FS_EmptySet
  DEF IInv, RowsAgreeWithChain, CurrentIntents, IntentsNotBegun, BeforeSwap, Intents,
      BatchesHashed, DeletedEmpty, CountsMatch, RunsReport

\* The counts still match when neither they nor the rows change.
LEMMA CountsKept ==
  ASSUME CountsMatch, UNCHANGED <<ok, bad, row, deleted>>
  PROVE  CountsMatch'
<1>1. \A c \in Cycles : /\ RowsOf(c, Hashed)' = RowsOf(c, Hashed)
                       /\ RowsOf(c, {"refused"})' = RowsOf(c, {"refused"})
  BY DEF RowsOf, Hashed
<1>2. QED
  BY <1>1 DEF CountsMatch

\* Steps of a cycle between its database and broadcast calls change no row, no
\* transaction and no count.
LEMMA LocalIInv ==
  ASSUME IInv, TypeOK', NEW c \in Cycles,
         \/ NextIntent(c)
         \/ Sign(c)
         \/ Check(c)
         \/ Build(c)
         \/ Allowance(c)
         \/ Send(c)
         \/ ApproveWait(c)
         \/ Crash(c)
  PROVE  IInv'
<1> USE DEF IInv, TypeOK, dbVars, chainVars
<1>1. UNCHANGED <<ok, bad, run, row, deleted, tx, batch>>
  BY DEF NextIntent, Sign, Check, Build, Allowance, Send, ApproveWait, Crash
<1>2. RowsAgreeWithChain' /\ BatchesHashed' /\ DeletedEmpty' /\ CountsMatch'
  <2>1. RowsAgreeWithChain' /\ BatchesHashed' /\ DeletedEmpty'
    BY <1>1 DEF RowsAgreeWithChain, BatchesHashed, DeletedEmpty, Receipt
  <2>2. CountsMatch'
    BY <1>1, CountsKept
  <2>3. QED
    BY <2>1, <2>2
<1>3. RunsReport'
  <2>1. step[c] # "end"
    BY DEF NextIntent, Sign, Check, Build, Allowance, Send, ApproveWait, Crash
  <2>2. \A d \in Cycles \ {c} : step'[d] = step[d]
    BY DEF NextIntent, Sign, Check, Build, Allowance, Send, ApproveWait, Crash, Goto
  <2>3. QED
    BY <1>1, <2>1, <2>2 DEF RunsReport
<1>4. IntentsNotBegun'
  <2>1. \A d \in Cycles : step'[d] = "open" => step[d] = "open"
    BY DEF NextIntent, Sign, Check, Build, Allowance, Send, ApproveWait, Crash, Goto
  <2>2. \A d \in Cycles : left'[d] \subseteq left[d]
    BY DEF NextIntent, Sign, Check, Build, Allowance, Send, ApproveWait, Crash
  <2>3. QED
    BY <1>1, <2>1, <2>2 DEF IntentsNotBegun, Receipt
<1>5. CurrentIntents'
  <2> USE DEF CurrentIntents, BeforeSwap, Intent, Goto, Receipt
  <2>1. CASE NextIntent(c)
    <3>1. CASE left[c] = {}
      BY <1>1, <2>1, <3>1 DEF NextIntent
    <3>2. CASE left[c] # {}
      <4>1. PICK w \in left[c] : /\ at' = [at EXCEPT ![c] = w]
                                /\ left' = [left EXCEPT ![c] = @ \ {w}]
                                /\ step' = [step EXCEPT ![c] = "sign"]
        BY <2>1, <3>2 DEF NextIntent
      <4>2. w \in Wallets /\ row[<<c, w>>] = "none" /\ Receipt(<<c, w>>) = "none"
        BY <4>1 DEF IntentsNotBegun
      <4>3. QED
        BY <1>1, <4>1, <4>2
    <3>3. QED
      BY <3>1, <3>2
  <2>2. CASE Crash(c)
    BY <1>1, <2>2 DEF Crash
  <2>3. CASE Sign(c) \/ Check(c) \/ Build(c) \/ Allowance(c) \/ Send(c) \/ ApproveWait(c)
    <3>1. UNCHANGED <<left, at>>
      BY <2>3 DEF Sign, Check, Build, Allowance, Send, ApproveWait
    <3>2. /\ step[c] \in BeforeSwap
          /\ step'[c] \in BeforeSwap \union {"catch", "thrown"}
      BY <2>3 DEF Sign, Check, Build, Allowance, Send, ApproveWait
    <3>3. \A d \in Cycles \ {c} : step'[d] = step[d]
      BY <2>3 DEF Sign, Check, Build, Allowance, Send, ApproveWait
    <3>4. \A d \in Cycles : step'[d] \in BeforeSwap => step[d] \in BeforeSwap
      BY <3>2, <3>3
    <3>5. \A d \in Cycles :
             step'[d] \in BeforeSwap \union {"record", "catch"}
               => step[d] \in BeforeSwap \union {"record", "catch"}
      BY <3>2, <3>3
    <3>6. \A d \in Cycles : step'[d] = "record" => step[d] = "record"
      BY <3>2, <3>3
    <3>7. QED
      BY <1>1, <3>1, <3>4, <3>5, <3>6
  <2>4. QED
    BY <2>1, <2>2, <2>3
<1>6. QED
  BY <1>2, <1>3, <1>4, <1>5

\* A row that is inserted for the current intent of a cycle is one more row of
\* that cycle, and of no other.
LEMMA OneMoreRow ==
  ASSUME IInv, NEW c \in Cycles, at[c] \in Wallets, row[Intent(c)] = "none",
         NEW states, "none" \notin states,
         NEW s, row' = [row EXCEPT ![Intent(c)] = s]
  PROVE  /\ s \in states =>
              Cardinality(RowsOf(c, states)') = Cardinality(RowsOf(c, states)) + 1
         /\ s \notin states => RowsOf(c, states)' = RowsOf(c, states)
         /\ \A d \in Cycles \ {c} : RowsOf(d, states)' = RowsOf(d, states)
<1> USE DEF IInv, TypeOK, RowsOf, Intents, Intent
<1>1. CASE s \in states
  <2>1. RowsOf(c, states)' = RowsOf(c, states) \union {at[c]}
    BY <1>1
  <2>2. at[c] \notin RowsOf(c, states)
    OBVIOUS
  <2>3. IsFiniteSet(RowsOf(c, states))
    <3>1. \A T \in SUBSET Wallets : IsFiniteSet(T)
      BY FS_Subset
    <3>2. QED
      BY <3>1
  <2>4. Cardinality(RowsOf(c, states)') = Cardinality(RowsOf(c, states)) + 1
    BY <2>1, <2>2, <2>3, FS_AddElement
  <2>5. QED
    BY <1>1, <2>4
<1>2. CASE s \notin states
  BY <1>2
<1>3. QED
  BY <1>1, <1>2

\* Opening and closing a run.
LEMMA RunIInv ==
  ASSUME IInv, TypeOK', NEW c \in Cycles, OpenRun(c) \/ CloseRun(c)
  PROVE  IInv'
<1> USE DEF IInv, TypeOK, chainVars, Goto
<1>1. UNCHANGED <<at, ok, bad, row, deleted, tx, batch>>
  BY DEF OpenRun, CloseRun
<1>2. RowsAgreeWithChain' /\ BatchesHashed' /\ DeletedEmpty' /\ CountsMatch'
  <2>1. RowsAgreeWithChain' /\ BatchesHashed' /\ DeletedEmpty'
    BY <1>1 DEF RowsAgreeWithChain, BatchesHashed, DeletedEmpty, Receipt
  <2>2. QED
    BY <1>1, <2>1, CountsKept
<1>3. CurrentIntents'
  <2>1. /\ step'[c] \in {"next", "thrown", "end"}
        /\ \A d \in Cycles \ {c} : step'[d] = step[d] /\ left'[d] = left[d]
    BY DEF OpenRun, CloseRun
  <2>2. QED
    BY <1>1, <2>1 DEF CurrentIntents, BeforeSwap, Intent, Receipt
<1>4. IntentsNotBegun'
  BY <1>1 DEF IntentsNotBegun, Receipt, OpenRun, CloseRun
<1>5. RunsReport'
  <2>1. CASE OpenRun(c)
    BY <1>1, <2>1 DEF OpenRun, RunsReport, Runs
  <2>2. CASE CloseRun(c)
    BY <1>1, <2>2 DEF CloseRun, RunsReport, Runs
  <2>3. QED
    BY <2>1, <2>2
<1>6. QED
  BY <1>2, <1>3, <1>4, <1>5

\* A failed or submitted row is inserted, counted, and leaves the cycle free for
\* its next intent; an insert that fails changes nothing but the step.
LEMMA InsertIInv ==
  ASSUME IInv, TypeOK', NEW c \in Cycles, PersistFailed(c) \/ Record(c)
  PROVE  IInv'
<1> USE DEF IInv, TypeOK, chainVars, Goto, Insertable
<1>1. UNCHANGED <<left, at, run, deleted, tx, batch>>
  BY DEF PersistFailed, Record
<1>2. /\ at[c] \in Wallets \ left[c]
      /\ row[Intent(c)] = "none"
      /\ step[c] \in {"refuse", "catch", "record"}
      /\ step[c] = "record" => Receipt(Intent(c)) # "none"
      /\ Intent(c) \in Intents
  BY DEF PersistFailed, Record, CurrentIntents, BeforeSwap, Intent, Intents
<1>3. CASE row' = row
  <2>1. ok' = ok /\ bad' = bad /\ step' \in {[step EXCEPT ![c] = "catch"],
                                            [step EXCEPT ![c] = "thrown"]}
    BY <1>2, <1>3 DEF PersistFailed, Record, Failed, Submitted
  <2>2. RowsAgreeWithChain' /\ BatchesHashed' /\ DeletedEmpty'
    BY <1>1, <1>3 DEF RowsAgreeWithChain, BatchesHashed, DeletedEmpty, Receipt
  <2>3. CountsMatch'
    BY <1>1, <1>3, <2>1, CountsKept
  <2>4. CurrentIntents'
    BY <1>1, <1>2, <1>3, <2>1 DEF CurrentIntents, BeforeSwap, Intent, Receipt
  <2>5. IntentsNotBegun'
    BY <1>1, <1>3, <2>1 DEF IntentsNotBegun, Receipt
  <2>6. RunsReport'
    BY <1>1, <1>2, <2>1 DEF RunsReport
  <2>7. QED
    BY <2>2, <2>3, <2>4, <2>5, <2>6
<1>4. CASE row' # row
  <2>1. PICK s \in {"refused", "submitted"} :
            /\ row' = [row EXCEPT ![Intent(c)] = s]
            /\ step' = [step EXCEPT ![c] = "next"]
            /\ ~deleted
            /\ s = "refused" => ok' = ok /\ bad' = [bad EXCEPT ![c] = @ + 1]
            /\ s = "submitted" => /\ bad' = bad /\ ok' = [ok EXCEPT ![c] = @ + 1]
                                  /\ step[c] = "record"
    BY <1>4 DEF PersistFailed, Record, Failed, Submitted
  <2>2. RowsAgreeWithChain' /\ BatchesHashed' /\ DeletedEmpty'
    BY <1>1, <1>2, <2>1 DEF RowsAgreeWithChain, BatchesHashed, DeletedEmpty, Receipt, Hashed
  <2>3. CountsMatch'
    <3>1. /\ s = "submitted" =>
               Cardinality(RowsOf(c, Hashed)') = Cardinality(RowsOf(c, Hashed)) + 1
          /\ s = "refused" => RowsOf(c, Hashed)' = RowsOf(c, Hashed)
          /\ \A d \in Cycles \ {c} : RowsOf(d, Hashed)' = RowsOf(d, Hashed)
      BY <1>2, <2>1, OneMoreRow DEF Hashed
    <3>2. /\ s = "refused" =>
               Cardinality(RowsOf(c, {"refused"})') = Cardinality(RowsOf(c, {"refused"})) + 1
          /\ s = "submitted" => RowsOf(c, {"refused"})' = RowsOf(c, {"refused"})
          /\ \A d \in Cycles \ {c} : RowsOf(d, {"refused"})' = RowsOf(d, {"refused"})
      BY <1>2, <2>1, OneMoreRow
    <3>3. QED
      BY <1>1, <2>1, <3>1, <3>2 DEF CountsMatch
  <2>4. CurrentIntents'
    <3>1. step'[c] = "next" /\ \A d \in Cycles \ {c} : step'[d] = step[d]
      BY <2>1
    <3>2. \A d \in Cycles \ {c}, w \in Wallets : row'[<<d, w>>] = row[<<d, w>>]
      BY <2>1 DEF Intents, Intent
    <3>3. ASSUME NEW d \in Cycles \ {c},
                 step[d] \in BeforeSwap \union {"record", "catch"}
          PROVE  row'[<<d, at[d]>>] = row[<<d, at[d]>>]
      BY <3>2, <3>3 DEF CurrentIntents
    <3>4. QED
      BY <1>1, <3>1, <3>3 DEF CurrentIntents, BeforeSwap, Intent, Receipt
  <2>5. IntentsNotBegun'
    <3>1. \A d \in Cycles, w \in Wallets :
             d # c \/ w # at[c] => row'[<<d, w>>] = row[<<d, w>>]
      BY <2>1 DEF Intents, Intent
    <3>2. ASSUME NEW d \in Cycles, NEW w \in Wallets, step'[d] = "open" \/ w \in left'[d]
          PROVE  row'[<<d, w>>] = "none" /\ Receipt(<<d, w>>)' = "none"
      <4>1. step[d] = "open" \/ w \in left[d]
        BY <1>1, <2>1, <3>2
      <4>2. d # c \/ w # at[c]
        BY <1>1, <1>2, <2>1, <3>2
      <4>3. row[<<d, w>>] = "none" /\ Receipt(<<d, w>>) = "none"
        BY <4>1 DEF IntentsNotBegun
      <4>4. QED
        BY <1>1, <3>1, <4>2, <4>3 DEF Receipt
    <3>3. QED
      BY <3>2 DEF IntentsNotBegun
  <2>6. RunsReport'
    BY <1>1, <1>2, <2>1 DEF RunsReport
  <2>7. QED
    BY <2>2, <2>3, <2>4, <2>5, <2>6
<1>5. QED
  BY <1>3, <1>4

\* What a broadcast does to the swaps: it may start the cycle's own, and it may
\* replace one that is pending.
LEMMA BroadcastSwaps ==
  ASSUME IInv, NEW c \in Cycles, Broadcast(c), NEW i \in Intents
  PROVE  \/ Receipt(i)' = Receipt(i)
         \/ Receipt(i) = "pending" /\ Receipt(i)' = "replaced"
         \/ /\ i = Intent(c) /\ step[c] = "broadcast"
            /\ Receipt(i)' = "pending" /\ step'[c] \in {"record", "catch"}
<1> USE DEF IInv, TypeOK, Goto, Receipt
<1>0. <<i, "swap">> \in TxIds
  BY DEF TxIds, Kinds
<1>1. ASSUME NEW kind \in Kinds, Accepted(c, kind)
      PROVE  \/ Receipt(i)' = Receipt(i)
             \/ Receipt(i) = "pending" /\ Receipt(i)' = "replaced"
             \/ kind = "swap" /\ i = Intent(c) /\ Receipt(i)' = "pending"
  BY <1>0, <1>1 DEF Accepted, Rivals
<1>2. CASE step[c] = "approveSend" /\ Accepted(c, "approve")
  BY <1>1, <1>2 DEF Kinds
<1>3. CASE step[c] = "broadcast" /\ Accepted(c, "swap") /\ step'[c] \in {"record", "catch"}
  BY <1>1, <1>3 DEF Kinds
<1>4. CASE UNCHANGED tx
  BY <1>4
<1>5. QED
  BY <1>2, <1>3, <1>4 DEF Broadcast

\* A broadcast records nothing; the cycle that made it has yet to.
LEMMA BroadcastIInv ==
  ASSUME IInv, TypeOK', NEW c \in Cycles, Broadcast(c)
  PROVE  IInv'
<1> USE DEF IInv, TypeOK, Goto, dbVars
<1>1. UNCHANGED <<left, at, ok, bad, run, row, deleted, batch>>
  BY DEF Broadcast
<1>2. /\ at[c] \in Wallets \ left[c]
      /\ Intent(c) \in Intents
      /\ row[Intent(c)] = "none"
      /\ Receipt(Intent(c)) = "none"
      /\ step[c] \in {"approveSend", "broadcast"}
  BY DEF Broadcast, CurrentIntents, BeforeSwap, Intent, Intents
<1>3. /\ step'[c] \in {"approveWait", "record", "catch"}
      /\ step'[c] = "record" => step[c] = "broadcast" /\ Accepted(c, "swap")
      /\ \A d \in Cycles \ {c} : step'[d] = step[d]
  BY DEF Broadcast
<1>4. BatchesHashed' /\ DeletedEmpty' /\ CountsMatch' /\ RunsReport'
  <2>1. BatchesHashed' /\ DeletedEmpty'
    BY <1>1 DEF BatchesHashed, DeletedEmpty
  <2>2. RunsReport'
    BY <1>1, <1>2, <1>3 DEF RunsReport
  <2>3. QED
    BY <1>1, <2>1, <2>2, CountsKept
<1>5. RowsAgreeWithChain'
  BY <1>1, <1>2, BroadcastSwaps DEF RowsAgreeWithChain
<1>6. IntentsNotBegun'
  <2>1. ASSUME NEW d \in Cycles, NEW w \in Wallets, step'[d] = "open" \/ w \in left'[d]
        PROVE  row'[<<d, w>>] = "none" /\ Receipt(<<d, w>>)' = "none"
    <3>1. step[d] = "open" \/ w \in left[d]
      BY <1>1, <1>3, <2>1
    <3>2. <<d, w>> # Intent(c)
      BY <1>1, <1>2, <1>3, <2>1 DEF Intent
    <3>3. row[<<d, w>>] = "none" /\ Receipt(<<d, w>>) = "none"
      BY <3>1 DEF IntentsNotBegun
    <3>4. <<d, w>> \in Intents
      BY DEF Intents
    <3>5. QED
      BY <1>1, <3>2, <3>3, <3>4, BroadcastSwaps
  <2>2. QED
    BY <2>1 DEF IntentsNotBegun
<1>7. CurrentIntents'
  <2>1. ASSUME NEW d \in Cycles, step'[d] \in BeforeSwap \union {"record", "catch"}
        PROVE  /\ at'[d] \in Wallets \ left'[d]
               /\ row'[Intent(d)'] = "none"
               /\ step'[d] \in BeforeSwap => Receipt(Intent(d))' = "none"
               /\ step'[d] = "record" => Receipt(Intent(d))' # "none"
    <3>1. Intent(d)' = Intent(d)
      BY <1>1 DEF Intent
    <3>2. CASE d = c
      <4>1. step'[c] = "record" => Receipt(Intent(c))' = "pending"
        <5>1. <<Intent(c), "swap">> \in TxIds
          BY <1>2 DEF TxIds, Kinds
        <5>2. QED
          BY <1>3, <3>1, <3>2, <5>1 DEF Accepted, Receipt
      <4>2. step'[c] = "approveWait" => Receipt(Intent(c))' = "none"
        BY <1>2, <3>1, <3>2, BroadcastSwaps DEF Receipt
      <4>3. QED
        BY <1>1, <1>2, <1>3, <3>1, <3>2, <4>1, <4>2 DEF BeforeSwap, Receipt
    <3>3. CASE d # c
      <4>1. /\ at[d] \in Wallets \ left[d]
            /\ row[Intent(d)] = "none"
            /\ step[d] \in BeforeSwap => Receipt(Intent(d)) = "none"
            /\ step[d] = "record" => Receipt(Intent(d)) # "none"
        BY <1>3, <2>1, <3>3 DEF CurrentIntents
      <4>2. Intent(d) \in Intents /\ Intent(d) # Intent(c)
        BY <3>3, <4>1 DEF Intent, Intents
      <4>3. \/ Receipt(Intent(d))' = Receipt(Intent(d))
            \/ Receipt(Intent(d)) = "pending" /\ Receipt(Intent(d))' = "replaced"
        BY <3>1, <4>2, BroadcastSwaps DEF Receipt
      <4>4. QED
        BY <1>1, <1>3, <3>1, <3>3, <4>1, <4>3
    <3>4. QED
      BY <3>2, <3>3
  <2>2. QED
    BY <2>1 DEF CurrentIntents
<1>8. QED
  BY <1>4, <1>5, <1>6, <1>7

\* Mining decides pending transactions only.
LEMMA MineIInv ==
  ASSUME IInv, TypeOK', NEW t \in TxIds, Mine(t)
  PROVE  IInv'
<1> USE DEF IInv, TypeOK, cycleVars, dbVars
<1>1. UNCHANGED <<step, left, at, ok, bad, run, row, deleted, batch>>
  BY DEF Mine
<1>2. ASSUME NEW i \in Intents
      PROVE  \/ tx'[<<i, "swap">>].st = Receipt(i)
             \/ Receipt(i) = "pending" /\ tx'[<<i, "swap">>].st \in {"success", "revert"}
  <2>1. <<i, "swap">> \in TxIds
    BY DEF TxIds, Kinds
  <2>2. PICK outcome \in {"success", "revert"} : tx' = [tx EXCEPT ![t].st = outcome]
    BY DEF Mine
  <2>3. tx[t].st = "pending"
    BY DEF Mine
  <2>4. QED
    BY <2>1, <2>2, <2>3 DEF Receipt
<1>3. BatchesHashed' /\ DeletedEmpty' /\ RunsReport' /\ CountsMatch'
  <2>1. BatchesHashed' /\ DeletedEmpty' /\ RunsReport'
    BY <1>1 DEF BatchesHashed, DeletedEmpty, RunsReport
  <2>2. QED
    BY <1>1, <2>1, CountsKept
<1>4. RowsAgreeWithChain'
  BY <1>1, <1>2 DEF RowsAgreeWithChain, Receipt
<1>5. IntentsNotBegun'
  BY <1>1, <1>2 DEF IntentsNotBegun, Receipt, Intents
<1>6. CurrentIntents'
  <2>1. \A c \in Cycles : at[c] \in Wallets => Intent(c) \in Intents
    BY DEF Intent, Intents
  <2>2. \A c \in Cycles : Intent(c)' = Intent(c)
    BY <1>1 DEF Intent
  <2>3. ASSUME NEW c \in Cycles, step[c] \in BeforeSwap \union {"record", "catch"}
        PROVE  /\ Receipt(Intent(c)) = "none" => Receipt(Intent(c))' = "none"
               /\ Receipt(Intent(c)) # "none" => Receipt(Intent(c))' # "none"
    <3>1. Intent(c) \in Intents
      BY <2>1, <2>3 DEF CurrentIntents
    <3>2. QED
      BY <1>2, <2>2, <3>1 DEF Receipt
  <2>4. QED
    BY <1>1, <2>2, <2>3 DEF CurrentIntents, BeforeSwap
<1>7. QED
  BY <1>3, <1>4, <1>5, <1>6

\* Deleting the bot takes its runs and rows with it.
LEMMA DeleteIInv ==
  ASSUME IInv, TypeOK', DeleteBot
  PROVE  IInv'
<1> USE DEF IInv, TypeOK, DeleteBot, cycleVars, chainVars
<1>1. UNCHANGED <<step, left, at, ok, bad, tx, batch>> /\ \A i \in Intents : row'[i] = "none"
  OBVIOUS
<1>2. RowsAgreeWithChain' /\ BatchesHashed' /\ DeletedEmpty' /\ RunsReport' /\ CountsMatch'
  BY DEF RowsAgreeWithChain, BatchesHashed, DeletedEmpty, RunsReport, CountsMatch, NoRun
<1>3. IntentsNotBegun'
  BY <1>1 DEF IntentsNotBegun, Receipt, Intents
<1>4. CurrentIntents'
  <2>1. \A c \in Cycles : at[c] \in Wallets => Intent(c) \in Intents
    BY DEF Intent, Intents
  <2>2. \A c \in Cycles : Intent(c)' = Intent(c)
    BY <1>1 DEF Intent
  <2>3. QED
    BY <1>1, <2>1, <2>2 DEF CurrentIntents, Receipt
<1>5. QED
  BY <1>2, <1>3, <1>4

\* The confirmation worker settles rows that have a hash as the chain says, and
\* they keep it.
LEMMA PollIInv ==
  ASSUME IInv, TypeOK', NEW p \in Polls, PollStart(p) \/ PollRow(p)
  PROVE  IInv'
<1> USE DEF IInv, TypeOK, cycleVars, chainVars
<1>1. UNCHANGED <<step, left, at, ok, bad, run, deleted, tx>>
  BY DEF PollStart, PollRow, dbVars
<1>2. ASSUME NEW i \in Intents
      PROVE  \/ row'[i] = row[i]
             \/ /\ row[i] \in Hashed /\ ~deleted
                /\ \/ row'[i] = "confirmed" /\ Receipt(i) = "success"
                   \/ row'[i] = "reverted" /\ Receipt(i) = "revert"
  BY DEF PollStart, PollRow, dbVars, BatchesHashed, DeletedEmpty
<1>3. RowsAgreeWithChain'
  BY <1>1, <1>2 DEF RowsAgreeWithChain, Receipt
<1>4. DeletedEmpty' /\ RunsReport'
  BY <1>1, <1>2 DEF DeletedEmpty, RunsReport
<1>5. BatchesHashed'
  <2>1. \A i \in Intents : row[i] \in Hashed => row'[i] \in Hashed
    BY <1>2 DEF Hashed
  <2>2. CASE PollStart(p)
    BY <1>1, <2>1, <2>2 DEF PollStart, BatchesHashed, Waiting, Hashed
  <2>3. CASE PollRow(p)
    BY <1>1, <2>1, <2>3 DEF PollRow, BatchesHashed
  <2>4. QED
    BY <2>2, <2>3
<1>6. CountsMatch'
  <2>1. \A c \in Cycles : /\ RowsOf(c, Hashed)' = RowsOf(c, Hashed)
                         /\ RowsOf(c, {"refused"})' = RowsOf(c, {"refused"})
    BY <1>2 DEF RowsOf, Hashed, Intents
  <2>2. QED
    BY <1>1, <2>1 DEF CountsMatch
<1>7. \A i \in Intents : row[i] = "none" => row'[i] = "none"
  BY <1>2 DEF Hashed
<1>8. IntentsNotBegun'
  BY <1>1, <1>7 DEF IntentsNotBegun, Receipt, Intents
<1>9. CurrentIntents'
  <2>1. \A c \in Cycles : at[c] \in Wallets => Intent(c) \in Intents
    BY DEF Intent, Intents
  <2>2. \A c \in Cycles : Intent(c)' = Intent(c)
    BY <1>1 DEF Intent
  <2>3. QED
    BY <1>1, <1>7, <2>1, <2>2 DEF CurrentIntents, Receipt
<1>10. QED
  BY <1>3, <1>4, <1>5, <1>6, <1>8, <1>9

\* No step of the cycles, the chain, the confirmation worker or a deletion, and
\* no fault, leaves the inductive invariant.
LEMMA NextIInv == IInv /\ [Next]_vars => IInv'
<1> SUFFICES ASSUME IInv, [Next]_vars PROVE IInv'
  OBVIOUS
<1>1. TypeOK'
  BY TypeStep DEF IInv
<1>2. CASE \E c \in Cycles : CycleStep(c) \/ Crash(c)
  BY <1>1, <1>2, LocalIInv, RunIInv, InsertIInv, BroadcastIInv DEF CycleStep
<1>3. CASE \E t \in TxIds : Mine(t)
  BY <1>1, <1>3, MineIInv
<1>4. CASE \E p \in Polls : PollStart(p) \/ PollRow(p)
  BY <1>1, <1>4, PollIInv
<1>5. CASE DeleteBot
  BY <1>1, <1>5, DeleteIInv
<1>6. CASE UNCHANGED vars
  <2>1. CountsMatch'
    BY <1>6, CountsKept DEF vars, IInv
  <2>2. QED
    BY <1>1, <1>6, <2>1
    DEF vars, IInv, RowsAgreeWithChain, CurrentIntents, IntentsNotBegun, BatchesHashed,
        DeletedEmpty, RunsReport, Receipt, Intent
<1>7. QED
  BY <1>2, <1>3, <1>4, <1>5, <1>6 DEF Next

\* The inductive invariant holds in every state.
THEOREM Invariance == SafeSpec => []IInv
BY InitIInv, NextIInv, PTL DEF SafeSpec

\* The table of transactions never says more than the chain, whatever fails and
\* however cycles and rounds of the confirmation worker overlap.
THEOREM TableAgrees == SafeSpec => []RowsAgreeWithChain
<1>1. IInv => RowsAgreeWithChain
  BY DEF IInv
<1>2. QED
  BY <1>1, Invariance, PTL

\* A finished run reports the numbers of its submitted and failed rows, for any
\* number of intents and whichever inserts fail.
THEOREM RunsCountRows == SafeSpec => []RunCountsItsRows
<1>1. IInv => RunCountsItsRows
  BY DEF IInv, RunsReport, CountsMatch, RunCountsItsRows
<1>2. QED
  BY <1>1, Invariance, PTL

\* A settled row keeps its verdict: no late insert, no overlapping round and no
\* stale batch writes over it.
THEOREM Settled == SafeSpec => SettledRowsStay
<1> DEFINE Kept == \A i \in Intents : row[i] \in {"refused", "confirmed", "reverted"}
                     => row'[i] = row[i] \/ deleted'
<1>1. IInv /\ [Next]_vars => [Kept]_row
  <2> SUFFICES ASSUME IInv, Next PROVE Kept \/ UNCHANGED row
    BY DEF vars
  <2> USE DEF IInv, TypeOK
  <2>1. ASSUME NEW c \in Cycles, PersistFailed(c) \/ Record(c) PROVE Kept
    <3>1. row[Intent(c)] = "none"
      BY <2>1 DEF PersistFailed, Record, CurrentIntents, BeforeSwap
    <3>2. \A i \in Intents : i # Intent(c) => row'[i] = row[i]
      BY <2>1 DEF PersistFailed, Record
    <3>3. QED
      BY <3>1, <3>2
  <2>2. ASSUME NEW p \in Polls, PollRow(p) PROVE Kept
    <3>1. PICK i \in batch[p] :
            row' = [row EXCEPT ![i] = IF @ = "none" THEN @
                                      ELSE IF Receipt(i) = "success" THEN "confirmed"
                                      ELSE IF Receipt(i) = "revert" THEN "reverted"
                                      ELSE @]
      BY <2>2 DEF PollRow
    <3>2. row[i] \in Hashed \/ row[i] = "none"
      BY DEF BatchesHashed, DeletedEmpty
    <3>3. QED
      BY <3>1, <3>2 DEF RowsAgreeWithChain, Hashed
  <2>3. CASE DeleteBot
    BY <2>3 DEF DeleteBot
  <2>4. ASSUME NEW c \in Cycles,
               \/ OpenRun(c) \/ NextIntent(c) \/ CloseRun(c) \/ Sign(c) \/ Check(c)
               \/ Build(c) \/ Allowance(c) \/ Send(c) \/ Broadcast(c) \/ ApproveWait(c)
               \/ Crash(c)
        PROVE  UNCHANGED row
    BY <2>4 DEF OpenRun, NextIntent, CloseRun, Sign, Check, Build, Allowance, Send,
                Broadcast, ApproveWait, Crash, dbVars
  <2>5. ASSUME NEW t \in TxIds, Mine(t) PROVE UNCHANGED row
    BY <2>5 DEF Mine, dbVars
  <2>6. ASSUME NEW p \in Polls, PollStart(p) PROVE UNCHANGED row
    BY <2>6 DEF PollStart, dbVars
  <2>7. QED
    BY <2>1, <2>2, <2>3, <2>4, <2>5, <2>6 DEF Next, CycleStep
<1>2. QED
  BY <1>1, Invariance, PTL DEF SafeSpec, SettledRowsStay

-----------------------------------------------------------------------------
(* What the design document promises holds when nothing fails and no bot is *)
(* deleted in mid-cycle: those are its only exceptions.                     *)

\* Without faults a cycle reaches persistFailed only when it has sent no swap.
NoSwapOnFailure ==
  \A c \in Cycles : step[c] \in {"refuse", "catch"} => Receipt(Intent(c)) = "none"

LEMMA SwapRecordedStep ==
  ASSUME Faults = {}, ~Deletable, IInv, EverySwapRecorded, NoSwapOnFailure, [Next]_vars
  PROVE  EverySwapRecorded' /\ NoSwapOnFailure'
<1> USE DEF IInv, TypeOK, Goto
<1> DEFINE Goal == EverySwapRecorded' /\ NoSwapOnFailure'
<1>1. ~deleted
  BY DEF DeletedEmpty
<1>2. \A c \in Cycles, w \in Wallets : <<c, w>> \in Intents
  BY DEF Intents
<1>3. ASSUME NEW c \in Cycles,
             \/ OpenRun(c) \/ NextIntent(c) \/ CloseRun(c) \/ Sign(c) \/ Check(c)
             \/ Build(c) \/ Allowance(c) \/ Send(c) \/ ApproveWait(c)
      PROVE  Goal
  <2>1. /\ UNCHANGED <<row, tx>>
        /\ step[c] # "record" /\ step'[c] # "record"
        /\ \A d \in Cycles \ {c} : step'[d] = step[d] /\ at'[d] = at[d]
        /\ step'[c] \in {"refuse", "catch"} => step[c] \in BeforeSwap /\ at'[c] = at[c]
    BY <1>3 DEF OpenRun, NextIntent, CloseRun, Sign, Check, Build, Allowance, Send,
                ApproveWait, chainVars, dbVars, BeforeSwap
  <2>2. EverySwapRecorded'
    BY <2>1 DEF EverySwapRecorded, Receipt
  <2>3. step'[c] \in {"refuse", "catch"} => Receipt(Intent(c))' = "none"
    BY <2>1 DEF CurrentIntents, Receipt, Intent
  <2>4. \A d \in Cycles \ {c} :
           step'[d] \in {"refuse", "catch"} => Receipt(Intent(d))' = "none"
    BY <2>1 DEF NoSwapOnFailure, Receipt, Intent
  <2>5. QED
    BY <2>2, <2>3, <2>4 DEF NoSwapOnFailure
<1>4. ASSUME NEW c \in Cycles, PersistFailed(c) \/ Record(c) PROVE Goal
  <2>1. PICK s \in {"refused", "submitted"} :
          /\ row' = [row EXCEPT ![Intent(c)] = s]
          /\ step' = [step EXCEPT ![c] = "next"]
          /\ s = "refused" => step[c] \in {"refuse", "catch"}
          /\ UNCHANGED <<at, tx>>
    BY <1>1, <1>4 DEF PersistFailed, Record, Insertable, Failed, Submitted, chainVars
  <2>2. Intent(c) \in Intents
    BY <1>2, <1>4 DEF PersistFailed, Record, CurrentIntents, BeforeSwap, Intent
  <2>3. EverySwapRecorded'
    <3>1. ASSUME NEW d \in Cycles, NEW w \in Wallets, Receipt(<<d, w>>)' # "none"
          PROVE  row'[<<d, w>>] \in Hashed \/ (step'[d] = "record" /\ at'[d] = w)
      <4>1. Receipt(<<d, w>>) # "none"
        BY <2>1, <3>1 DEF Receipt
      <4>2. CASE <<d, w>> = Intent(c)
        <5>1. s = "submitted"
          BY <2>1, <4>1, <4>2 DEF NoSwapOnFailure
        <5>2. QED
          BY <2>1, <2>2, <4>2, <5>1 DEF Hashed
      <4>3. CASE <<d, w>> # Intent(c)
        <5>1. row'[<<d, w>>] = row[<<d, w>>]
          BY <1>2, <2>1, <4>3
        <5>2. row[<<d, w>>] \in Hashed \/ (step[d] = "record" /\ at[d] = w)
          BY <4>1 DEF EverySwapRecorded
        <5>3. d # c \/ at[d] # w
          BY <4>3 DEF Intent
        <5>4. QED
          BY <2>1, <5>1, <5>2, <5>3
      <4>4. QED
        BY <4>2, <4>3
    <3>2. QED
      BY <3>1 DEF EverySwapRecorded
  <2>4. NoSwapOnFailure'
    BY <2>1 DEF NoSwapOnFailure, Receipt, Intent
  <2>5. QED
    BY <2>3, <2>4
<1>5. ASSUME NEW c \in Cycles, Broadcast(c) PROVE Goal
  <2>1. UNCHANGED <<at, row>> /\ \A d \in Cycles \ {c} : step'[d] = step[d]
    BY <1>5 DEF Broadcast, dbVars
  <2>2. /\ at[c] \in Wallets
        /\ Intent(c) \in Intents
        /\ Receipt(Intent(c)) = "none"
        /\ step[c] \in {"approveSend", "broadcast"}
    BY <1>2, <1>5 DEF Broadcast, CurrentIntents, BeforeSwap, Intent
  <2>3. \/ step'[c] = "approveWait"
        \/ step'[c] = "record"
        \/ step'[c] = "catch" /\ tx' = tx
    BY <1>5 DEF Broadcast
  <2>4. EverySwapRecorded'
    <3>1. ASSUME NEW d \in Cycles, NEW w \in Wallets, Receipt(<<d, w>>)' # "none"
          PROVE  row'[<<d, w>>] \in Hashed \/ (step'[d] = "record" /\ at'[d] = w)
      <4>1. CASE Receipt(<<d, w>>) # "none"
        <5>1. row[<<d, w>>] \in Hashed \/ (step[d] = "record" /\ at[d] = w)
          BY <4>1 DEF EverySwapRecorded
        <5>2. QED
          BY <2>1, <2>2, <5>1
      <4>2. CASE Receipt(<<d, w>>) = "none"
        <5>1. <<d, w>> = Intent(c) /\ step'[c] \in {"record", "catch"}
          BY <1>2, <1>5, <3>1, <4>2, BroadcastSwaps
        <5>2. step'[c] = "record"
          BY <2>3, <3>1, <4>2, <5>1 DEF Receipt
        <5>3. QED
          BY <2>1, <5>1, <5>2 DEF Intent
      <4>3. QED
        BY <4>1, <4>2
    <3>2. QED
      BY <3>1 DEF EverySwapRecorded
  <2>5. NoSwapOnFailure'
    <3>1. ASSUME NEW d \in Cycles, step'[d] \in {"refuse", "catch"}
          PROVE  Receipt(Intent(d))' = "none"
      <4>1. Intent(d)' = Intent(d)
        BY <2>1 DEF Intent
      <4>2. CASE d = c
        BY <2>2, <2>3, <3>1, <4>1, <4>2 DEF Receipt
      <4>3. CASE d # c
        <5>1. Receipt(Intent(d)) = "none" /\ Intent(d) \in Intents /\ Intent(d) # Intent(c)
          BY <1>2, <2>1, <3>1, <4>3 DEF NoSwapOnFailure, CurrentIntents, BeforeSwap, Intent
        <5>2. QED
          BY <1>5, <4>1, <5>1, BroadcastSwaps DEF Receipt
      <4>4. QED
        BY <4>2, <4>3
    <3>2. QED
      BY <3>1 DEF NoSwapOnFailure
  <2>6. QED
    BY <2>4, <2>5
<1>6. ASSUME UNCHANGED <<step, at>>,
             \A i \in Intents : Receipt(i) = "none" => tx'[<<i, "swap">>].st = "none",
             \A i \in Intents : row[i] \in Hashed => row'[i] \in Hashed
      PROVE  Goal
  <2>1. EverySwapRecorded'
    BY <1>2, <1>6 DEF EverySwapRecorded, Receipt
  <2>2. \A c \in Cycles : step[c] \in {"refuse", "catch"} => Intent(c) \in Intents
    BY <1>2 DEF CurrentIntents, BeforeSwap, Intent
  <2>3. \A c \in Cycles : Intent(c)' = Intent(c)
    BY <1>6 DEF Intent
  <2>4. NoSwapOnFailure'
    BY <1>6, <2>2, <2>3 DEF NoSwapOnFailure, Receipt
  <2>5. QED
    BY <2>1, <2>4
<1>7. ASSUME NEW t \in TxIds, Mine(t) PROVE Goal
  <2>1. UNCHANGED <<step, at, row>>
    BY <1>7 DEF Mine, cycleVars, dbVars
  <2>2. \A i \in Intents : Receipt(i) = "none" => tx'[<<i, "swap">>].st = "none"
    <3>1. \A i \in Intents : <<i, "swap">> \in TxIds
      BY DEF TxIds, Kinds
    <3>2. QED
      BY <1>7, <3>1 DEF Mine, Receipt
  <2>3. QED
    BY <1>6, <2>1, <2>2
<1>8. ASSUME NEW p \in Polls, PollStart(p) \/ PollRow(p) PROVE Goal
  <2>1. UNCHANGED <<step, at, tx>>
    BY <1>8 DEF PollStart, PollRow, cycleVars, chainVars
  <2>2. \A i \in Intents : row[i] \in Hashed => row'[i] \in Hashed
    BY <1>8 DEF PollStart, PollRow, dbVars, Hashed
  <2>3. QED
    BY <1>6, <2>1, <2>2 DEF Receipt
<1>9. CASE UNCHANGED vars
  BY <1>6, <1>9 DEF vars, Receipt
<1>10. QED
  BY <1>3, <1>4, <1>5, <1>7, <1>8, <1>9 DEF Next, CycleStep, DeleteBot, Crash

\* Every swap that was broadcast gets its row, for any number of cycles sharing
\* wallets and nonces: a failed insert, a lost answer, a crash and a deletion in
\* mid-cycle are the only ways to lose one.
THEOREM SwapsRecorded ==
  ASSUME Faults = {}, ~Deletable
  PROVE  SafeSpec => []EverySwapRecorded
<1>1. Init => EverySwapRecorded /\ NoSwapOnFailure
  BY DEF Init, Free, EverySwapRecorded, NoSwapOnFailure, Receipt, TxIds, Kinds, Intents
<1>2. IInv /\ EverySwapRecorded /\ NoSwapOnFailure /\ [Next]_vars
        => EverySwapRecorded' /\ NoSwapOnFailure'
  BY SwapRecordedStep
<1>3. QED
  BY <1>1, <1>2, Invariance, PTL DEF SafeSpec

-----------------------------------------------------------------------------
(* The cycles, the chain and the confirmation worker implement the ledger:  *)
(* the swaps and rows of Execution are those of SwapLedger.                 *)

Misreports == Faults \intersect {"db", "rpc"} # {}

\* A swap whose cycle is in its catch block was lost to a failed query or a lost
\* answer, unless the deleted bot has no rows any more.
CatchesExplained ==
  \A c \in Cycles : step[c] = "catch" =>
    Receipt(Intent(c)) = "none" \/ deleted \/ Misreports

LEMMA CatchStep == IInv /\ CatchesExplained /\ [Next]_vars => CatchesExplained'
<1> SUFFICES ASSUME IInv, CatchesExplained, [Next]_vars, ~Misreports,
                    NEW d \in Cycles, step'[d] = "catch"
             PROVE  Receipt(Intent(d))' = "none" \/ deleted'
  BY DEF CatchesExplained, Misreports
<1> USE DEF IInv, TypeOK, Goto
<1>1. ASSUME NEW c \in Cycles,
             \/ OpenRun(c) \/ NextIntent(c) \/ CloseRun(c) \/ Sign(c) \/ Check(c)
             \/ Build(c) \/ PersistFailed(c) \/ Allowance(c) \/ Send(c) \/ ApproveWait(c)
             \/ Record(c) \/ Crash(c)
      PROVE  Receipt(Intent(d))' = "none" \/ deleted'
  <2>1. /\ UNCHANGED <<tx, deleted>>
        /\ d # c => step'[d] = step[d] /\ at'[d] = at[d]
    BY <1>1 DEF OpenRun, NextIntent, CloseRun, Sign, Check, Build, PersistFailed, Failed,
                Allowance, Send, ApproveWait, Record, Submitted, Crash, chainVars, dbVars
  <2>2. CASE d # c
    BY <2>1, <2>2 DEF CatchesExplained, Receipt, Intent
  <2>3. CASE d = c
    <3>1. at'[c] = at[c] /\ (step[c] \in BeforeSwap \/ deleted)
      BY <1>1, <2>3 DEF OpenRun, NextIntent, CloseRun, Sign, Check, Build, PersistFailed,
           Failed, Allowance, Send, ApproveWait, Record, Submitted, Crash, Insertable,
           Misreports, BeforeSwap
    <3>2. QED
      BY <2>1, <2>3, <3>1 DEF CurrentIntents, Receipt, Intent
  <2>4. QED
    BY <2>2, <2>3
<1>2. ASSUME NEW c \in Cycles, Broadcast(c)
      PROVE  Receipt(Intent(d))' = "none" \/ deleted'
  <2>1. UNCHANGED <<at, deleted>> /\ (d # c => step'[d] = step[d])
    BY <1>2 DEF Broadcast, dbVars
  <2>2. CASE d = c
    <3>1. UNCHANGED tx /\ step[c] \in BeforeSwap
      BY <1>2, <2>2 DEF Broadcast, Misreports, BeforeSwap
    <3>2. QED
      BY <2>1, <2>2, <3>1 DEF CurrentIntents, Receipt, Intent
  <2>3. CASE d # c
    <3>1. Intent(d) \in Intents /\ Intent(d) # Intent(c)
      BY <2>1, <2>3 DEF CurrentIntents, Intent, Intents
    <3>2. Receipt(Intent(d)) = "none" \/ deleted
      BY <2>1, <2>3 DEF CatchesExplained
    <3>3. QED
      BY <1>2, <2>1, <3>1, <3>2, BroadcastSwaps DEF Receipt, Intent
  <2>4. QED
    BY <2>2, <2>3
<1>3. ASSUME NEW t \in TxIds, Mine(t)
      PROVE  Receipt(Intent(d))' = "none" \/ deleted'
  <2>1. UNCHANGED <<step, at, deleted>>
    BY <1>3 DEF Mine, cycleVars, dbVars
  <2>2. Receipt(Intent(d)) = "none" \/ deleted
    BY <2>1 DEF CatchesExplained
  <2>3. Intent(d) \in Intents
    BY <2>1 DEF CurrentIntents, Intent, Intents
  <2>4. QED
    BY <1>3, <2>1, <2>2, <2>3 DEF Mine, Receipt, Intent, TxIds, Kinds
<1>4. CASE (\E p \in Polls : PollStart(p) \/ PollRow(p)) \/ DeleteBot \/ UNCHANGED vars
  <2>1. UNCHANGED <<step, at, tx>> /\ (deleted => deleted')
    BY <1>4 DEF PollStart, PollRow, DeleteBot, vars, cycleVars, chainVars, dbVars
  <2>2. QED
    BY <2>1 DEF CatchesExplained, Receipt, Intent
<1>5. QED
  BY <1>1, <1>2, <1>3, <1>4 DEF Next, CycleStep

\* Nothing the ledger sees: neither a transaction nor a row, nor the bot.
LEMMA LedgerStutter ==
  ASSUME UNCHANGED <<tx, row, deleted>>
  PROVE  UNCHANGED Ledger!vars
BY DEF Ledger!vars, Receipt

LEMMA IntentsAlike == Ledger!Intents = Intents
BY DEF Ledger!Intents, Intents

\* An insert refuses or records the cycle's intent.
LEMMA InsertLedger ==
  ASSUME IInv, CatchesExplained, NEW c \in Cycles, PersistFailed(c) \/ Record(c)
  PROVE  Ledger!Next \/ UNCHANGED Ledger!vars
<1> USE DEF IInv, TypeOK
<1>1. UNCHANGED <<tx, deleted>> /\ step[c] \in {"refuse", "catch", "record"}
  BY DEF PersistFailed, Record, chainVars
<1>2. /\ Intent(c) \in Intents
      /\ row[Intent(c)] = "none"
      /\ step[c] = "refuse" => Receipt(Intent(c)) = "none"
      /\ step[c] = "record" => Receipt(Intent(c)) # "none"
  BY <1>1 DEF CurrentIntents, BeforeSwap, Intent, Intents
<1>3. CASE UNCHANGED row
  BY <1>1, <1>3, LedgerStutter
<1>4. CASE /\ step[c] \in {"refuse", "catch"} /\ ~deleted
           /\ row' = [row EXCEPT ![Intent(c)] = "refused"]
  <2>1. Receipt(Intent(c)) = "none" \/ Misreports
    BY <1>2, <1>4 DEF CatchesExplained
  <2>2. Ledger!Refuse(Intent(c))
    BY <1>1, <1>2, <1>4, <2>1
    DEF Ledger!Refuse, Ledger!Write, Misreports, Receipt
  <2>3. QED
    BY <1>2, <2>2, IntentsAlike DEF Ledger!Next
<1>5. CASE /\ step[c] = "record" /\ ~deleted
           /\ row' = [row EXCEPT ![Intent(c)] = "submitted"]
  <2>1. Ledger!Record(Intent(c))
    BY <1>1, <1>2, <1>5 DEF Ledger!Record, Ledger!Write, Receipt
  <2>2. QED
    BY <1>2, <2>1, IntentsAlike DEF Ledger!Next
<1>6. QED
  BY <1>3, <1>4, <1>5 DEF PersistFailed, Record, Insertable

\* A broadcast enters the cycle's swap, or displaces others, or is turned down.
LEMMA BroadcastLedger ==
  ASSUME IInv, NEW c \in Cycles, Broadcast(c)
  PROVE  Ledger!Next \/ UNCHANGED Ledger!vars
<1> DEFINE lost == {j \in Intents : <<j, "swap">> \in Rivals(c)}
<1> USE DEF IInv, TypeOK
<1>1. UNCHANGED <<row, deleted>>
  BY DEF Broadcast, dbVars
<1>2. /\ at[c] \in Wallets
      /\ Intent(c) \in Intents
      /\ row[Intent(c)] = "none"
      /\ Receipt(Intent(c)) = "none"
  BY DEF Broadcast, CurrentIntents, BeforeSwap, Intent, Intents
<1>3. ASSUME \A t \in Rivals(c) : tx[t].st = "pending"
      PROVE  lost \subseteq Ledger!Pending(at[c])
  BY <1>3, IntentsAlike DEF Ledger!Pending, Rivals, OfWallet, Receipt
<1>4. \A j \in Intents : <<j, "swap">> \in TxIds
  BY DEF TxIds, Kinds
<1>5. CASE Accepted(c, "approve")
  <2>1. \A j \in Intents : Receipt(j)' = IF j \in lost THEN "replaced" ELSE Receipt(j)
    BY <1>4, <1>5 DEF Accepted, Receipt, Rivals, OfWallet
  <2>2. [j \in Intents |-> Receipt(j)'] =
           [j \in Intents |-> IF j \in lost THEN "replaced" ELSE Receipt(j)]
    BY <2>1
  <2>3. lost \in SUBSET Ledger!Pending(at[c])
    BY <1>3, <1>5 DEF Accepted
  <2>4. \E gone \in SUBSET Ledger!Pending(at[c]) :
           [j \in Intents |-> Receipt(j)'] =
             [j \in Intents |-> IF j \in gone THEN "replaced"
                                ELSE [k \in Intents |-> Receipt(k)][j]]
    <3>1. [j \in Intents |-> IF j \in lost THEN "replaced"
                             ELSE [k \in Intents |-> Receipt(k)][j]] =
            [j \in Intents |-> IF j \in lost THEN "replaced" ELSE Receipt(j)]
      OBVIOUS
    <3>2. QED
      BY <2>2, <2>3, <3>1
  <2>5. Ledger!Displace(at[c])
    BY <1>1, <2>4, IntentsAlike DEF Ledger!Displace
  <2>6. QED
    BY <1>2, <2>5 DEF Ledger!Next
<1>6. CASE Accepted(c, "swap")
  <2>1. \A j \in Intents : Receipt(j)' = IF j = Intent(c) THEN "pending"
                                         ELSE IF j \in lost THEN "replaced" ELSE Receipt(j)
    BY <1>4, <1>6 DEF Accepted, Receipt, Rivals, OfWallet
  <2>2. [j \in Intents |-> Receipt(j)'] =
           [j \in Intents |-> IF j = Intent(c) THEN "pending"
                              ELSE IF j \in lost THEN "replaced" ELSE Receipt(j)]
    BY <2>1
  <2>3. lost \in SUBSET Ledger!Pending(Intent(c)[2])
    BY <1>3, <1>6 DEF Accepted, Intent
  <2>4. \E gone \in SUBSET Ledger!Pending(Intent(c)[2]) :
           [j \in Intents |-> Receipt(j)'] =
             [j \in Intents |-> IF j = Intent(c) THEN "pending"
                                ELSE IF j \in gone THEN "replaced"
                                ELSE [k \in Intents |-> Receipt(k)][j]]
    <3>1. [j \in Intents |-> IF j = Intent(c) THEN "pending"
                             ELSE IF j \in lost THEN "replaced"
                             ELSE [k \in Intents |-> Receipt(k)][j]] =
            [j \in Intents |-> IF j = Intent(c) THEN "pending"
                               ELSE IF j \in lost THEN "replaced" ELSE Receipt(j)]
      OBVIOUS
    <3>2. QED
      BY <2>2, <2>3, <3>1
  <2>5. Ledger!Swap(Intent(c))
    BY <1>1, <1>2, <2>4, IntentsAlike DEF Ledger!Swap
  <2>6. QED
    BY <1>2, <2>5, IntentsAlike DEF Ledger!Next
<1>7. CASE UNCHANGED tx
  BY <1>1, <1>7, LedgerStutter
<1>8. QED
  BY <1>5, <1>6, <1>7 DEF Broadcast

\* Mining a swap decides it; mining an approval is nothing to the ledger.
LEMMA MineLedger ==
  ASSUME IInv, NEW t \in TxIds, Mine(t)
  PROVE  Ledger!Next \/ UNCHANGED Ledger!vars
<1> USE DEF IInv, TypeOK
<1>1. UNCHANGED <<row, deleted>>
  BY DEF Mine, dbVars
<1>2. PICK outcome \in {"success", "revert"} : tx' = [tx EXCEPT ![t].st = outcome]
  BY DEF Mine
<1>3. tx[t].st = "pending"
  BY DEF Mine
<1>4. PICK i \in Intents, kind \in Kinds : t = <<i, kind>>
  BY DEF TxIds
<1>5. \A j \in Intents : <<j, "swap">> \in TxIds
  BY DEF TxIds, Kinds
<1>6. CASE kind = "swap"
  <2>1. \A j \in Intents : Receipt(j)' = IF j = i THEN outcome ELSE Receipt(j)
    BY <1>2, <1>4, <1>5, <1>6 DEF Receipt
  <2>2. [j \in Intents |-> Receipt(j)'] = [[j \in Intents |-> Receipt(j)] EXCEPT ![i] = outcome]
    BY <2>1
  <2>3. Ledger!Mine(i)
    BY <1>1, <1>3, <1>4, <1>6, <2>2 DEF Ledger!Mine, Receipt
  <2>4. QED
    BY <2>3, IntentsAlike DEF Ledger!Next
<1>7. CASE kind # "swap"
  <2>1. \A j \in Intents : Receipt(j)' = Receipt(j)
    BY <1>2, <1>4, <1>5, <1>7 DEF Receipt
  <2>2. QED
    BY <1>1, <2>1 DEF Ledger!vars
<1>8. QED
  BY <1>6, <1>7

\* A look at a row settles it by the receipt, or leaves it.
LEMMA PollLedger ==
  ASSUME IInv, NEW p \in Polls, PollRow(p)
  PROVE  Ledger!Next \/ UNCHANGED Ledger!vars
<1> USE DEF IInv, TypeOK
<1>1. UNCHANGED <<tx, deleted>>
  BY DEF PollRow, chainVars
<1>2. PICK i \in batch[p] :
        row' = [row EXCEPT ![i] = IF @ = "none" THEN @
                                  ELSE IF Receipt(i) = "success" THEN "confirmed"
                                  ELSE IF Receipt(i) = "revert" THEN "reverted"
                                  ELSE @]
  BY DEF PollRow
<1>3. i \in Intents /\ (row[i] \in Hashed \/ deleted)
  BY DEF BatchesHashed
<1>4. CASE row' = row
  BY <1>1, <1>4, LedgerStutter
<1>5. CASE row' # row
  <2>1. ~deleted /\ row[i] = "submitted"
    BY <1>2, <1>3, <1>5 DEF DeletedEmpty, RowsAgreeWithChain, Hashed
  <2>2. \/ Receipt(i) = "success" /\ row' = [row EXCEPT ![i] = "confirmed"]
        \/ Receipt(i) = "revert" /\ row' = [row EXCEPT ![i] = "reverted"]
    BY <1>2, <1>3, <1>5, <2>1
  <2>3. Ledger!Settle(i)
    BY <1>1, <1>3, <2>1, <2>2 DEF Ledger!Settle, Ledger!Write, Receipt
  <2>4. QED
    BY <1>3, <2>3, IntentsAlike DEF Ledger!Next
<1>6. QED
  BY <1>4, <1>5

\* Every step is one of the ledger or nothing to it.
LEMMA LedgerStep ==
  IInv /\ CatchesExplained /\ [Next]_vars => [Ledger!Next]_Ledger!vars
<1> SUFFICES ASSUME IInv, CatchesExplained, [Next]_vars
             PROVE  Ledger!Next \/ UNCHANGED Ledger!vars
  OBVIOUS
<1>1. ASSUME NEW c \in Cycles,
             \/ OpenRun(c) \/ NextIntent(c) \/ CloseRun(c) \/ Sign(c) \/ Check(c)
             \/ Build(c) \/ Allowance(c) \/ Send(c) \/ ApproveWait(c) \/ Crash(c)
      PROVE  UNCHANGED <<tx, row, deleted>>
  BY <1>1 DEF OpenRun, NextIntent, CloseRun, Sign, Check, Build, Allowance, Send,
              ApproveWait, Crash, chainVars, dbVars
<1>2. CASE \E p \in Polls : PollStart(p)
  BY <1>2, LedgerStutter DEF PollStart, chainVars, dbVars
<1>3. CASE DeleteBot
  <2>1. Ledger!Delete
    BY <1>3, IntentsAlike DEF DeleteBot, Ledger!Delete, chainVars, Receipt
  <2>2. QED
    BY <2>1 DEF Ledger!Next
<1>4. CASE UNCHANGED vars
  BY <1>4, LedgerStutter DEF vars
<1>5. QED
  BY <1>1, <1>2, <1>3, <1>4, LedgerStutter, InsertLedger, BroadcastLedger, MineLedger,
     PollLedger
  DEF Next, CycleStep

\* For any number of cycles, wallets and rounds and under every fault, what the
\* table and the chain show of a bot's swaps is a behaviour of the ledger.
THEOREM Implementation == SafeSpec => ImplementsLedger
<1>1. Init => Ledger!Init
  BY IntentsAlike DEF Init, Free, Ledger!Init, Receipt, TxIds, Kinds
<1>2. Init => CatchesExplained
  BY DEF Init, CatchesExplained
<1>3. QED
  BY <1>1, <1>2, Invariance, CatchStep, LedgerStep, PTL
  DEF SafeSpec, ImplementsLedger, Ledger!Spec
=============================================================================
