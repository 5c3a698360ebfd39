------------------------- MODULE BotLifecycle_proofs -------------------------
(* Proofs about BotLifecycle, for any number of requests, worker slots and  *)
(* jobs, any bounds and any faults.                                         *)
EXTENDS BotLifecycle, FiniteSetTheorems, TLAPS

USE ConstantsOK DEF ConstantsOK, JobIds, Procs

\* The row as createBot leaves it, with an empty queue and idle slots.
LEMMA InitIInv == Init => IInv
BY DEF Init, IInv, TypeOK, Bots, Statuses, DraftBot, JobStates, RequestSteps,
       SlotSteps, Results, StatusAfter, AllOps

\* Requests: what they write is a row, and a write knows its request.
LEMMA ReceiveIInv ==
  ASSUME IInv, NEW r \in Requests, NEW o \in Ops, Receive(r, o)
  PROVE  IInv'
BY DEF Receive, IInv, TypeOK, RequestSteps, SlotSteps, StatusAfter, AdmittedFrom,
       AllOps, queueVars, slotVars

LEMMA RequestIInv ==
  ASSUME IInv, NEW r \in Requests, RequestStep(r) \/ Abort(r)
  PROVE  IInv'
<1> USE DEF Goto, RequestSteps, SlotSteps, queueVars, slotVars, bounds
<1>1. CASE WriteMissing(r)
  BY <1>1 DEF WriteMissing, IInv, TypeOK, StatusAfter, AllOps
<1>2. CASE WriteStatus(r)
  <2>1. op[r] \in {"start", "resume", "pause", "stop"}
    <3>1. DOMAIN StatusAfter = {"start", "resume", "pause", "stop"}
      BY DEF StatusAfter
    <3>2. op[r] \in DOMAIN StatusAfter \union {"update"}
      BY <1>2 DEF WriteStatus, IInv
    <3>3. QED
      BY <1>2, <3>1, <3>2 DEF WriteStatus
  <2>2. bot' \in Bots
    <3>1. StatusAfter[op[r]] \in Statuses
      BY <2>1 DEF StatusAfter, Statuses
    <3>2. (IF op[r] = "start" THEN 0 ELSE bot.failures) \in 0 .. MaxFailures
      BY DEF IInv, TypeOK, Bots
    <3>3. QED
      BY <1>2, <3>1, <3>2 DEF WriteStatus, IInv, TypeOK, Bots
  <2>3. QED
    BY <1>2, <2>2 DEF WriteStatus, IInv, TypeOK, StatusAfter, AllOps
<1>3. CASE WriteConfig(r)
  BY <1>3 DEF WriteConfig, IInv, TypeOK, StatusAfter, AllOps, Bots, Statuses
<1>4. CASE Register(r)
  BY <1>4 DEF Register, Added, IInv, TypeOK, StatusAfter, AllOps, JobStates
<1>5. CASE Destroy(r)
  BY <1>5 DEF Destroy, IInv, TypeOK, StatusAfter, AllOps, Bots, Statuses
<1>6. CASE Abort(r)
  BY <1>6 DEF Abort, Fault, IInv, TypeOK, StatusAfter, AllOps
<1>7. QED
  BY <1>1, <1>2, <1>3, <1>4, <1>5, <1>6 DEF RequestStep

\* The queue: jobs fall due, and stalled jobs are put back or failed.
LEMMA QueueIInv ==
  ASSUME IInv, NEW j \in JobIds, JobDue(j) \/ StallCheck(j)
  PROVE  IInv'
BY DEF JobDue, StallCheck, IInv, TypeOK, JobStates, slotVars, bounds

\* cancelBotExecution, by a request or by a slot, never touches a locked job.
LEMMA CancelIInv ==
  ASSUME IInv, NEW p \in Procs, CancelStep(p)
  PROVE  IInv'
<1> USE DEF Goto, RequestSteps, SlotSteps, queueVars, slotVars, bounds
<1>1. CASE CancelList(p)
  BY <1>1 DEF CancelList, IInv, TypeOK, StatusAfter, AllOps
<1>2. CASE CancelListed(p)
  BY <1>2 DEF CancelListed, Removed, IInv, TypeOK, StatusAfter, AllOps, JobStates
<1>3. CASE CancelFixed(p)
  BY <1>3 DEF CancelFixed, Removed, AfterCancel, IInv, TypeOK, StatusAfter, AllOps, JobStates
<1>4. QED
  BY <1>1, <1>2, <1>3 DEF CancelStep

\* A free slot takes a waiting job and its lock.
LEMMA TakeIInv ==
  ASSUME IInv, NEW w \in Slots, NEW j \in JobIds, Take(w, j)
  PROVE  IInv'
<1> USE DEF Take, Goto
<1>1. TypeOK'
  BY DEF IInv, TypeOK, RequestSteps, SlotSteps, JobStates, AllOps, bounds
<1>2. \A v \in owned' : cur'[v] \in JobIds /\ job'[cur'[v]] = "active"
  BY DEF IInv, TypeOK
<1>3. \A u, v \in owned' : cur'[u] = cur'[v] => u = v
  BY DEF IInv, TypeOK
<1>4. \A k \in JobIds : job'[k] = "active" => \E v \in owned' : cur'[v] = k
  BY DEF IInv, TypeOK
<1>5. QED
  BY <1>1, <1>2, <1>3, <1>4 DEF IInv, TypeOK, RequestSteps, SlotSteps, StatusAfter, bounds

\* The steps of a cycle that leave the queue and the locks alone.
LEMMA CycleIInv ==
  ASSUME IInv, NEW w \in Slots,
         \/ Load(w)
         \/ Reset(w)
         \/ Skip(w)
         \/ OpenRun(w)
         \/ Trade(w)
         \/ Report(w)
         \/ PauseBot(w)
         \/ Throw(w)
  PROVE  IInv'
<1> USE DEF Goto, RequestSteps, SlotSteps, queueVars, slotVars, bounds
<1>1. CASE Load(w) \/ Reset(w)
  BY <1>1 DEF Load, Reset, FirstStep, FailureCheck, IInv, TypeOK, StatusAfter, AllOps, Bots
<1>2. CASE Skip(w) \/ OpenRun(w)
  BY <1>2 DEF Skip, OpenRun, IInv, TypeOK, StatusAfter, AllOps
<1>3. CASE Trade(w)
  BY <1>3 DEF Trade, IInv, TypeOK, StatusAfter, AllOps
<1>4. CASE Report(w)
  <2>1. FailuresAfter(w) \in 0 .. MaxFailures
    <3>1. bot.failures \in 0 .. MaxFailures /\ seen[w] + 1 \in 0 .. MaxFailures
      BY <1>4 DEF Report, IInv, TypeOK, Bots
    <3>2. CASE result[w] \in {"ok", "mixed"}
      BY <3>2 DEF FailuresAfter
    <3>3. CASE result[w] = "failed"
      BY <3>1, <3>3 DEF FailuresAfter
    <3>4. CASE result[w] = "empty"
      BY <3>1, <3>4 DEF FailuresAfter
    <3>5. QED
      BY <3>2, <3>3, <3>4 DEF IInv, TypeOK, Results
  <2>2. bot' \in Bots
    <3>1. CASE bot.status = "deleted"
      BY <1>4, <3>1 DEF Report, IInv, TypeOK
    <3>2. CASE bot.status # "deleted"
      <4>1. PICK f \in 0 .. MaxFailures, b \in BOOLEAN :
                   bot' = [bot EXCEPT !.failures = f, !.cooling = b]
        BY <1>4, <2>1, <3>2, Zenon DEF Report
      <4>2. QED
        BY <4>1 DEF IInv, TypeOK, Bots
    <3>3. QED
      BY <3>1, <3>2
  <2>3. QED
    BY <1>4, <2>2 DEF Report, IInv, TypeOK, StatusAfter, AllOps
<1>5. CASE PauseBot(w)
  BY <1>5 DEF PauseBot, IInv, TypeOK, StatusAfter, AllOps, Bots, Statuses
<1>6. CASE Throw(w)
  BY <1>6 DEF Throw, Fault, IInv, TypeOK, StatusAfter, AllOps
<1>7. QED
  BY <1>1, <1>2, <1>3, <1>4, <1>5, <1>6

\* scheduleNextRun adds a job no slot holds.
LEMMA RegistersIInv ==
  ASSUME IInv, NEW w \in Slots, NEW step \in {"finish", "fail"}, Registers(w, step),
         budget' \in 0 .. MaxRequests, mishaps' \in 0 .. MaxFaults
  PROVE  IInv'
<1> USE DEF Goto, slotVars
<1>1. PICK j \in NextIds : /\ Fresh(j)
                           /\ job' = [job EXCEPT ![j] = "delayed"]
                           /\ requeued' = requeued \ {j}
  BY DEF Registers
<1>2. TypeOK'
  BY <1>1 DEF Registers, IInv, TypeOK, RequestSteps, SlotSteps, JobStates, AllOps
<1>3. \A v \in owned' : cur'[v] \in JobIds /\ job'[cur'[v]] = "active"
  BY <1>1 DEF Registers, Fresh, IInv, TypeOK
<1>4. \A k \in JobIds : job'[k] = "active" => \E v \in owned' : cur'[v] = k
  BY <1>1 DEF Registers, Fresh, IInv, TypeOK
<1>5. QED
  BY <1>2, <1>3, <1>4 DEF Registers, IInv, TypeOK, RequestSteps, SlotSteps, StatusAfter

LEMMA RescheduleIInv ==
  ASSUME IInv, NEW w \in Slots, Reschedule(w) \/ ThrowAfterAdd(w)
  PROVE  IInv'
<1>1. PICK step \in {"finish", "fail"} : Registers(w, step)
  BY DEF Reschedule, ThrowAfterAdd
<1>2. budget' \in 0 .. MaxRequests /\ mishaps' \in 0 .. MaxFaults
  BY DEF Reschedule, ThrowAfterAdd, Fault, IInv, TypeOK, bounds
<1>3. QED
  BY <1>1, <1>2, RegistersIInv

\* A slot that lets go of its cycle gives up the lock with the job.
LEMMA ReleaseIInv ==
  ASSUME IInv, NEW w \in Slots, NEW outcome \in JobStates \ {"active"},
         Release(w, outcome),
         snap' \in [Procs -> SUBSET JobIds],
         budget' \in 0 .. MaxRequests, mishaps' \in 0 .. MaxFaults
  PROVE  IInv'
<1> USE DEF Release, Goto
<1>1. TypeOK'
  <2>1. job' \in [JobIds -> JobStates]
    BY DEF IInv, TypeOK
  <2>2. cur' \in [Slots -> JobIds \union {NoJob}] /\ owned' \subseteq Slots
    BY DEF IInv, TypeOK
  <2>3. seen' \in [Slots -> 0 .. MaxFailures] /\ result' \in [Slots -> Results]
    BY DEF IInv, TypeOK, Results
  <2>4. QED
    BY <2>1, <2>2, <2>3 DEF IInv, TypeOK, RequestSteps, SlotSteps, AllOps
<1>2. \A v \in owned' : cur'[v] \in JobIds /\ job'[cur'[v]] = "active"
  BY DEF IInv, TypeOK
<1>3. \A u, v \in owned' : cur'[u] = cur'[v] => u = v
  BY DEF IInv, TypeOK
<1>4. \A k \in JobIds : job'[k] = "active" => \E v \in owned' : cur'[v] = k
  BY DEF IInv, TypeOK
<1>5. QED
  BY <1>1, <1>2, <1>3, <1>4 DEF IInv, TypeOK, RequestSteps, SlotSteps, StatusAfter

LEMMA SlotEndIInv ==
  ASSUME IInv, NEW w \in Slots, Finish(w) \/ Fail(w) \/ Crash(w)
  PROVE  IInv'
<1>1. PICK outcome \in JobStates \ {"active"} : Release(w, outcome)
  BY DEF Finish, Fail, Crash, JobStates
<1>2. /\ snap' \in [Procs -> SUBSET JobIds]
      /\ budget' \in 0 .. MaxRequests
      /\ mishaps' \in 0 .. MaxFaults
  BY DEF Finish, Fail, Crash, Fault, IInv, TypeOK, bounds
<1>3. QED
  BY <1>1, <1>2, ReleaseIInv

LEMMA LoseLockIInv ==
  ASSUME IInv, NEW w \in Slots, LoseLock(w)
  PROVE  IInv'
BY DEF LoseLock, Fault, IInv, TypeOK, JobStates

\* No step of the system, faults included, leaves the inductive invariant.
LEMMA NextIInv == IInv /\ [Next]_vars => IInv'
<1> SUFFICES ASSUME IInv, [Next]_vars PROVE IInv'
  OBVIOUS
<1>1. CASE \E r \in Requests, o \in Ops : Receive(r, o)
  BY <1>1, ReceiveIInv
<1>2. CASE \E r \in Requests : RequestStep(r) \/ Abort(r)
  BY <1>2, RequestIInv
<1>3. CASE \E p \in Procs : CancelStep(p)
  BY <1>3, CancelIInv
<1>4. CASE \E j \in JobIds : JobDue(j) \/ StallCheck(j)
  BY <1>4, QueueIInv
<1>5. CASE \E w \in Slots, j \in JobIds : Take(w, j)
  BY <1>5, TakeIInv
<1>6. CASE \E w \in Slots : \/ CycleStep(w) \/ Throw(w) \/ ThrowAfterAdd(w)
                          \/ LoseLock(w) \/ Crash(w)
  BY <1>6, CycleIInv, RescheduleIInv, SlotEndIInv, LoseLockIInv DEF CycleStep
<1>7. CASE CooldownOver
  BY <1>7 DEF CooldownOver, IInv, TypeOK, Bots, queueVars, slotVars, bounds
<1>8. CASE UNCHANGED vars
  BY <1>8 DEF vars, IInv, TypeOK
<1>9. QED
  BY <1>1, <1>2, <1>3, <1>4, <1>5, <1>6, <1>7, <1>8 DEF Next

\* The inductive invariant holds in every state.
THEOREM Invariance == SafeSpec => []IInv
BY InitIInv, NextIInv, PTL DEF SafeSpec

\* Every state is well typed; consecutiveFailures stays within the threshold
\* for any number of overlapping cycles of the bot.
THEOREM TypeCorrect == SafeSpec => []TypeOK
<1>1. IInv => TypeOK
  BY DEF IInv
<1>2. QED
  BY <1>1, Invariance, PTL

-----------------------------------------------------------------------------
(* The code implements the safety part of TradingGate.                      *)

\* One slot moving to another step enters, leaves or keeps its side of the gate.
LEMMA GateMove ==
  ASSUME TypeOK, NEW p \in Procs, NEW step, Goto(p, step), UNCHANGED bot,
         p \in Slots /\ step \in TradingSteps
           => p \in Trading \/ bot.status = "active"
  PROVE  Gate!Next \/ UNCHANGED Gate!vars
<1> USE DEF Goto, TypeOK, Trading, TradingSteps
<1>1. CASE p \notin Slots \/ (step \in TradingSteps <=> p \in Trading)
  <2>1. Trading' = Trading
    BY <1>1
  <2>2. QED
    BY <2>1 DEF Gate!vars
<1>2. CASE p \in Slots /\ step \in TradingSteps /\ p \notin Trading
  <2>1. Trading' = Trading \union {p}
    BY <1>2
  <2>2. Gate!Enter(p)
    BY <1>2, <2>1 DEF Gate!Enter
  <2>3. QED
    BY <1>2, <2>2 DEF Gate!Next
<1>3. CASE p \in Slots /\ step \notin TradingSteps /\ p \in Trading
  <2>1. Trading' = Trading \ {p}
    BY <1>3
  <2>2. Gate!Leave(p)
    BY <1>3, <2>1 DEF Gate!Leave
  <2>3. QED
    BY <1>3, <2>2 DEF Gate!Next
<1>4. QED
  BY <1>1, <1>2, <1>3

\* A step that writes the row, by a process outside the gate, flips the switch.
LEMMA GateSwitch ==
  ASSUME TypeOK, NEW p \in Procs, NEW step, Goto(p, step),
         step \notin TradingSteps, p \notin Trading
  PROVE  Gate!Next \/ UNCHANGED Gate!vars
<1>1. Trading' = Trading
  BY DEF Goto, TypeOK, Trading, TradingSteps
<1>2. QED
  BY <1>1 DEF Gate!Next, Gate!vars, Gate!SwitchOn, Gate!SwitchOff

\* A step of the system switches the gate, lets one slot in or out, or stutters.
LEMMA GateStep == IInv /\ [Next]_vars => [Gate!Next]_Gate!vars
<1> SUFFICES ASSUME IInv, [Next]_vars
             PROVE  Gate!Next \/ UNCHANGED Gate!vars
  OBVIOUS
<1> USE DEF IInv, TradingSteps
<1>0. TypeOK
  OBVIOUS
<1>1. CASE UNCHANGED <<bot, pc>>
  BY <1>1 DEF Gate!vars, Trading
<1>2. ASSUME NEW r \in Requests, NEW o \in Ops, Receive(r, o)
      PROVE  UNCHANGED bot /\ Trading' = Trading
  BY <1>0, <1>2 DEF Receive, TypeOK, Trading, TradingSteps
<1>3. ASSUME NEW r \in Requests, RequestStep(r) \/ Abort(r)
      PROVE  Gate!Next \/ UNCHANGED Gate!vars
  <2>1. PICK step \in {"idle", "cancel"} : Goto(r, step)
    BY <1>3 DEF RequestStep, WriteMissing, WriteStatus, WriteConfig, Register, Destroy, Abort
  <2>2. r \notin Trading
    BY DEF Trading
  <2>3. QED
    BY <1>0, <2>1, <2>2, GateSwitch
<1>4. ASSUME NEW p \in Procs, CancelList(p) \/ CancelFixed(p)
      PROVE  Gate!Next \/ UNCHANGED Gate!vars
  <2>1. PICK step \in {"remove", "finish", "add", "destroy", "idle"} : Goto(p, step)
    BY <1>4 DEF CancelList, CancelFixed, AfterCancel
  <2>2. UNCHANGED bot
    BY <1>4 DEF CancelList, CancelFixed
  <2>3. QED
    BY <1>0, <2>1, <2>2, GateMove
<1>5. ASSUME NEW w \in Slots, NEW j \in JobIds, Take(w, j)
      PROVE  Gate!Next \/ UNCHANGED Gate!vars
  BY <1>0, <1>5, GateMove DEF Take
<1>6. ASSUME NEW w \in Slots, CycleStep(w) \/ Throw(w) \/ ThrowAfterAdd(w) \/ Crash(w)
      PROVE  Gate!Next \/ UNCHANGED Gate!vars
  <2>1. CASE Load(w)
    BY <1>0, <2>1, GateMove DEF Load, FirstStep, FailureCheck, TradingSteps
  <2>2. CASE Reset(w) \/ Skip(w) \/ OpenRun(w) \/ Trade(w)
    <3>1. w \in Trading
      BY <2>2 DEF Reset, Skip, OpenRun, Trade, Trading, TradingSteps
    <3>2. QED
      BY <1>0, <2>2, <3>1, GateMove DEF Reset, Skip, OpenRun, Trade
  <2>3. CASE Report(w) \/ PauseBot(w)
    <3>1. w \notin Trading
      BY <2>3 DEF Report, PauseBot, Trading, TradingSteps
    <3>2. PICK step \in {"fail", "next", "cancel"} : Goto(w, step)
      BY <2>3 DEF Report, PauseBot
    <3>3. QED
      BY <1>0, <3>1, <3>2, GateSwitch
  <2>4. CASE \/ Reschedule(w) \/ ThrowAfterAdd(w) \/ Finish(w) \/ Fail(w)
           \/ Throw(w) \/ Crash(w)
    <3>1. PICK step \in {"finish", "idle", "fail"} : Goto(w, step)
      BY <2>4 DEF Reschedule, ThrowAfterAdd, Registers, Finish, Fail, Throw, Crash, Release
    <3>2. UNCHANGED bot
      BY <2>4 DEF Reschedule, ThrowAfterAdd, Registers, Finish, Fail, Throw, Crash, Release
    <3>3. QED
      BY <1>0, <3>1, <3>2, GateMove
  <2>5. QED
    BY <1>6, <2>1, <2>2, <2>3, <2>4 DEF CycleStep
<1>7. CASE CooldownOver
  BY <1>7 DEF CooldownOver, TypeOK, Bots, Gate!vars, Trading
<1>8. CASE \E j \in JobIds : JobDue(j) \/ StallCheck(j)
  BY <1>1, <1>8 DEF JobDue, StallCheck
<1>9. CASE \E p \in Procs : CancelListed(p)
  BY <1>1, <1>9 DEF CancelListed
<1>10. CASE \E w \in Slots : LoseLock(w)
  BY <1>1, <1>10 DEF LoseLock
<1>11. CASE UNCHANGED vars
  BY <1>1, <1>11 DEF vars
<1>12. CASE \E r \in Requests, o \in Ops : Receive(r, o)
  BY <1>2, <1>12 DEF Gate!vars
<1>13. QED
  BY <1>3, <1>4, <1>5, <1>6, <1>7, <1>8, <1>9, <1>10, <1>11, <1>12 DEF Next, CancelStep

\* The code implements TradingGate: a slot enters the trading part of a cycle
\* only while the row says active, whatever requests, crashes and stalls do.
THEOREM GateRefinement == SafeSpec => ImplementsGateSafety
<1>1. Init => Gate!Init
  BY DEF Init, Gate!Init, DraftBot, Trading, TradingSteps
<1>2. QED
  BY <1>1, Invariance, GateStep, PTL DEF SafeSpec, ImplementsGateSafety, Gate!SafeSpec

-----------------------------------------------------------------------------
(* The cycles to come.  There are finitely many; a step keeps them, passes   *)
(* one on from a job to a slot or from a slot to a job, or adds one.         *)

\* A job stalls only by a fault.
StalledByFault == mishaps = MaxFaults => \A j \in JobIds : job[j] # "stalled"

CarrierInv == IInv /\ IsFiniteSet(Carriers) /\ StalledByFault

\* A slot, and what it does next, while no job changes.
LEMMA CarriersOfMove ==
  ASSUME IInv, NEW p \in Procs, NEW step, Goto(p, step), UNCHANGED job,
         p \in Slots /\ step \in {"load", "reset", "setup", "trade", "report", "next"}
           => p \in OpenCycles
  PROVE  Carriers' \subseteq Carriers
BY DEF Goto, Carriers, PendingJobs, OpenCycles, IInv, TypeOK

\* A start or resume adds its job; that is the fork a request is allowed.
LEMMA CarriersOfRequest ==
  ASSUME IInv, NEW r \in Requests, RequestStep(r) \/ Abort(r)
  PROVE  \/ Carriers' \subseteq Carriers
         \/ Carriers' \subseteq Carriers \union {FixedId} /\ pc[r] = "add" /\ pc'[r] = "idle"
<1>1. CASE Register(r)
  BY <1>1 DEF Register, Added, Goto, Carriers, PendingJobs, OpenCycles, IInv, TypeOK, queueVars
<1>2. CASE WriteMissing(r) \/ WriteStatus(r) \/ WriteConfig(r) \/ Destroy(r) \/ Abort(r)
  <2>1. UNCHANGED job
    BY <1>2 DEF WriteMissing, WriteStatus, WriteConfig, Destroy, Abort, queueVars
  <2>2. PICK step \in {"idle", "cancel"} : Goto(r, step)
    BY <1>2 DEF WriteMissing, WriteStatus, WriteConfig, Destroy, Abort
  <2>3. QED
    BY <2>1, <2>2, CarriersOfMove
<1>3. QED
  BY <1>1, <1>2 DEF RequestStep

\* The queue and the cancels never make a job that starts a further cycle.
LEMMA CarriersOfQueue ==
  ASSUME IInv,
         \/ \E j \in JobIds : JobDue(j) \/ StallCheck(j)
         \/ \E p \in Procs : CancelStep(p)
         \/ \E r \in Requests, o \in Ops : Receive(r, o)
         \/ CooldownOver
  PROVE  Carriers' \subseteq Carriers
<1> USE DEF Carriers, PendingJobs, OpenCycles, IInv, TypeOK
<1>1. CASE \E j \in JobIds : JobDue(j) \/ StallCheck(j)
  BY <1>1 DEF JobDue, StallCheck
<1>2. ASSUME NEW p \in Procs, CancelList(p) \/ CancelFixed(p)
      PROVE  Carriers' \subseteq Carriers
  <2>1. PICK step \in {"remove", "finish", "add", "destroy", "idle"} : Goto(p, step)
    BY <1>2 DEF CancelList, CancelFixed, AfterCancel
  <2>2. OpenCycles' \subseteq OpenCycles
    BY <2>1 DEF Goto
  <2>3. PendingJobs' \subseteq PendingJobs
    BY <1>2 DEF CancelList, CancelFixed, Removed, queueVars
  <2>4. QED
    BY <2>2, <2>3
<1>3. CASE \E p \in Procs : CancelListed(p)
  BY <1>3 DEF CancelListed, Removed
<1>4. CASE \E r \in Requests, o \in Ops : Receive(r, o)
  BY <1>4 DEF Receive, queueVars
<1>5. CASE CooldownOver
  BY <1>5 DEF CooldownOver, queueVars
<1>6. QED
  BY <1>1, <1>2, <1>3, <1>4, <1>5 DEF CancelStep

\* A slot takes the cycle over from its job.
LEMMA CarriersOfTake ==
  ASSUME IInv, NEW w \in Slots, NEW j \in JobIds, Take(w, j)
  PROVE  j \in Carriers /\ w \in Carriers' /\ Carriers' \subseteq (Carriers \ {j}) \union {w}
BY DEF Take, Goto, Carriers, PendingJobs, OpenCycles, IInv, TypeOK

\* scheduleNextRun hands the cycle on to a job.
LEMMA CarriersOfReschedule ==
  ASSUME IInv, NEW w \in Slots, Reschedule(w) \/ ThrowAfterAdd(w)
  PROVE  /\ w \in Carriers
         /\ \E j \in JobIds : j \in Carriers' /\ Carriers' \subseteq (Carriers \ {w}) \union {j}
<1>1. PICK step \in {"finish", "fail"} : Registers(w, step)
  BY DEF Reschedule, ThrowAfterAdd
<1>2. PICK j \in NextIds : Fresh(j) /\ job' = [job EXCEPT ![j] = "delayed"]
  BY <1>1 DEF Registers
<1>3. QED
  BY <1>1, <1>2 DEF Registers, Goto, Carriers, PendingJobs, OpenCycles, IInv, TypeOK

\* A slot that lets go of its cycle: settling the job ends no further cycle,
\* and only a stalled job is run again.
LEMMA CarriersOfRelease ==
  ASSUME IInv, NEW w \in Slots, NEW outcome, Release(w, outcome)
  PROVE  /\ Carriers' \subseteq Carriers \union {cur[w]}
         /\ outcome \in {"none", "failed"} => Carriers' \subseteq Carriers
         /\ w \notin OpenCycles => Carriers \subseteq Carriers'
<1>1. PendingJobs' \subseteq PendingJobs \union {cur[w]} /\ PendingJobs \subseteq PendingJobs'
  BY DEF Release, PendingJobs, IInv, TypeOK
<1>2. outcome \in {"none", "failed"} => PendingJobs' \subseteq PendingJobs
  BY DEF Release, PendingJobs, IInv, TypeOK
<1>3. OpenCycles' = OpenCycles \ {w}
  BY DEF Release, Goto, OpenCycles, IInv, TypeOK
<1>4. QED
  BY <1>1, <1>2, <1>3 DEF Carriers

\* The remaining steps of a slot.
LEMMA CarriersOfCycle ==
  ASSUME IInv, NEW w \in Slots, CycleStep(w) \/ Throw(w), ~ Reschedule(w)
  PROVE  Carriers' \subseteq Carriers
<1>1. CASE Finish(w) \/ Fail(w)
  BY <1>1, CarriersOfRelease DEF Finish, Fail
<1>2. CASE \/ Load(w) \/ Reset(w) \/ Skip(w) \/ OpenRun(w) \/ Trade(w)
           \/ Report(w) \/ PauseBot(w) \/ Throw(w)
  <2>1. UNCHANGED job
    BY <1>2 DEF Load, Reset, Skip, OpenRun, Trade, Report, PauseBot, Throw, queueVars
  <2>2. PICK step : Goto(w, step) /\ (w \in OpenCycles \/ step \in {"fail", "cancel"})
    BY <1>2 DEF Load, Reset, Skip, OpenRun, Trade, Report, PauseBot, Throw, OpenCycles
  <2>3. QED
    BY <2>1, <2>2, CarriersOfMove
<1>3. QED
  BY <1>1, <1>2 DEF CycleStep

\* What a step may do to the cycles to come.
Forks == (\E r \in Requests : pc[r] = "add" /\ pc'[r] = "idle") \/ mishaps' < MaxFaults

LEMMA CarriersOfNext ==
  ASSUME IInv, [Next]_vars
  PROVE  \/ Carriers' \subseteq Carriers
         \/ \E x \in Carriers : \E y : Carriers' \subseteq (Carriers \ {x}) \union {y}
         \/ Forks /\ \E y : Carriers' \subseteq Carriers \union {y}
<1>1. CASE \E r \in Requests : RequestStep(r) \/ Abort(r)
  BY <1>1, CarriersOfRequest DEF Forks
<1>2. CASE \E w \in Slots, j \in JobIds : Take(w, j)
  BY <1>2, CarriersOfTake
<1>3. CASE \E w \in Slots : Reschedule(w) \/ ThrowAfterAdd(w)
  BY <1>3, CarriersOfReschedule
<1>4. ASSUME NEW w \in Slots, LoseLock(w) \/ Crash(w)
      PROVE  Forks /\ Carriers' \subseteq Carriers \union {cur[w]}
  <2>1. Forks
    BY <1>4 DEF LoseLock, Crash, Fault, IInv, TypeOK, Forks
  <2>2. CASE LoseLock(w)
    BY <2>1, <2>2 DEF LoseLock, Carriers, PendingJobs, OpenCycles, IInv, TypeOK
  <2>3. CASE Crash(w)
    BY <2>1, <2>3, CarriersOfRelease DEF Crash
  <2>4. QED
    BY <1>4, <2>2, <2>3
<1>5. CASE \E w \in Slots : (CycleStep(w) \/ Throw(w)) /\ ~ Reschedule(w)
  BY <1>5, CarriersOfCycle
<1>6. CASE UNCHANGED vars
  BY <1>6 DEF vars, Carriers, PendingJobs, OpenCycles
<1>7. QED
  BY <1>1, <1>2, <1>3, <1>4, <1>5, <1>6, CarriersOfQueue DEF Next

\* Exchanging one element for another, or losing some, does not make a set larger.
LEMMA NoLarger ==
  ASSUME NEW S, IsFiniteSet(S), NEW T,
         T \subseteq S \/ \E x \in S : \E y : T \subseteq (S \ {x}) \union {y}
  PROVE  IsFiniteSet(T) /\ Cardinality(T) <= Cardinality(S)
<1>1. CASE T \subseteq S
  BY <1>1, FS_Subset
<1>2. ASSUME NEW x \in S, NEW y, T \subseteq (S \ {x}) \union {y}
      PROVE  IsFiniteSet(T) /\ Cardinality(T) <= Cardinality(S)
  <2> DEFINE R == S \ {x}
  <2>1. IsFiniteSet(R) /\ Cardinality(R) = Cardinality(S) - 1
    BY FS_RemoveElement
  <2>2. IsFiniteSet(R \union {y}) /\ Cardinality(R \union {y}) <= Cardinality(R) + 1
    <3> HIDE DEF R
    <3>1. Cardinality(R) \in Nat
      BY <2>1, FS_CardinalityType
    <3>2. /\ IsFiniteSet(R \union {y})
          /\ Cardinality(R \union {y}) = IF y \in R THEN Cardinality(R) ELSE Cardinality(R) + 1
      BY <2>1, FS_AddElement
    <3>3. QED
      BY <3>1, <3>2
  <2>3. IsFiniteSet(T) /\ Cardinality(T) <= Cardinality(R \union {y})
    BY <1>2, <2>2, FS_Subset
  <2>4. Cardinality(S) \in Nat /\ Cardinality(T) \in Nat /\ Cardinality(R \union {y}) \in Nat
    BY <2>2, <2>3, FS_CardinalityType
  <2>5. QED
    BY <2>1, <2>2, <2>3, <2>4
<1>3. QED
  BY <1>1, <1>2

LEMMA InitCarrierInv == Init => CarrierInv
<1>1. Init => Carriers = {} /\ StalledByFault
  BY DEF Init, Carriers, PendingJobs, OpenCycles, StalledByFault
<1>2. QED
  BY <1>1, InitIInv, FS_EmptySet DEF CarrierInv

LEMMA StallStep ==
  ASSUME IInv, StalledByFault, [Next]_vars
  PROVE  StalledByFault'
<1> USE DEF StalledByFault, IInv, TypeOK
<1>1. CASE mishaps' < mishaps
  BY <1>1, NextIInv
<1>2. CASE mishaps' = mishaps /\ \A j \in JobIds : job'[j] = "stalled" => job[j] = "stalled"
  BY <1>2
<1>3. ASSUME NEW r \in Requests, RequestStep(r) \/ Abort(r)
      PROVE  (mishaps' = mishaps /\ (job' = job \/ Added(FixedId))) \/ mishaps' < mishaps
  BY <1>3 DEF RequestStep, WriteMissing, WriteStatus, WriteConfig, Register, Destroy, Abort,
              Fault, queueVars, bounds
<1>4. ASSUME NEW w \in Slots, \/ CycleStep(w) \/ Throw(w) \/ ThrowAfterAdd(w)
                               \/ LoseLock(w) \/ Crash(w)
      PROVE  \/ /\ mishaps' = mishaps
                /\ \/ job' = job
                   \/ \E j \in JobIds : job' = [job EXCEPT ![j] = "delayed"]
                   \/ \E outcome \in {"none", "failed"} : Release(w, outcome)
             \/ mishaps' < mishaps
  <2>1. CASE Throw(w) \/ ThrowAfterAdd(w) \/ LoseLock(w) \/ Crash(w)
    BY <2>1 DEF Throw, ThrowAfterAdd, LoseLock, Crash, Fault
  <2>2. CASE Finish(w) \/ Fail(w)
    BY <2>2 DEF Finish, Fail, bounds
  <2>3. CASE Reschedule(w)
    BY <2>3 DEF Reschedule, Registers, bounds
  <2>4. QED
    BY <1>4, <2>1, <2>2, <2>3
       DEF CycleStep, Load, Reset, Skip, OpenRun, Trade, Report, PauseBot, queueVars, bounds
<1>5. CASE \E r \in Requests : RequestStep(r) \/ Abort(r)
  BY <1>1, <1>2, <1>3, <1>5 DEF Added, queueVars
<1>6. CASE \E w \in Slots : \/ CycleStep(w) \/ Throw(w) \/ ThrowAfterAdd(w)
                          \/ LoseLock(w) \/ Crash(w)
  BY <1>1, <1>2, <1>4, <1>6 DEF Release
<1>7. CASE \E j \in JobIds : JobDue(j) \/ StallCheck(j)
  BY <1>2, <1>7 DEF JobDue, StallCheck, bounds
<1>8. CASE \E p \in Procs : CancelStep(p)
  BY <1>2, <1>8 DEF CancelStep, CancelList, CancelListed, CancelFixed, Removed, queueVars, bounds
<1>9. CASE \E w \in Slots, j \in JobIds : Take(w, j)
  BY <1>2, <1>9 DEF Take, bounds
<1>10. CASE (\E r \in Requests, o \in Ops : Receive(r, o)) \/ CooldownOver \/ UNCHANGED vars
  BY <1>2, <1>10 DEF Receive, CooldownOver, vars, queueVars, bounds
<1>11. QED
  BY <1>5, <1>6, <1>7, <1>8, <1>9, <1>10 DEF Next

LEMMA NextCarrierInv == CarrierInv /\ [Next]_vars => CarrierInv'
<1> SUFFICES ASSUME CarrierInv, [Next]_vars PROVE CarrierInv'
  OBVIOUS
<1> USE DEF CarrierInv
<1>1. IInv' /\ StalledByFault'
  BY NextIInv, StallStep
<1>2. ASSUME NEW y, Carriers' \subseteq Carriers \union {y}
      PROVE  IsFiniteSet(Carriers')
  BY <1>2, FS_AddElement, FS_Subset
<1>3. IsFiniteSet(Carriers')
  BY <1>2, CarriersOfNext, NoLarger
<1>4. QED
  BY <1>1, <1>3

THEOREM CarrierInvariance == SafeSpec => []CarrierInv
BY InitCarrierInv, NextCarrierInv, PTL DEF SafeSpec

\* The worker replaces its job by at most one successor: however many cycles of
\* the bot overlap, and however cancels and cycles interleave, before any fault
\* only a start or resume raises the number of cycles to come.
THEOREM NoForkByTheWorker == SafeSpec => OnlyRequestsFork
<1>1. ASSUME CarrierInv, [Next]_vars, Cardinality(Carriers') > Cardinality(Carriers)
      PROVE  Forks
  <2>1. IsFiniteSet(Carriers) /\ IsFiniteSet(Carriers') /\ IInv
    BY <1>1, NextCarrierInv DEF CarrierInv
  <2>2. Cardinality(Carriers) \in Nat /\ Cardinality(Carriers') \in Nat
    BY <2>1, FS_CardinalityType
  <2>3. CASE \/ Carriers' \subseteq Carriers
             \/ \E x \in Carriers : \E y : Carriers' \subseteq (Carriers \ {x}) \union {y}
    <3>1. Cardinality(Carriers') <= Cardinality(Carriers)
      BY <2>1, <2>3, NoLarger
    <3>2. QED
      BY <1>1, <2>2, <3>1
  <2>4. QED
    BY <1>1, <2>1, <2>3, CarriersOfNext
<1>2. CarrierInv /\ [Next]_vars
        => [Cardinality(Carriers') > Cardinality(Carriers) => Forks]_vars
  BY <1>1
<1>3. QED
  BY <1>2, CarrierInvariance, PTL DEF SafeSpec, OnlyRequestsFork, Forks

-----------------------------------------------------------------------------
(* The end of the chain.                                                    *)

\* The reasons ChainEndsForAReason admits.
Cancelled == \E p \in Procs : pc[p] = "remove" /\ <<pc'[p], snap'[p]>> # <<pc[p], snap[p]>>
Reasons == Cancelled \/ bot.status # "active" \/ bot.failures >= MaxFailures \/ mishaps' < MaxFaults

LEMMA ChainOfCancel ==
  ASSUME IInv, NEW p \in Procs, CancelStep(p)
  PROVE  Cancelled \/ Carriers \subseteq Carriers'
<1> USE DEF IInv, TypeOK
<1>1. CASE CancelList(p)
  BY <1>1 DEF CancelList, Goto, Carriers, PendingJobs, OpenCycles, queueVars
<1>2. CASE CancelListed(p)
  BY <1>2 DEF CancelListed, Cancelled
<1>3. CASE CancelFixed(p)
  BY <1>3 DEF CancelFixed, Goto, AfterCancel, Cancelled
<1>4. QED
  BY <1>1, <1>2, <1>3 DEF CancelStep

\* A slot leaves its cycle without a successor only for a reason.
LEMMA ChainOfCycle ==
  ASSUME CarrierInv, NEW w \in Slots, CycleStep(w), Carriers # {}, Carriers' = {}
  PROVE  Reasons
<1> USE DEF CarrierInv, IInv, TypeOK, Reasons
<1>1. CASE Finish(w) \/ Fail(w)
  <2>1. w \notin OpenCycles
    BY <1>1 DEF Finish, Fail, OpenCycles
  <2>2. QED
    BY <1>1, <2>1, CarriersOfRelease DEF Finish, Fail
<1>2. CASE Reschedule(w)
  BY <1>2, CarriersOfReschedule
<1>3. CASE PauseBot(w)
  BY <1>3 DEF PauseBot, Goto, Carriers, PendingJobs, OpenCycles, queueVars
<1>4. CASE Skip(w) \/ Trade(w)
  <2>1. w \in Carriers'
    BY <1>4 DEF Skip, Trade, Goto, Carriers, OpenCycles
  <2>2. QED
    BY <2>1
<1>5. CASE Load(w) \/ Reset(w) \/ OpenRun(w) \/ Report(w)
  <2>1. PICK step : /\ Goto(w, step)
                    /\ \/ step \in {"setup", "reset", "next", "trade"}
                       \/ bot.status # "active" \/ bot.failures >= MaxFailures
    BY <1>5 DEF Load, Reset, OpenRun, Report, FirstStep, FailureCheck
  <2>2. step \in {"setup", "reset", "next", "trade"} => w \in Carriers'
    BY <2>1 DEF Goto, Carriers, OpenCycles
  <2>3. QED
    BY <2>1, <2>2
<1>6. QED
  BY <1>1, <1>2, <1>3, <1>4, <1>5 DEF CycleStep

LEMMA ChainOfNext ==
  ASSUME CarrierInv, [Next]_vars, Carriers # {}, Carriers' = {}
  PROVE  Reasons
<1> USE DEF CarrierInv, IInv, TypeOK
<1>1. CASE \E r \in Requests : RequestStep(r) \/ Abort(r)
  BY <1>1 DEF RequestStep, WriteMissing, WriteStatus, WriteConfig, Register, Added, Destroy, Abort,
              Goto, Carriers, PendingJobs, OpenCycles, queueVars
<1>2. CASE \E w \in Slots, j \in JobIds : Take(w, j)
  BY <1>2, CarriersOfTake
<1>3. CASE \E w \in Slots : CycleStep(w)
  BY <1>3, ChainOfCycle
<1>4. CASE \E w \in Slots : Throw(w) \/ ThrowAfterAdd(w) \/ LoseLock(w) \/ Crash(w)
  BY <1>4 DEF Throw, ThrowAfterAdd, LoseLock, Crash, Fault, Reasons
<1>5. CASE \E p \in Procs : CancelStep(p)
  BY <1>5, ChainOfCancel DEF Reasons
<1>6. ASSUME NEW j \in JobIds, JobDue(j) \/ StallCheck(j)
      PROVE  Reasons
  <2>1. CASE job'[j] = "waiting"
    BY <2>1 DEF Carriers, PendingJobs
  <2>2. CASE job'[j] # "waiting"
    BY <1>6, <2>2 DEF JobDue, StallCheck, StalledByFault, Reasons, bounds
  <2>3. QED
    BY <2>1, <2>2
<1>7. CASE (\E r \in Requests, o \in Ops : Receive(r, o)) \/ CooldownOver \/ UNCHANGED vars
  BY <1>7 DEF Receive, CooldownOver, vars, Carriers, PendingJobs, OpenCycles, queueVars
<1>8. QED
  BY <1>1, <1>2, <1>3, <1>4, <1>5, <1>6, <1>7 DEF Next

\* A running bot goes on: until a call fails, the last cycle to come is lost only
\* to a cancel, or because the bot is not active or has failed too often.
THEOREM ChainGoesOn == SafeSpec => ChainEndsForAReason
<1>1. CarrierInv /\ [Next]_vars => [Carriers # {} /\ Carriers' = {} => Reasons]_vars
  BY ChainOfNext
<1>2. QED
  BY <1>1, CarrierInvariance, PTL DEF SafeSpec, ChainEndsForAReason, Reasons, Cancelled

-----------------------------------------------------------------------------
(* The failures that every cycle has counted.                               *)

\* A process that moves past the failure check brings its count along.
LEMMA CountedMove ==
  ASSUME IInv, NEW k \in 1 .. MaxFailures, Counted(k),
         NEW p \in Procs, NEW step, Goto(p, step), UNCHANGED seen, bot'.failures >= k,
         p \in Slots /\ step \in {"setup", "trade", "report"}
           => pc[p] \in {"setup", "trade", "report"}
  PROVE  Counted(k)'
BY DEF Goto, Counted, IInv, TypeOK

LEMMA CountedRequest ==
  ASSUME IInv, NEW k \in 1 .. MaxFailures, Counted(k), ~ Started,
         NEW r \in Requests, RequestStep(r) \/ Abort(r)
  PROVE  Counted(k)'
<1>1. CASE WriteStatus(r)
  <2>1. pc[r] = "write" /\ Goto(r, "cancel")
    BY <1>1 DEF WriteStatus
  <2>2. op[r] # "start"
    BY <2>1 DEF Started, Goto, IInv, TypeOK
  <2>3. bot'.failures = bot.failures
    BY <1>1, <2>2 DEF WriteStatus, IInv, TypeOK, Bots
  <2>4. QED
    BY <1>1, <2>1, <2>3 DEF WriteStatus, slotVars, Goto, Counted, IInv, TypeOK
<1>2. CASE WriteMissing(r) \/ WriteConfig(r) \/ Register(r) \/ Destroy(r) \/ Abort(r)
  BY <1>2 DEF WriteMissing, WriteConfig, Register, Destroy, Abort, slotVars, Goto, Counted,
              IInv, TypeOK, Bots
<1>3. QED
  BY <1>1, <1>2 DEF RequestStep

\* A cycle counts one more than it read, and reads what every cycle has counted.
LEMMA CountedCycle ==
  ASSUME IInv, NEW k \in 1 .. MaxFailures, Counted(k), ~ Succeeded,
         NEW w \in Slots, CycleStep(w) \/ Throw(w) \/ ThrowAfterAdd(w)
  PROVE  Counted(k)'
<1> USE DEF IInv, TypeOK
<1>1. CASE Load(w) \/ Reset(w)
  <2>1. UNCHANGED bot /\ bot.failures \in Nat
    BY <1>1 DEF Load, Reset, Bots
  <2>2. PICK step : Goto(w, step) /\ (step = "setup" => bot.failures < MaxFailures)
                                 /\ step \notin {"trade", "report"}
    BY <1>1 DEF Load, Reset, FirstStep, FailureCheck, Bots
  <2>3. /\ seen' \in [Slots -> Nat]
        /\ \A v \in Slots \ {w} : seen'[v] = seen[v]
        /\ step = "setup" => seen'[w] = bot.failures
    BY <1>1, <2>1, <2>2 DEF Load, Reset, Goto
  <2>4. QED
    BY <2>1, <2>2, <2>3 DEF Goto, Counted
<1>2. CASE Skip(w) \/ OpenRun(w) \/ Trade(w) \/ Throw(w)
  BY <1>2, CountedMove DEF Skip, OpenRun, Trade, Throw, slotVars, Counted
<1>3. CASE Reschedule(w) \/ ThrowAfterAdd(w)
  BY <1>3, CountedMove DEF Reschedule, ThrowAfterAdd, Registers, slotVars, Counted
<1>4. CASE PauseBot(w)
  BY <1>4, CountedMove DEF PauseBot, slotVars, Counted, Bots
<1>5. CASE Finish(w) \/ Fail(w)
  BY <1>5 DEF Finish, Fail, Release, Goto, Counted
<1>6. CASE Report(w)
  <2>1. CASE bot.status = "deleted"
    BY <1>6, <2>1, CountedMove DEF Report, slotVars, Counted
  <2>2. CASE bot.status # "deleted"
    <3>1. pc[w] = "report" /\ Goto(w, "next") /\ UNCHANGED seen
      BY <1>6, <2>2 DEF Report, slotVars
    <3>2. result[w] \notin {"ok", "mixed"}
      BY <3>1 DEF Goto, Succeeded
    <3>3. bot'.failures = FailuresAfter(w)
      <4>1. FailuresAfter(w) \in Nat
        BY <3>2 DEF FailuresAfter, Results, Bots
      <4>2. PICK f \in Nat, b \in BOOLEAN : /\ f = FailuresAfter(w)
                                            /\ bot' = [bot EXCEPT !.failures = f, !.cooling = b]
        BY <1>6, <2>2, <4>1, Zenon DEF Report
      <4>3. QED
        BY <4>2 DEF Bots
    <3>4. FailuresAfter(w) >= k
      <4>1. seen[w] >= k /\ bot.failures >= k /\ seen[w] \in Nat
        BY <3>1 DEF Counted
      <4>2. CASE result[w] = "failed"
        BY <4>1, <4>2 DEF FailuresAfter
      <4>3. CASE result[w] # "failed"
        BY <3>2, <4>1, <4>3 DEF FailuresAfter
      <4>4. QED
        BY <4>2, <4>3
    <3>5. QED
      BY <3>1, <3>3, <3>4, CountedMove
  <2>3. QED
    BY <2>1, <2>2
<1>7. QED
  BY <1>1, <1>2, <1>3, <1>4, <1>5, <1>6 DEF CycleStep

LEMMA CountedNext ==
  ASSUME IInv, [Next]_vars, NEW k \in 1 .. MaxFailures, Counted(k), ~ Started, ~ Succeeded
  PROVE  Counted(k)'
<1>1. CASE \E r \in Requests : RequestStep(r) \/ Abort(r)
  BY <1>1, CountedRequest
<1>2. CASE \E w \in Slots : CycleStep(w) \/ Throw(w) \/ ThrowAfterAdd(w)
  BY <1>2, CountedCycle
<1>3. CASE \E w \in Slots : LoseLock(w) \/ Crash(w)
  BY <1>3 DEF LoseLock, Crash, Release, Goto, Counted, IInv, TypeOK
<1>4. CASE \E p \in Procs : CancelStep(p)
  <2>1. PICK p \in Procs : CancelStep(p)
    BY <1>4
  <2>2. CASE CancelListed(p)
    BY <2>2 DEF CancelListed, slotVars, Counted
  <2>3. CASE CancelList(p) \/ CancelFixed(p)
    BY <2>3, CountedMove DEF CancelList, CancelFixed, AfterCancel, slotVars, Counted
  <2>4. QED
    BY <2>1, <2>2, <2>3 DEF CancelStep
<1>5. CASE \E w \in Slots, j \in JobIds : Take(w, j)
  BY <1>5, CountedMove DEF Take, Counted
<1>6. CASE \/ \E r \in Requests, o \in Ops : Receive(r, o)
           \/ \E j \in JobIds : JobDue(j) \/ StallCheck(j)
           \/ UNCHANGED vars
  BY <1>6 DEF Receive, JobDue, StallCheck, vars, slotVars, Counted, IInv, TypeOK
<1>7. CASE CooldownOver
  BY <1>7 DEF CooldownOver, slotVars, Counted, IInv, TypeOK, Bots
<1>8. QED
  BY <1>1, <1>2, <1>3, <1>4, <1>5, <1>6, <1>7 DEF Next

\* Failures that every cycle of the bot has counted are forgotten only by a start or
\* a success, for any number of overlapping, dying and stale cycles; a bot that has
\* failed MaxFailures times and has no older cycle under way trades no more.
THEOREM FailuresCounted == SafeSpec => FailuresStand
<1>1. IInv /\ [Next]_vars
        => [\A k \in 1 .. MaxFailures :
              Counted(k) => \/ Counted(k)'
                            \/ Started
                            \/ Succeeded]_vars
  BY CountedNext
<1>2. QED
  BY <1>1, Invariance, PTL DEF SafeSpec, FailuresStand
=============================================================================
