---------------------------- MODULE BotLifecycle ----------------------------
(***************************************************************************)
(* The life of one bot: the HTTP handlers that start, pause, resume, stop, *)
(* edit and delete it, the BullMQ queue that carries its cycles, and the   *)
(* execution worker that runs them.                                        *)
(*                                                                         *)
(* Every handler and every cycle is a sequence of awaited database and     *)
(* Redis calls, and the API and the worker run in several replicas, so     *)
(* each awaited call is a step of its own.  All operations are keyed by    *)
(* the bot's id; other bots only compete for worker slots.                 *)
(***************************************************************************)
EXTENDS Naturals, FiniteSets

CONSTANTS
  Requests,     \* HTTP requests that can be in flight at the same time
  Slots,        \* worker slots: WORKER_CONCURRENCY in each replica
  FixedId,      \* the job id "bot-<id>" that start and resume register
  NextIds,      \* the job ids "bot-<id>-<now>" of the following cycles
  NoJob,        \* what an idle slot works on
  Ops,          \* the requests clients send
  Configs,      \* the editable settings of a bot
  MaxFailures,  \* consecutive failures at which the worker pauses the bot
  MaxRequests,  \* bound: how many admitted requests a behaviour has
  MaxFaults,    \* bound: how many faults a behaviour has
  Faults        \* which faults may happen

AllOps == {"start", "pause", "resume", "stop", "delete", "update"}
AllFaults == {
  "abort",   \* an API replica dies, or a call fails, in the middle of a request
  "throw",   \* a call of a cycle fails: RPC, database, an undecryptable wallet
  "stall" }  \* a worker dies or loses the lock of the job it is running

JobIds == NextIds \union {FixedId}
Procs == Requests \union Slots

ASSUME ConstantsOK ==
  /\ Requests \intersect Slots = {}
  /\ FixedId \notin NextIds
  /\ JobIds \intersect Slots = {}
  /\ NoJob \notin JobIds
  /\ Ops \subseteq AllOps
  /\ Configs # {}
  /\ MaxFailures \in Nat \ {0}
  /\ MaxRequests \in Nat
  /\ MaxFaults \in Nat
  /\ Faults \subseteq AllFaults

VARIABLES
  bot,       \* the bot's row; status "deleted" stands for no row
  job,       \* state of every job in BullMQ
  requeued,  \* jobs BullMQ has already put back once after a stall
  pc,        \* next step of every request and slot
  op,        \* what each request asks for
  snap,      \* jobs a running cancelBotExecution has listed and not yet removed
  cur,       \* job each slot is running
  owned,     \* slots that still hold the lock of their job
  seen,      \* consecutiveFailures as each cycle read it when it began
  result,    \* how the intents of each cycle went
  budget,    \* admitted requests left under MaxRequests
  mishaps    \* faults left under MaxFaults

queueVars == <<job, requeued>>
slotVars == <<cur, owned, seen, result>>
bounds == <<budget, mishaps>>
vars == <<bot, job, requeued, pc, op, snap, cur, owned, seen, result,
          budget, mishaps>>

Statuses == {"draft", "active", "paused", "stopped", "errored", "deleted"}
Bots == [status : Statuses, failures : 0 .. MaxFailures,
         cooling : BOOLEAN, config : Configs]
\* "stalled" is an active job nobody holds the lock of any more.
JobStates == {"none", "delayed", "waiting", "active", "stalled", "failed"}
\* "mixed": some intents submitted, some failed; "empty": there were no intents.
Results == {"ok", "mixed", "failed", "empty"}
RequestSteps == {"idle", "write", "cancel", "remove", "add", "destroy"}
SlotSteps == {"idle", "load", "reset", "setup", "trade", "report", "next",
              "pause", "cancel", "remove", "finish", "fail"}

DraftBot(c) == [status |-> "draft", failures |-> 0, cooling |-> FALSE, config |-> c]

\* The row createBot inserts, before any other request.
Init ==
  \E c \in Configs :
    /\ bot = DraftBot(c)
    /\ job = [j \in JobIds |-> "none"]
    /\ requeued = {}
    /\ pc = [p \in Procs |-> "idle"]
    /\ op = [r \in Requests |-> "none"]
    /\ snap = [p \in Procs |-> {}]
    /\ cur = [w \in Slots |-> NoJob]
    /\ owned = {}
    /\ seen = [w \in Slots |-> 0]
    /\ result = [w \in Slots |-> "empty"]
    /\ budget = MaxRequests
    /\ mishaps = MaxFaults

\* A fault of this kind happens now.
Fault(kind) == kind \in Faults /\ mishaps > 0 /\ mishaps' = mishaps - 1 /\ UNCHANGED budget

\* A process moves to another step; a request that ends forgets what it was.
Goto(p, step) ==
  /\ pc' = [pc EXCEPT ![p] = step]
  /\ op' = [r \in Requests |-> IF r = p /\ step = "idle" THEN "none" ELSE op[r]]

-----------------------------------------------------------------------------
(* BullMQ, as the scheduler and the worker use it.                         *)

\* add() with the id of a job that still exists changes nothing.
Added(j) ==
  IF job[j] = "none"
  THEN job' = [job EXCEPT ![j] = "delayed"] /\ requeued' = requeued \ {j}
  ELSE UNCHANGED queueVars

\* remove() fails on a job whose lock is held; the scheduler ignores that.
Removed(j) ==
  /\ job' = IF job[j] = "active" THEN job ELSE [job EXCEPT ![j] = "none"]
  /\ UNCHANGED requeued

\* The clock never repeats an id, so an id still referred to is not fresh; the
\* record of a failed cycle is never looked up, so its id may serve again.
Fresh(j) ==
  /\ j \in NextIds
  /\ job[j] \in {"none", "failed"}
  /\ \A p \in Procs : j \notin snap[p]
  /\ \A w \in Slots : cur[w] # j

\* A delay of intervalSeconds, jittered, is over.
JobDue(j) ==
  /\ job[j] = "delayed"
  /\ job' = [job EXCEPT ![j] = "waiting"]
  /\ UNCHANGED <<bot, requeued, pc, op, snap, slotVars, bounds>>

\* The stalled-job check: once back to the queue (maxStalledCount), then failed.
StallCheck(j) ==
  /\ job[j] = "stalled"
  /\ job' = [job EXCEPT ![j] = IF j \in requeued THEN "failed" ELSE "waiting"]
  /\ requeued' = requeued \union {j}
  /\ UNCHANGED <<bot, pc, op, snap, slotVars, bounds>>

-----------------------------------------------------------------------------
(* cancelBotExecution, run by requests and by the worker's own pause.      *)

AfterCancel(p) ==
  IF p \in Slots THEN "finish"
  ELSE CASE op[p] \in {"start", "resume"} -> "add"
         [] op[p] = "delete" -> "destroy"
         [] OTHER -> "idle"

CancelList(p) ==
  /\ pc[p] = "cancel"
  /\ snap' = [snap EXCEPT ![p] = {j \in JobIds : job[j] \in {"delayed", "waiting"}}]
  /\ Goto(p, "remove")
  /\ UNCHANGED <<bot, queueVars, slotVars, bounds>>

\* Promise.all: the listed jobs are removed in any order.
CancelListed(p) ==
  \E j \in snap[p] :
    /\ pc[p] = "remove"
    /\ Removed(j)
    /\ snap' = [snap EXCEPT ![p] = @ \ {j}]
    /\ UNCHANGED <<bot, pc, op, slotVars, bounds>>

CancelFixed(p) ==
  /\ pc[p] = "remove"
  /\ snap[p] = {}
  /\ Removed(FixedId)
  /\ Goto(p, AfterCancel(p))
  /\ UNCHANGED <<bot, snap, slotVars, bounds>>

-----------------------------------------------------------------------------
(* The HTTP handlers.  Each loads the row, answers 404 or 409 without a     *)
(* change unless the status admits the request, and then acts on the row    *)
(* whatever its status has become by then.                                  *)

AdmittedFrom == [
  start  |-> {"draft", "paused", "stopped", "errored"},
  pause  |-> {"active"},
  resume |-> {"paused"},
  stop   |-> Statuses \ {"deleted"},
  delete |-> Statuses \ {"active", "deleted"},
  update |-> {"draft", "paused"}]

StatusAfter == [start |-> "active", resume |-> "active",
                pause |-> "paused", stop |-> "stopped"]

Receive(r, o) ==
  /\ pc[r] = "idle"
  /\ budget > 0
  /\ bot.status \in AdmittedFrom[o]
  /\ pc' = [pc EXCEPT ![r] = IF o = "delete" THEN "cancel" ELSE "write"]
  /\ op' = [op EXCEPT ![r] = o]
  /\ budget' = budget - 1
  /\ UNCHANGED <<bot, queueVars, snap, slotVars, mishaps>>

\* The row is gone: prisma rejects the update (P2025) and the request fails.
WriteMissing(r) ==
  /\ pc[r] = "write"
  /\ bot.status = "deleted"
  /\ Goto(r, "idle")
  /\ UNCHANGED <<bot, queueVars, snap, slotVars, bounds>>

WriteStatus(r) ==
  /\ pc[r] = "write"
  /\ op[r] # "update"
  /\ bot.status # "deleted"
  /\ bot' = [bot EXCEPT !.status = StatusAfter[op[r]],
                        !.failures = IF op[r] = "start" THEN 0 ELSE @]
  /\ Goto(r, "cancel")
  /\ UNCHANGED <<queueVars, snap, slotVars, bounds>>

WriteConfig(r) ==
  /\ pc[r] = "write"
  /\ op[r] = "update"
  /\ bot.status # "deleted"
  /\ \E c \in Configs : bot' = [bot EXCEPT !.config = c]
  /\ Goto(r, "idle")
  /\ UNCHANGED <<queueVars, snap, slotVars, bounds>>

\* The add of scheduleBotExecution, after its cancel.
Register(r) ==
  /\ pc[r] = "add"
  /\ Added(FixedId)
  /\ Goto(r, "idle")
  /\ UNCHANGED <<bot, snap, slotVars, bounds>>

\* The transaction of deleteBot; it fails when the row is already gone.
Destroy(r) ==
  /\ pc[r] = "destroy"
  /\ bot' = [bot EXCEPT !.status = "deleted"]
  /\ Goto(r, "idle")
  /\ UNCHANGED <<queueVars, snap, slotVars, bounds>>

Abort(r) ==
  /\ Fault("abort")
  /\ pc[r] # "idle"
  /\ Goto(r, "idle")
  /\ snap' = [snap EXCEPT ![r] = {}]
  /\ UNCHANGED <<bot, queueVars, slotVars>>

-----------------------------------------------------------------------------
(* The execution worker: a slot takes a job and runs processExecutionJob.   *)

Take(w, j) ==
  /\ pc[w] = "idle"
  /\ job[j] = "waiting"
  /\ job' = [job EXCEPT ![j] = "active"]
  /\ cur' = [cur EXCEPT ![w] = j]
  /\ owned' = owned \union {w}
  /\ Goto(w, "load")
  /\ UNCHANGED <<bot, requeued, snap, seen, result, bounds>>

\* Mutant of FailureCheck: one failure too many.
FailureCheckLate == IF bot.failures > MaxFailures THEN "pause" ELSE "setup"

FailureCheck == IF bot.failures >= MaxFailures THEN "pause" ELSE "setup"

\* Mutant of FirstStep: the status check is missing.
FirstStepUnchecked(newDay) ==
  IF bot.cooling THEN "next" ELSE IF newDay THEN "reset" ELSE FailureCheck

\* What the cycle does with the row it has read.
FirstStep(newDay) ==
  IF bot.status # "active" THEN "finish"
  ELSE IF bot.cooling THEN "next"
  ELSE IF newDay THEN "reset"
  ELSE FailureCheck

Load(w) ==
  /\ pc[w] = "load"
  /\ seen' = [seen EXCEPT ![w] = bot.failures]
  /\ \E newDay \in BOOLEAN : Goto(w, FirstStep(newDay))
  /\ UNCHANGED <<bot, queueVars, snap, cur, owned, result, bounds>>

\* resetBotDailyNotional returns the row as it is now; its status is not checked
\* again, and the update fails when the bot has been deleted.
Reset(w) ==
  /\ pc[w] = "reset"
  /\ IF bot.status = "deleted"
     THEN Goto(w, "fail") /\ UNCHANGED seen
     ELSE seen' = [seen EXCEPT ![w] = bot.failures] /\ Goto(w, FailureCheck)
  /\ UNCHANGED <<bot, queueVars, snap, cur, owned, result, bounds>>

\* Mutant of Skip: returns without registering the next cycle.
SkipForGood(w) ==
  /\ pc[w] = "setup"
  /\ Goto(w, "finish")
  /\ UNCHANGED <<bot, queueVars, snap, slotVars, bounds>>

\* The wallet group is empty or the daily cap is reached: try again later.
Skip(w) ==
  /\ pc[w] = "setup"
  /\ Goto(w, "next")
  /\ UNCHANGED <<bot, queueVars, snap, slotVars, bounds>>

\* botRun.create, refused by the foreign key when the bot is gone.
OpenRun(w) ==
  /\ pc[w] = "setup"
  /\ Goto(w, IF bot.status = "deleted" THEN "fail" ELSE "trade")
  /\ UNCHANGED <<bot, queueVars, snap, slotVars, bounds>>

\* The intents of the cycle, one after the other; module Execution has their steps.
Trade(w) ==
  /\ pc[w] = "trade"
  /\ \E res \in Results : result' = [result EXCEPT ![w] = res]
  /\ Goto(w, "report")
  /\ UNCHANGED <<bot, queueVars, snap, cur, owned, seen, bounds>>

\* Mutant of FailuresAfter: a cycle without intents resets the counter as well.
FailuresForgotten(w) == IF result[w] = "failed" THEN seen[w] + 1 ELSE 0

\* consecutiveFailures is computed from the row as it was when the cycle began.
FailuresAfter(w) ==
  CASE result[w] \in {"ok", "mixed"} -> 0
    [] result[w] = "failed" -> seen[w] + 1
    [] OTHER -> bot.failures

\* botRun.update and bot.update; both fail when the bot has been deleted.
Report(w) ==
  /\ pc[w] = "report"
  /\ IF bot.status = "deleted"
     THEN Goto(w, "fail") /\ UNCHANGED bot
     ELSE /\ bot' = [bot EXCEPT !.failures = FailuresAfter(w),
                                !.cooling = @ \/ result[w] \in {"mixed", "failed"}]
          /\ Goto(w, "next")
  /\ UNCHANGED <<queueVars, snap, slotVars, bounds>>

\* scheduleNextRun: whatever the bot's status is by now.
Registers(w, step) ==
  /\ pc[w] = "next"
  /\ \E j \in NextIds : Fresh(j) /\ job' = [job EXCEPT ![j] = "delayed"]
                                 /\ requeued' = requeued \ {j}
  /\ Goto(w, step)
  /\ UNCHANGED <<bot, snap, slotVars>>

Reschedule(w) == Registers(w, "finish") /\ UNCHANGED bounds

\* Too many failures: pause, whatever the status is by now, then cancel.
PauseBot(w) ==
  /\ pc[w] = "pause"
  /\ IF bot.status = "deleted"
     THEN Goto(w, "fail") /\ UNCHANGED bot
     ELSE bot' = [bot EXCEPT !.status = "paused"] /\ Goto(w, "cancel")
  /\ UNCHANGED <<queueVars, snap, slotVars, bounds>>

CooldownOver ==
  /\ bot.cooling
  /\ bot' = [bot EXCEPT !.cooling = FALSE]
  /\ UNCHANGED <<queueVars, pc, op, snap, slotVars, bounds>>

\* A slot forgets its cycle; only the holder of the lock settles the job.
Release(w, outcome) ==
  /\ job' = IF w \in owned THEN [job EXCEPT ![cur[w]] = outcome] ELSE job
  /\ cur' = [cur EXCEPT ![w] = NoJob]
  /\ owned' = owned \ {w}
  /\ seen' = [seen EXCEPT ![w] = 0]
  /\ result' = [result EXCEPT ![w] = "empty"]
  /\ Goto(w, "idle")
  /\ UNCHANGED <<bot, requeued>>

\* Mutant of Finish: the job repeats, although its cycle registered the next one.
FinishAndRepeat(w) ==
  pc[w] = "finish" /\ Release(w, "delayed") /\ UNCHANGED <<snap, bounds>>

\* removeOnComplete.
Finish(w) == pc[w] = "finish" /\ Release(w, "none") /\ UNCHANGED <<snap, bounds>>

\* The processor threw: one attempt only, nothing registers the next cycle.
Fail(w) == pc[w] = "fail" /\ Release(w, "failed") /\ UNCHANGED <<snap, bounds>>

Throw(w) ==
  /\ Fault("throw")
  /\ pc[w] \in {"load", "reset", "setup", "trade", "report", "next", "pause", "cancel"}
  /\ Goto(w, "fail")
  /\ UNCHANGED <<bot, queueVars, snap, slotVars>>

\* getJobCounts fails after the add: the job fails, its successor is registered.
ThrowAfterAdd(w) == Fault("throw") /\ Registers(w, "fail")

\* The worker cannot renew its lock in time but goes on with the cycle.
LoseLock(w) ==
  /\ Fault("stall")
  /\ w \in owned
  /\ job' = [job EXCEPT ![cur[w]] = "stalled"]
  /\ owned' = owned \ {w}
  /\ UNCHANGED <<bot, requeued, pc, op, snap, cur, seen, result>>

Crash(w) ==
  /\ Fault("stall")
  /\ pc[w] # "idle"
  /\ Release(w, "stalled")
  /\ snap' = [snap EXCEPT ![w] = {}]

-----------------------------------------------------------------------------
RequestStep(r) ==
  \/ WriteMissing(r)
  \/ WriteStatus(r)
  \/ WriteConfig(r)
  \/ Register(r)
  \/ Destroy(r)

CycleStep(w) ==
  \/ Load(w)
  \/ Reset(w)
  \/ Skip(w)
  \/ OpenRun(w)
  \/ Trade(w)
  \/ Report(w)
  \/ Reschedule(w)
  \/ PauseBot(w)
  \/ Finish(w)
  \/ Fail(w)

CancelStep(p) == CancelList(p) \/ CancelListed(p) \/ CancelFixed(p)

Next ==
  \/ \E r \in Requests, o \in Ops : Receive(r, o)
  \/ \E r \in Requests : RequestStep(r) \/ Abort(r)
  \/ \E p \in Procs : CancelStep(p)
  \/ \E j \in JobIds : JobDue(j) \/ StallCheck(j)
  \/ \E w \in Slots, j \in JobIds : Take(w, j)
  \/ \E w \in Slots : CycleStep(w) \/ Throw(w) \/ ThrowAfterAdd(w) \/ LoseLock(w) \/ Crash(w)
  \/ CooldownOver

(* Handlers and cycles that have begun go on unless a fault ends them,      *)
(* timers fire, and the waiting list is served in order, so a job that      *)
(* waits is taken before a slot has been free for ever.  Clients owe        *)
(* nothing: no request has to arrive.                                       *)
Fairness ==
  /\ \A r \in Requests : WF_vars(RequestStep(r))
  /\ \A p \in Procs : WF_vars(CancelStep(p))
  /\ \A w \in Slots : WF_vars(CycleStep(w))
  /\ \A j \in JobIds : /\ WF_vars(JobDue(j))
                       /\ WF_vars(StallCheck(j))
                       /\ SF_vars(\E w \in Slots : Take(w, j))
  /\ WF_vars(CooldownOver)

SafeSpec == Init /\ [][Next]_vars
Spec == SafeSpec /\ Fairness

-----------------------------------------------------------------------------
(* Properties.                                                              *)

\* Every variable has its type; in particular, however the cycles of one bot
\* interleave, consecutiveFailures never passes the pausing threshold.
TypeOK ==
  /\ bot \in Bots
  /\ job \in [JobIds -> JobStates]
  /\ requeued \subseteq JobIds
  /\ pc \in [Procs -> RequestSteps \union SlotSteps]
  /\ op \in [Requests -> AllOps \union {"none"}]
  /\ snap \in [Procs -> SUBSET JobIds]
  /\ cur \in [Slots -> JobIds \union {NoJob}]
  /\ owned \subseteq Slots
  /\ seen \in [Slots -> 0 .. MaxFailures]
  /\ result \in [Slots -> Results]
  /\ budget \in 0 .. MaxRequests
  /\ mishaps \in 0 .. MaxFaults

\* The cycles still to come: jobs that will start one, and slots whose cycle
\* has not yet registered its successor.
PendingJobs == {j \in JobIds : job[j] \in {"delayed", "waiting", "stalled"}}
OpenCycles == {w \in Slots : pc[w] \in {"load", "reset", "setup", "trade", "report", "next"}}
Carriers == PendingJobs \union OpenCycles

Quiet == \A r \in Requests : pc[r] = "idle"

\* What TypeOK rests on: requests and slots keep to their own
\* steps, a write knows its request, a cycle past the check began below the
\* threshold, and locks and active jobs correspond one to one.
IInv ==
  /\ TypeOK
  /\ \A r \in Requests : /\ pc[r] \in RequestSteps
                         /\ pc[r] = "write" => op[r] \in DOMAIN StatusAfter \union {"update"}
  /\ \A w \in Slots : /\ pc[w] \in SlotSteps
                      /\ pc[w] = "idle" => w \notin owned
                      /\ pc[w] \in {"setup", "trade", "report"} => seen[w] < MaxFailures
  /\ \A w \in owned : cur[w] \in JobIds /\ job[cur[w]] = "active"
  /\ \A w, v \in owned : cur[w] = cur[v] => w = v
  /\ \A j \in JobIds : job[j] = "active" => \E w \in owned : cur[w] = j

\* The worker replaces its job by at most one successor: before any fault, only
\* the add of a start or resume raises the number of cycles to come
\* (scheduleNextRun); afterwards a stalled job may run a second time.
OnlyRequestsFork ==
  [][Cardinality(Carriers') > Cardinality(Carriers)
       => \/ \E r \in Requests : pc[r] = "add" /\ pc'[r] = "idle"
          \/ mishaps' < MaxFaults]_vars

\* The row and every cycle past the failure check count at least k failures; at
\* MaxFailures no cycle is past it.
Counted(k) ==
  /\ bot.failures >= k
  /\ \A w \in Slots : pc[w] \in {"setup", "trade", "report"}
                      => seen[w] >= k /\ k < MaxFailures

\* A start writes the row now; a cycle with a success does.
Started == \E r \in Requests : op[r] = "start" /\ pc[r] = "write" /\ pc'[r] = "cancel"
Succeeded ==
  \E w \in Slots : pc[w] = "report" /\ pc'[w] = "next" /\ result[w] \in {"ok", "mixed"}

\* Overlapping cycles overwrite each other's consecutiveFailures, but failures
\* that every cycle has counted stay counted until a start or a cycle with a success
\* resets them.  At MaxFailures: a bot that has failed too often trades no more,
\* whatever resumes it, however stale the cycles are that end, and whoever dies
\* (the check and the write of processExecutionJob, resumeBot).
FailuresStand ==
  [][\A k \in 1 .. MaxFailures :
       Counted(k) => \/ Counted(k)'
                     \/ Started
                     \/ Succeeded]_vars

\* As long as no call has failed, the last cycle to come is lost only to a cancel, or
\* because the bot is not active or has failed too often: cooldown, an empty
\* wallet group and failed trades never end the chain (processExecutionJob).
ChainEndsForAReason ==
  [][Carriers # {} /\ Carriers' = {} =>
       \/ \E p \in Procs : pc[p] = "remove" /\ <<pc'[p], snap'[p]>> # <<pc[p], snap[p]>>
       \/ bot.status # "active"
       \/ bot.failures >= MaxFailures
       \/ mishaps' < MaxFaults]_vars

\* Jobs that outlive a pause or a stop do not outlive it for ever: when the bot
\* stays inactive and no request comes, the queue and the slots fall silent.
InactiveBotDrains ==
  <>[](Quiet /\ bot.status # "active")
     => <>[](PendingJobs = {} /\ \A w \in Slots : pc[w] = "idle")

\* The slots past the status check and not yet done with their trades.
TradingSteps == {"reset", "setup", "trade"}
Trading == {w \in Slots : pc[w] \in TradingSteps}

Gate == INSTANCE TradingGate WITH on <- bot.status = "active", inside <- Trading

\* The code keeps the promise of TradingGate, faults and races included.
ImplementsGate == Gate!Spec
ImplementsGateSafety == Gate!SafeSpec

=============================================================================
