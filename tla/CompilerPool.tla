---------------------------- MODULE CompilerPool ----------------------------
(***************************************************************************)
(* The scheduler of service/pool.py after start() has returned: a bounded  *)
(* FIFO of jobs, one asyncio task per worker slot, the callers of          *)
(* compile(), and the callers of close().                                  *)
(*                                                                         *)
(* All of it runs on ONE event loop, so a coroutine keeps the loop from    *)
(* one await to the next.  Most actions below are a whole such segment.    *)
(* The dispatch loop of _run_worker may take several jobs in a segment;    *)
(* while it does, current names the task that holds the loop and only time *)
(* and the worker processes, which are outside the loop, may move.         *)
(*                                                                         *)
(* An operator named Action_Deviation is not part of the specification: it *)
(* is Action with a plausible mistake, kept to show that a property of the *)
(* runs notices the mistake.                                               *)
(***************************************************************************)
EXTENDS Integers, Sequences, FiniteSets, SequencesExt

CONSTANTS
  Workers,         \* worker slots: the indices of _backends and _tasks
  Requests,        \* calls of compile(); each is made at most once
  Closers,         \* calls of close()
  QueueCapacity,   \* _queue_capacity
  None             \* not a worker and not a request

ASSUME PoolAssumption ==
  /\ IsFiniteSet(Workers) /\ Workers # {}
  /\ IsFiniteSet(Requests)
  /\ QueueCapacity \in Nat \ {0}
  /\ None \notin Workers \cup Requests

VARIABLES
  poolState,       \* _state, from the end of start() on
  queue,           \* _queue
  eventSet,        \* the flag of the asyncio.Event _jobs_available
  parked,          \* tasks whose waiter in that event has not been woken
  current,         \* the task holding the loop inside the dispatch loop
  pc,              \* [Workers -> where the slot's task is]
  job,             \* [Workers -> the item being compiled, or None]
  cancelPending,   \* [Workers -> task.cancel() called and not yet delivered]
  process,         \* [Workers -> the process of _backends[w]; a "stray" one lives,
                   \*   but the backend.close() that had to end it raised]
  pipe,            \* [Workers -> what that process owes on its stdout]
  activeWorkers, readyWorkers, replacements,
  future,          \* [Requests -> the job's future]
  stage,           \* [Requests -> started and execution_started_at of the job]
  expired,         \* [Requests -> the loop's clock has passed the deadline]
  interrupts,      \* [Requests -> pending cancellations of the caller's task]
  answer,          \* [Requests -> how compile() returned or raised]
  closer           \* [Closers -> where a close() call is]

reqVars   == <<future, stage, expired, interrupts, answer>>
slotVars  == <<pc, job, cancelPending, process, pipe>>
countVars == <<activeWorkers, readyWorkers, replacements>>
loopVars  == <<queue, eventSet, parked, current>>
vars == <<poolState, loopVars, slotVars, countVars, reqVars, closer>>

Serving    == {"created", "looping", "waiting", "compiling"}
Recovering == {"closingOld", "starting", "closingFailed", "backoff"}
Outcome    == {"result", "timeout", "workerError", "closed"}

TypeOK ==
  /\ poolState \in {"running", "closing", "closed"}
  /\ queue \in Seq(Requests)
  /\ eventSet \in BOOLEAN
  /\ parked \in SUBSET Workers
  /\ current \in Workers \cup {None}
  /\ pc \in [Workers -> Serving \cup Recovering \cup {"closingCancelled", "ended"}]
  /\ job \in [Workers -> Requests \cup {None}]
  /\ cancelPending \in [Workers -> BOOLEAN]
  /\ process \in [Workers -> {"live", "stray", "dead"}]
  /\ pipe \in [Workers -> {"clean", "busy", "reply"}]
  /\ activeWorkers \in Nat /\ readyWorkers \in Nat /\ replacements \in Nat
  /\ future \in [Requests -> {"none", "pending", "cancelled"} \cup Outcome]
  /\ stage \in [Requests -> {"new", "queued", "taken", "executing"}]
  /\ expired \in [Requests -> BOOLEAN]
  /\ interrupts \in [Requests -> SUBSET {"timer", "cancel"}]
  /\ answer \in [Requests -> {"none", "overloaded", "cancelled"} \cup Outcome]
  /\ closer \in [Closers -> {"idle", "waitTasks", "waitBackends", "returned"}]

Init ==
  /\ poolState = "running"
  /\ queue = <<>> /\ eventSet = FALSE /\ parked = {} /\ current = None
  /\ pc = [w \in Workers |-> "created"]
  /\ job = [w \in Workers |-> None]
  /\ cancelPending = [w \in Workers |-> FALSE]
  /\ process = [w \in Workers |-> "live"]
  /\ pipe = [w \in Workers |-> "clean"]
  /\ activeWorkers = 0 /\ readyWorkers = Cardinality(Workers) /\ replacements = 0
  /\ future = [r \in Requests |-> "none"]
  /\ stage = [r \in Requests |-> "new"]
  /\ expired = [r \in Requests |-> FALSE]
  /\ interrupts = [r \in Requests |-> {}]
  /\ answer = [r \in Requests |-> "none"]
  /\ closer = [c \in Closers |-> "idle"]

-----------------------------------------------------------------------------
(* Futures.  Every writer but the caller tests future.done() first.        *)

Pending(r) == future[r] = "pending"

Settle_Unguarded(r, outcome) == future' = [future EXCEPT ![r] = outcome]

Settle(r, outcome) ==
  future' = [future EXCEPT ![r] = IF Pending(r) THEN outcome ELSE @]

LoopFree == current = None

-----------------------------------------------------------------------------
(* The callers of compile().                                               *)

RefuseClosed(r) ==
  /\ LoopFree /\ answer[r] = "none" /\ future[r] = "none"
  /\ poolState # "running"
  /\ answer' = [answer EXCEPT ![r] = "closed"]
  /\ UNCHANGED <<poolState, loopVars, slotVars, countVars, closer,
                 future, stage, expired, interrupts>>

RefuseOverloaded(r) ==
  /\ LoopFree /\ answer[r] = "none" /\ future[r] = "none"
  /\ poolState = "running" /\ Len(queue) >= QueueCapacity
  /\ answer' = [answer EXCEPT ![r] = "overloaded"]
  /\ UNCHANGED <<poolState, loopVars, slotVars, countVars, closer,
                 future, stage, expired, interrupts>>

(* Event.set() wakes the waiters only when the flag was down. *)
EventSet ==
  /\ eventSet' = TRUE
  /\ parked' = IF eventSet THEN parked ELSE {}

Accept_NoSet(r) ==
  /\ LoopFree /\ answer[r] = "none" /\ future[r] = "none"
  /\ poolState = "running" /\ Len(queue) < QueueCapacity
  /\ queue' = Append(queue, r)
  /\ future' = [future EXCEPT ![r] = "pending"]
  /\ stage' = [stage EXCEPT ![r] = "queued"]
  /\ UNCHANGED <<poolState, eventSet, parked, current, slotVars, countVars, closer,
                 expired, interrupts, answer>>

Accept_AtFront(r) ==
  /\ LoopFree /\ answer[r] = "none" /\ future[r] = "none"
  /\ poolState = "running" /\ Len(queue) < QueueCapacity
  /\ queue' = <<r>> \o queue
  /\ EventSet
  /\ future' = [future EXCEPT ![r] = "pending"]
  /\ stage' = [stage EXCEPT ![r] = "queued"]
  /\ UNCHANGED <<poolState, current, slotVars, countVars, closer,
                 expired, interrupts, answer>>

Accept(r) ==
  /\ LoopFree /\ answer[r] = "none" /\ future[r] = "none"
  /\ poolState = "running" /\ Len(queue) < QueueCapacity
  /\ queue' = Append(queue, r)
  /\ EventSet
  /\ future' = [future EXCEPT ![r] = "pending"]
  /\ stage' = [stage EXCEPT ![r] = "queued"]
  /\ UNCHANGED <<poolState, current, slotVars, countVars, closer,
                 expired, interrupts, answer>>

Interrupt_KeepsFuture(r, source) ==
  /\ LoopFree /\ future[r] # "none" /\ answer[r] = "none"
  /\ source \notin interrupts[r]
  /\ interrupts' = [interrupts EXCEPT ![r] = @ \cup {source}]
  /\ UNCHANGED <<poolState, loopVars, slotVars, countVars, closer,
                 future, stage, expired, answer>>

(* The caller's task is interrupted, by its own deadline timer             *)
(* (asyncio.timeout_at) or by an outside task.cancel().  A cancelled task  *)
(* cancels the future it awaits; a future already settled is left alone    *)
(* and the cancellation is delivered when the task next runs.              *)
Interrupt(r, source) ==
  /\ LoopFree /\ future[r] # "none" /\ answer[r] = "none"
  /\ source \notin interrupts[r]
  /\ interrupts' = [interrupts EXCEPT ![r] = @ \cup {source}]
  /\ Settle(r, "cancelled")
  /\ UNCHANGED <<poolState, loopVars, slotVars, countVars, closer,
                 stage, expired, answer>>

CallerTimer(r)  == expired[r] /\ Interrupt(r, "timer")
CallerCancel(r) == Interrupt(r, "cancel")

Returned_AnyInterruptIsTimeout(r) ==
  IF interrupts[r] # {} THEN "timeout" ELSE future[r]

(* The caller's task runs again.  An outside cancellation wins over the    *)
(* timer, the timer over what the future holds.  The finally block gives   *)
(* the queue position back.                                                *)
Returned(r) ==
  IF "cancel" \in interrupts[r] THEN "cancelled"
  ELSE IF "timer" \in interrupts[r] THEN "timeout"
  ELSE future[r]

CallerWake_KeepsPlace(r) ==
  /\ LoopFree /\ answer[r] = "none" /\ future[r] \notin {"none", "pending"}
  /\ answer' = [answer EXCEPT ![r] = Returned(r)]
  /\ interrupts' = [interrupts EXCEPT ![r] = {}]
  /\ UNCHANGED <<poolState, queue, eventSet, parked, current, slotVars, countVars, closer,
                 future, stage, expired>>

CallerWake(r) ==
  /\ LoopFree /\ answer[r] = "none" /\ future[r] \notin {"none", "pending"}
  /\ answer' = [answer EXCEPT ![r] = Returned(r)]
  /\ interrupts' = [interrupts EXCEPT ![r] = {}]
  /\ queue' = IF stage[r] = "queued" THEN RemoveFirst(queue, r) ELSE queue
  /\ UNCHANGED <<poolState, eventSet, parked, current, slotVars, countVars, closer,
                 future, stage, expired>>

(* Time: the clock passes r's deadline, while somebody still looks at it.  *)
Expire(r) ==
  /\ future[r] # "none" /\ ~expired[r]
  /\ answer[r] = "none" \/ \E w \in Workers : job[w] = r
  /\ expired' = [expired EXCEPT ![r] = TRUE]
  /\ UNCHANGED <<poolState, loopVars, slotVars, countVars, closer,
                 future, stage, interrupts, answer>>

-----------------------------------------------------------------------------
(* A slot's task: the dispatch loop of _run_worker.                        *)

(* The task runs for the first time, or its event waiter has been woken.   *)
Resume(w) ==
  /\ LoopFree /\ ~cancelPending[w]
  /\ pc[w] = "created" \/ (pc[w] = "waiting" /\ w \notin parked)
  /\ current' = w
  /\ pc' = [pc EXCEPT ![w] = "looping"]
  /\ UNCHANGED <<poolState, queue, eventSet, parked, job, cancelPending, process, pipe,
                 countVars, reqVars, closer>>

Park(w) ==
  /\ current = w /\ queue = <<>>
  /\ eventSet' = FALSE
  /\ parked' = parked \cup {w}
  /\ pc' = [pc EXCEPT ![w] = "waiting"]
  /\ current' = None
  /\ UNCHANGED <<poolState, queue, job, cancelPending, process, pipe,
                 countVars, reqVars, closer>>

(* popleft() of a job whose caller has already been cancelled or timed out *)
TakeSettled(w) ==
  /\ current = w /\ queue # <<>> /\ ~Pending(Head(queue))
  /\ queue' = Tail(queue)
  /\ stage' = [stage EXCEPT ![Head(queue)] = "taken"]
  /\ UNCHANGED <<poolState, eventSet, parked, current, slotVars, countVars, closer,
                 future, expired, interrupts, answer>>

(* popleft() of a job whose budget is used up before its timer has fired   *)
TakeExpired(w) ==
  /\ current = w /\ queue # <<>>
  /\ Pending(Head(queue)) /\ expired[Head(queue)]
  /\ queue' = Tail(queue)
  /\ stage' = [stage EXCEPT ![Head(queue)] = "taken"]
  /\ Settle(Head(queue), "timeout")
  /\ UNCHANGED <<poolState, eventSet, parked, current, slotVars, countVars, closer,
                 expired, interrupts, answer>>

(* popleft() of a job that may run, up to the await of backend.compile():  *)
(* the request is written to the process.                                  *)
Execute(w) ==
  /\ queue' = Tail(queue)
  /\ stage' = [stage EXCEPT ![Head(queue)] = "executing"]
  /\ activeWorkers' = activeWorkers + 1
  /\ job' = [job EXCEPT ![w] = Head(queue)]
  /\ pipe' = [pipe EXCEPT ![w] = "busy"]
  /\ pc' = [pc EXCEPT ![w] = "compiling"]
  /\ current' = None
  /\ UNCHANGED <<poolState, eventSet, parked, cancelPending, process,
                 readyWorkers, replacements, future, expired, interrupts, answer, closer>>

Dispatch_AnyState(w) == current = w /\ queue # <<>> /\ Execute(w)

Dispatch(w) ==
  /\ current = w /\ queue # <<>>
  /\ Pending(Head(queue)) /\ ~expired[Head(queue)]
  /\ Execute(w)

-----------------------------------------------------------------------------
(* The worker process, outside the loop.                                   *)

(* It writes its line to stdout.  Whether the line is a good result is     *)
(* decided when it is read; a line that nobody can read any more is not    *)
(* distinguished from one not written.                                     *)
ProcessReplies(w) ==
  /\ process[w] = "live" /\ pipe[w] = "busy" /\ pc[w] \in Serving
  /\ pipe' = [pipe EXCEPT ![w] = "reply"]
  /\ UNCHANGED <<poolState, loopVars, pc, job, cancelPending, process,
                 countVars, reqVars, closer>>

(* It exits: by itself, killed by the system, or signalled by close().     *)
ProcessExits(w) ==
  /\ process[w] # "dead"
  /\ process' = [process EXCEPT ![w] = "dead"]
  /\ UNCHANGED <<poolState, loopVars, pc, job, cancelPending, pipe,
                 countVars, reqVars, closer>>

-----------------------------------------------------------------------------
(* A slot's task: the end of wait_for(backend.compile()).                  *)

CompileReturns(w) ==
  /\ LoopFree /\ ~cancelPending[w] /\ pc[w] = "compiling"
  /\ pipe[w] = "reply"
  /\ Settle(job[w], "result")
  /\ activeWorkers' = activeWorkers - 1
  /\ job' = [job EXCEPT ![w] = None]
  /\ pipe' = [pipe EXCEPT ![w] = "clean"]
  /\ pc' = [pc EXCEPT ![w] = "looping"]
  /\ current' = w
  /\ UNCHANGED <<poolState, queue, eventSet, parked, cancelPending, process,
                 readyWorkers, replacements, stage, expired, interrupts, answer, closer>>

(* The job is settled and the backend given up: the except and finally     *)
(* clauses, then _replace_backend up to its first await.                   *)
GiveUpBackend(w, outcome) ==
  /\ Settle(job[w], outcome)
  /\ activeWorkers' = activeWorkers - 1
  /\ readyWorkers' = readyWorkers - 1
  /\ job' = [job EXCEPT ![w] = None]
  /\ pc' = [pc EXCEPT ![w] = "closingOld"]
  /\ UNCHANGED <<poolState, loopVars, cancelPending, process, pipe,
                 replacements, stage, expired, interrupts, answer, closer>>

(* EOF, a broken pipe, a malformed or misaddressed line, internal_error; a *)
(* request that cannot be encoded ends as one answered by a bad line.      *)
CompileFails(w) ==
  /\ LoopFree /\ ~cancelPending[w] /\ pc[w] = "compiling"
  /\ pipe[w] = "reply" \/ process[w] = "dead"
  /\ GiveUpBackend(w, "workerError")

CompileTimesOut_KeepsBackend(w) ==
  /\ LoopFree /\ ~cancelPending[w] /\ pc[w] = "compiling"
  /\ expired[job[w]]
  /\ Settle(job[w], "timeout")
  /\ activeWorkers' = activeWorkers - 1
  /\ job' = [job EXCEPT ![w] = None]
  /\ pc' = [pc EXCEPT ![w] = "looping"]
  /\ current' = w
  /\ UNCHANGED <<poolState, queue, eventSet, parked, cancelPending, process, pipe,
                 readyWorkers, replacements, stage, expired, interrupts, answer, closer>>

CompileTimesOut(w) ==
  /\ LoopFree /\ ~cancelPending[w] /\ pc[w] = "compiling"
  /\ expired[job[w]]
  /\ GiveUpBackend(w, "timeout")

-----------------------------------------------------------------------------
(* A slot's task: _replace_backend after its first await.                  *)

UnderClose(w) ==
  \/ pc[w] \in {"closingOld", "closingFailed", "closingCancelled"}
  \/ \E c \in Closers : closer[c] = "waitBackends"

(* backend.close() returns only once the process is gone, or it raises     *)
(* with the process alive: a signal refused, a spawn cut off before the    *)
(* backend knew its process.  The error is logged, or kept by gather() in  *)
(* the pool's close(), and the process is nobody's any more.               *)
CloseRaises(w) ==
  /\ UnderClose(w) /\ process[w] = "live"
  /\ process' = [process EXCEPT ![w] = "stray"]
  /\ UNCHANGED <<poolState, loopVars, pc, job, cancelPending, pipe,
                 countVars, reqVars, closer>>

(* backend.close() is over, or the backoff sleep is; then the while        *)
(* condition is read.                                                      *)
AtReplaceLoop(w) ==
  /\ LoopFree /\ ~cancelPending[w]
  /\ pc[w] = "backoff" \/ (pc[w] = "closingOld" /\ process[w] # "live")

StopReplacing(w) ==
  /\ AtReplaceLoop(w) /\ poolState # "running"
  /\ pc' = [pc EXCEPT ![w] = "ended"]
  /\ UNCHANGED <<poolState, loopVars, job, cancelPending, process, pipe,
                 countVars, reqVars, closer>>

(* The new backend is stored in _backends before its start() is awaited,   *)
(* and the process is spawned before start() first yields.                 *)
Spawn(w) ==
  /\ process' = [process EXCEPT ![w] = "live"]
  /\ pipe' = [pipe EXCEPT ![w] = "clean"]
  /\ pc' = [pc EXCEPT ![w] = "starting"]
  /\ UNCHANGED <<poolState, loopVars, job, cancelPending, countVars, reqVars, closer>>

StartReplacement_AnyState(w) == AtReplaceLoop(w) /\ Spawn(w)

StartReplacement(w) == AtReplaceLoop(w) /\ poolState = "running" /\ Spawn(w)

(* The factory raised: the backend closed again is still the old one.      *)
FactoryFails(w) ==
  /\ AtReplaceLoop(w) /\ poolState = "running"
  /\ pc' = [pc EXCEPT ![w] = "closingFailed"]
  /\ UNCHANGED <<poolState, loopVars, job, cancelPending, process, pipe,
                 countVars, reqVars, closer>>

StartSucceeds_NotCounted(w) ==
  /\ LoopFree /\ ~cancelPending[w] /\ pc[w] = "starting" /\ process[w] = "live"
  /\ replacements' = replacements + 1
  /\ pc' = [pc EXCEPT ![w] = "looping"]
  /\ current' = w
  /\ UNCHANGED <<poolState, queue, eventSet, parked, job, cancelPending, process, pipe,
                 activeWorkers, readyWorkers, reqVars, closer>>

(* start() has read a valid ready line; the task goes on into the dispatch *)
(* loop without yielding.                                                  *)
StartSucceeds(w) ==
  /\ LoopFree /\ ~cancelPending[w] /\ pc[w] = "starting"
  /\ readyWorkers' = readyWorkers + 1
  /\ replacements' = replacements + 1
  /\ pc' = [pc EXCEPT ![w] = "looping"]
  /\ current' = w
  /\ UNCHANGED <<poolState, queue, eventSet, parked, job, cancelPending, process, pipe,
                 activeWorkers, reqVars, closer>>

StartFails_EndsTask(w) ==
  /\ LoopFree /\ ~cancelPending[w] /\ pc[w] = "starting"
  /\ pc' = [pc EXCEPT ![w] = "ended"]
  /\ UNCHANGED <<poolState, loopVars, job, cancelPending, process, pipe,
                 countVars, reqVars, closer>>

(* A spawn error, EOF, a bad handshake or the startup timeout.             *)
StartFails(w) ==
  /\ LoopFree /\ ~cancelPending[w] /\ pc[w] = "starting"
  /\ pc' = [pc EXCEPT ![w] = "closingFailed"]
  /\ UNCHANGED <<poolState, loopVars, job, cancelPending, process, pipe,
                 countVars, reqVars, closer>>

CleanupDone_ErrorEndsTask(w) ==
  /\ LoopFree /\ ~cancelPending[w]
  /\ pc[w] = "closingFailed" /\ process[w] # "live"
  /\ pc' = [pc EXCEPT ![w] = IF process[w] = "stray" THEN "ended" ELSE "backoff"]
  /\ UNCHANGED <<poolState, loopVars, job, cancelPending, process, pipe,
                 countVars, reqVars, closer>>

CleanupDone(w) ==
  /\ LoopFree /\ ~cancelPending[w]
  /\ pc[w] = "closingFailed" /\ process[w] # "live"
  /\ pc' = [pc EXCEPT ![w] = "backoff"]
  /\ UNCHANGED <<poolState, loopVars, job, cancelPending, process, pipe,
                 countVars, reqVars, closer>>

(* The cleanup of a cancelled start is over: CancelledError is re-raised.  *)
CancelledCleanupDone(w) ==
  /\ LoopFree /\ ~cancelPending[w]
  /\ pc[w] = "closingCancelled" /\ process[w] # "live"
  /\ pc' = [pc EXCEPT ![w] = "ended"]
  /\ UNCHANGED <<poolState, loopVars, job, cancelPending, process, pipe,
                 countVars, reqVars, closer>>

-----------------------------------------------------------------------------
(* A slot's task: task.cancel() by close() is delivered as CancelledError  *)
(* at the await the task is suspended in.                                  *)

Deliver(w, next) ==
  /\ LoopFree /\ cancelPending[w]
  /\ cancelPending' = [cancelPending EXCEPT ![w] = FALSE]
  /\ pc' = [pc EXCEPT ![w] = next]
  /\ UNCHANGED <<poolState, queue, eventSet, current, process, pipe,
                 readyWorkers, replacements, stage, expired, interrupts, answer, closer>>

(* Not yet run, waiting for the event, in the backoff sleep, or in a       *)
(* close() that lets the error through while its process still exits.      *)
CancelUnwinds(w) ==
  /\ pc[w] \in {"created", "waiting", "backoff",
                "closingOld", "closingFailed", "closingCancelled"}
  /\ Deliver(w, "ended")
  /\ parked' = parked \ {w}
  /\ UNCHANGED <<job, activeWorkers, future>>

(* backend.close() is at its last await, of the stderr task it cancelled   *)
(* itself, and takes the CancelledError for that task's: the cancellation  *)
(* is lost and close() returns normally.                                   *)
CancelSwallowed(w) ==
  /\ pc[w] \in {"closingOld", "closingFailed", "closingCancelled"}
  /\ process[w] = "dead"
  /\ Deliver(w, pc[w])
  /\ UNCHANGED <<parked, job, activeWorkers, future>>

CancelCompiling(w) ==
  /\ pc[w] = "compiling"
  /\ Deliver(w, "ended")
  /\ Settle(job[w], "closed")
  /\ activeWorkers' = activeWorkers - 1
  /\ job' = [job EXCEPT ![w] = None]
  /\ UNCHANGED parked

CancelStarting(w) ==
  /\ pc[w] = "starting"
  /\ Deliver(w, "closingCancelled")
  /\ UNCHANGED <<parked, job, activeWorkers, future>>

(* As CancelSwallowed, inside the close() by which a failed start() cleans *)
(* up after itself, or that close() raises: the task sees an Exception and *)
(* no cancellation.                                                        *)
CancelLostInFailedStart(w) ==
  /\ pc[w] = "starting"
  /\ Deliver(w, "closingFailed")
  /\ UNCHANGED <<parked, job, activeWorkers, future>>

-----------------------------------------------------------------------------
(* close().                                                                *)

CloseBegins_LeavesQueue(c) ==
  /\ LoopFree /\ closer[c] = "idle" /\ poolState # "closed"
  /\ poolState' = "closing"
  /\ queue' = <<>>
  /\ cancelPending' = [w \in Workers |-> pc[w] # "ended"]
  /\ closer' = [closer EXCEPT ![c] = "waitTasks"]
  /\ UNCHANGED <<eventSet, parked, current, pc, job, process, pipe, countVars, reqVars>>

CloseBegins_KeepsTasks(c) ==
  /\ LoopFree /\ closer[c] = "idle" /\ poolState # "closed"
  /\ poolState' = "closing"
  /\ queue' = <<>>
  /\ future' = [r \in Requests |->
                  IF Contains(queue, r) /\ Pending(r) THEN "closed" ELSE future[r]]
  /\ closer' = [closer EXCEPT ![c] = "waitTasks"]
  /\ UNCHANGED <<eventSet, parked, current, slotVars, countVars,
                 stage, expired, interrupts, answer>>

(* The queued jobs are failed, then every task is cancelled.               *)
CloseBegins(c) ==
  /\ LoopFree /\ closer[c] = "idle" /\ poolState # "closed"
  /\ poolState' = "closing"
  /\ queue' = <<>>
  /\ future' = [r \in Requests |->
                  IF Contains(queue, r) /\ Pending(r) THEN "closed" ELSE future[r]]
  /\ cancelPending' = [w \in Workers |-> pc[w] # "ended"]
  /\ closer' = [closer EXCEPT ![c] = "waitTasks"]
  /\ UNCHANGED <<eventSet, parked, current, pc, job, process, pipe, countVars,
                 stage, expired, interrupts, answer>>

CloseTasksGathered_NoWait(c) ==
  /\ LoopFree /\ closer[c] = "waitTasks"
  /\ closer' = [closer EXCEPT ![c] = "waitBackends"]
  /\ UNCHANGED <<poolState, loopVars, slotVars, countVars, reqVars>>

CloseTasksGathered(c) ==
  /\ LoopFree /\ closer[c] = "waitTasks"
  /\ \A w \in Workers : pc[w] = "ended"
  /\ closer' = [closer EXCEPT ![c] = "waitBackends"]
  /\ UNCHANGED <<poolState, loopVars, slotVars, countVars, reqVars>>

(* Every backend.close() has returned or raised. *)
CloseFinishes(c) ==
  /\ LoopFree /\ closer[c] = "waitBackends"
  /\ \A w \in Workers : process[w] # "live"
  /\ poolState' = "closed"
  /\ readyWorkers' = 0
  /\ closer' = [closer EXCEPT ![c] = "returned"]
  /\ UNCHANGED <<loopVars, slotVars, activeWorkers, replacements, reqVars>>

CloseAgain(c) ==
  /\ LoopFree /\ closer[c] = "idle" /\ poolState = "closed"
  /\ closer' = [closer EXCEPT ![c] = "returned"]
  /\ UNCHANGED <<poolState, loopVars, slotVars, countVars, reqVars>>

(* Where the program may stop: everything is closed and answered. *)
Terminated ==
  /\ poolState = "closed" /\ \A c \in Closers : closer[c] = "returned"
  /\ \A r \in Requests : answer[r] # "none"
  /\ UNCHANGED vars

-----------------------------------------------------------------------------
CallerStep(r) ==
  \/ RefuseClosed(r) \/ RefuseOverloaded(r) \/ Accept(r)
  \/ CallerTimer(r) \/ CallerCancel(r) \/ CallerWake(r)

TaskStep(w) ==
  \/ Resume(w) \/ Park(w) \/ TakeSettled(w) \/ TakeExpired(w) \/ Dispatch(w)
  \/ CompileReturns(w) \/ CompileFails(w) \/ CompileTimesOut(w)
  \/ StopReplacing(w) \/ StartReplacement(w) \/ FactoryFails(w)
  \/ StartSucceeds(w) \/ StartFails(w) \/ CleanupDone(w) \/ CancelledCleanupDone(w)
  \/ CancelUnwinds(w) \/ CancelSwallowed(w) \/ CancelCompiling(w)
  \/ CancelStarting(w) \/ CancelLostInFailedStart(w)

CloserStep(c) ==
  CloseBegins(c) \/ CloseTasksGathered(c) \/ CloseFinishes(c) \/ CloseAgain(c)

Next ==
  \/ \E r \in Requests : CallerStep(r) \/ Expire(r)
  \/ \E w \in Workers : TaskStep(w) \/ ProcessReplies(w) \/ ProcessExits(w) \/ CloseRaises(w)
  \/ \E c \in Closers : CloserStep(c)
  \/ Terminated

Spec == Init /\ [][Next]_vars

-----------------------------------------------------------------------------
(* Safety.                                                                 *)

SlotsIn(S) == {w \in Workers : pc[w] \in S}

(* A task parked on _jobs_available has nothing to do: whenever a job is   *)
(* queued, every task waiting for the event has been woken (pool.py clears *)
(* the event and waits for it in two steps, and sets it in a third).       *)
NoLostWakeup ==
  /\ queue # <<>> => parked = {}
  /\ eventSet => parked = {}

(* The counters published by snapshot are adjusted by hand at seven places *)
(* of pool.py; they agree with what the slots are doing.                   *)
ActiveIsCompiling == activeWorkers = Cardinality(SlotsIn({"compiling"}))

ReadyIsServing ==
  /\ poolState = "running" => readyWorkers = Cardinality(SlotsIn(Serving))
  /\ poolState = "closed" => readyWorkers = 0

(* Every replacement answers the failure of one executed job: a slot that  *)
(* keeps failing to restart, and a close() racing it, never add one.       *)
ReplacementsAccounted ==
  replacements + Cardinality(SlotsIn(Recovering))
    <= Cardinality({r \in Requests : stage[r] = "executing"})

(* What snapshot publishes is true. *)
CountersAgree == ActiveIsCompiling /\ ReadyIsServing /\ ReplacementsAccounted

(* An unsettled job is in exactly one place, once: in the queue, or with   *)
(* the one worker that compiles it.  So it can neither be forgotten nor    *)
(* executed twice, whatever close(), timeouts and restarts do meanwhile.   *)
Places(r) == {<<"queue", i>> : i \in {i \in 1..Len(queue) : queue[i] = r}}
               \cup {<<"worker", w>> : w \in {w \in Workers : job[w] = r}}

NoLostJob ==
  \A r \in Requests : Pending(r) => \E p \in Places(r) : Places(r) = {p}

(* compile() gives its queue position back on every way out, and with it   *)
(* a unit of the bounded capacity.                                         *)
QueueHoldsOnlyUnanswered ==
  /\ Len(queue) <= QueueCapacity
  /\ \A r \in Requests : Contains(queue, r) => answer[r] = "none" /\ stage[r] = "queued"

(* A process that still owes or has sent a line for an abandoned job is    *)
(* never given another one: the next job would read that line.             *)
CleanPipe ==
  \A w \in Workers : pc[w] \in {"created", "looping", "waiting"} => pipe[w] = "clean"

(* While the pool runs, no slot's task has ended or is about to: the pool  *)
(* never silently serves with fewer slots than it reports, whatever fails  *)
(* in a restart: the factory, the start or a cleanup.                      *)
NoSlotLost ==
  poolState = "running" => \A w \in Workers : pc[w] # "ended" /\ ~cancelPending[w]

(* When close() has returned nothing is left behind: no task, no caller    *)
(* whose future nobody will settle, and no process but one whose own       *)
(* backend.close() raised.                                                 *)
NothingLeftBehind ==
  \A c \in Closers : closer[c] = "returned" =>
    /\ poolState = "closed" /\ queue = <<>>
    /\ \A w \in Workers : pc[w] = "ended" /\ process[w] # "live"
    /\ \A r \in Requests : ~Pending(r)

(* compile() raises PoolTimeoutError only after the deadline, returns a    *)
(* result only if a worker ran the job, and raises PoolClosedError only if *)
(* close() has been called.                                                *)
AnswersJustified ==
  \A r \in Requests :
    /\ answer[r] = "timeout" => expired[r]
    /\ answer[r] \in {"result", "workerError"} => stage[r] = "executing"
    /\ answer[r] = "closed" => poolState # "running"

(* A job is handed to a worker only while its caller waits for it and its  *)
(* budget is not used up, and only while the pool runs.                    *)
OnlyLiveJobsExecuted ==
  [][\A r \in Requests : stage'[r] = "executing" /\ stage[r] # "executing" =>
       Pending(r) /\ ~expired[r] /\ answer[r] = "none" /\ poolState = "running"]_vars

(* A slot spawns a process only when its previous one is gone or its       *)
(* backend.close() has raised, and never once close() has been called,     *)
(* even if the task's cancellation was lost in a cleanup.                  *)
SpawnsAreSafe ==
  [][\A w \in Workers : pc[w] # "starting" /\ pc'[w] = "starting" =>
       process[w] # "live" /\ poolState = "running"]_vars

(* What a caller was told and what its future held never changes again.    *)
SettledForGood ==
  [][\A r \in Requests :
       /\ answer[r] # "none" => answer'[r] = answer[r]
       /\ future[r] \notin {"none", "pending"} => future'[r] = future[r]]_vars

-----------------------------------------------------------------------------
(* Liveness.                                                               *)

CloseKills(w) == UnderClose(w) /\ process[w] = "live" /\ ProcessExits(w)

(* The event loop runs every coroutine that can run, a timer that is due   *)
(* fires, and a process under a backend.close() that does not raise is     *)
(* killed after two seconds at the latest.  Nothing obliges a caller to    *)
(* call, a process to reply or anybody to call close().                    *)
LoopIsFair ==
  /\ \A r \in Requests : WF_vars(CallerTimer(r)) /\ WF_vars(CallerWake(r))
  /\ \A w \in Workers : WF_vars(TaskStep(w)) /\ WF_vars(CloseKills(w))
  /\ \A c \in Closers : WF_vars(CloseTasksGathered(c)) /\ WF_vars(CloseFinishes(c))

(* Deadlines pass.                                                        *)
ClockAdvances == \A r \in Requests : WF_vars(Expire(r))

(* The conditions a restart waits for do not fail forever. *)
RestartsSucceed == \A w \in Workers : SF_vars(StartReplacement(w)) /\ SF_vars(StartSucceeds(w))

(* Compilations end and restarts succeed.                                  *)
WorkersRecover == RestartsSucceed /\ \A w \in Workers : WF_vars(ProcessReplies(w))

LoopSpec == Spec /\ LoopIsFair
PromptSpec == LoopSpec /\ WorkersRecover

(* Every accepted call of compile() ends, though a compilation may never   *)
(* end and a slot may never come back: the deadline is enough.             *)
AcceptedIsAnswered ==
  ClockAdvances => \A r \in Requests : stage[r] = "queued" ~> answer[r] # "none"

(* A call of close() returns, whatever the slots were doing, and whether   *)
(* or not the compilations it interrupts would ever have ended.            *)
CloseReturns == \A c \in Closers : closer[c] = "waitTasks" ~> closer[c] = "returned"

(* A queued job is taken or given up without waiting for its deadline: no  *)
(* sequence of wake-ups, restarts and cancellations leaves it behind.      *)
QueuedIsTaken ==
  WorkersRecover => \A r \in Requests : Contains(queue, r) ~> ~Contains(queue, r)

(* A slot that gave its backend up serves again, unless the pool closes.   *)
SlotRecovers ==
  WorkersRecover =>
    \A w \in Workers : pc[w] \in Recovering ~> pc[w] \in Serving \/ poolState # "running"

(* doc/worker-pool.md:60 says that the exit of a process gets its slot     *)
(* replaced.                                                               *)
ExitedIsReplaced ==
  \A w \in Workers : process[w] = "dead" ~> process[w] = "live" \/ poolState # "running"
=============================================================================
