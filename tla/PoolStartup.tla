----------------------------- MODULE PoolStartup -----------------------------
(***************************************************************************)
(* CompilerPool.start() of service/pool.py: one task per backend, a        *)
(* semaphore that lets only some of them start at once, and the clean-up   *)
(* when one fails.  CompilerPool goes on from where start() returns.       *)
(***************************************************************************)
EXTENDS Naturals, Sequences, FiniteSets, SequencesExt

CONSTANTS
  Workers,       \* the backends
  Parallelism    \* _startup_parallelism

ASSUME StartupAssumption ==
  IsFiniteSet(Workers) /\ Workers # {} /\ Parallelism \in Nat \ {0}

Limit == IF Parallelism < Cardinality(Workers) THEN Parallelism ELSE Cardinality(Workers)

VARIABLES
  poolState,      \* _state
  starter,        \* where start() is
  task,           \* [Workers -> where start_backend() of the backend is]
  cancelPending,  \* [Workers -> task.cancel() called and not yet delivered]
  process,        \* [Workers -> the backend's process; a "stray" one lives, but the
                  \*   backend.close() that had to end it raised]
  permits,        \* the semaphore's value
  waiters,        \* the tasks waiting in it that have no permit, oldest first
  readyWorkers    \* _ready_workers

vars == <<poolState, starter, task, cancelPending, process, permits, waiters, readyWorkers>>
semaphore == <<permits, waiters>>

Done == {"started", "failed", "cancelled"}
Holding == {"granted", "starting", "closing"}

TypeOK ==
  /\ poolState \in {"created", "starting", "running", "closed"}
  /\ starter \in {"idle", "gathering", "cancelling", "closing", "returned", "raised"}
  /\ task \in [Workers -> {"none", "created", "waiting"} \cup Holding \cup Done]
  /\ cancelPending \in [Workers -> BOOLEAN]
  /\ process \in [Workers -> {"none", "live", "stray", "dead"}]
  /\ permits \in 0..Limit /\ waiters \in Seq(Workers)
  /\ readyWorkers \in Nat

Init ==
  /\ poolState = "created" /\ starter = "idle"
  /\ task = [w \in Workers |-> "none"]
  /\ cancelPending = [w \in Workers |-> FALSE]
  /\ process = [w \in Workers |-> "none"]
  /\ permits = Limit /\ waiters = <<>> /\ readyWorkers = 0

-----------------------------------------------------------------------------
(* asyncio.Semaphore: release() hands the permit to the oldest waiter that *)
(* is not cancelled; they are all cancelled together or not at all.        *)

(* A task ends in state s, leaving the async with block. *)
LeaveHolding_KeepsPermit(w, s) ==
  task' = [task EXCEPT ![w] = s] /\ UNCHANGED semaphore

LeaveHolding(w, s) ==
  IF waiters = <<>> \/ cancelPending[Head(waiters)]
    THEN /\ task' = [task EXCEPT ![w] = s]
         /\ permits' = permits + 1 /\ UNCHANGED waiters
    ELSE /\ task' = [task EXCEPT ![w] = s, ![Head(waiters)] = "granted"]
         /\ waiters' = Tail(waiters) /\ UNCHANGED permits

-----------------------------------------------------------------------------
(* start().                                                                *)

(* A backend_factory() raises before there is a task to clean up after:    *)
(* start() raises with the pool still "starting".                          *)
FactoryFails ==
  /\ starter = "idle"
  /\ poolState' = "starting" /\ starter' = "raised"
  /\ UNCHANGED <<task, cancelPending, process, semaphore, readyWorkers>>

Begin ==
  /\ starter = "idle"
  /\ poolState' = "starting" /\ starter' = "gathering"
  /\ task' = [w \in Workers |-> "created"]
  /\ UNCHANGED <<cancelPending, process, semaphore, readyWorkers>>

(* gather() has every result: the pool runs. *)
Returns ==
  /\ starter = "gathering" /\ \A w \in Workers : task[w] = "started"
  /\ poolState' = "running" /\ starter' = "returned"
  /\ readyWorkers' = Cardinality(Workers)
  /\ UNCHANGED <<task, cancelPending, process, semaphore>>

FirstFailure_NoCancel ==
  /\ starter = "gathering" /\ \E w \in Workers : task[w] = "failed"
  /\ starter' = "cancelling"
  /\ UNCHANGED <<poolState, task, cancelPending, process, semaphore, readyWorkers>>

(* gather() raises the first error, with the other tasks still at work;    *)
(* they are cancelled.                                                     *)
FirstFailure ==
  /\ starter = "gathering" /\ \E w \in Workers : task[w] = "failed"
  /\ starter' = "cancelling"
  /\ cancelPending' = [w \in Workers |-> task[w] \notin Done]
  /\ UNCHANGED <<poolState, task, process, semaphore, readyWorkers>>

TasksGathered ==
  /\ starter = "cancelling" /\ \A w \in Workers : task[w] \in Done
  /\ starter' = "closing"
  /\ UNCHANGED <<poolState, task, cancelPending, process, semaphore, readyWorkers>>

Raises_ClosesStarted ==
  /\ starter = "closing"
  /\ \A w \in Workers : task[w] = "started" => process[w] # "live"
  /\ poolState' = "closed" /\ starter' = "raised"
  /\ UNCHANGED <<task, cancelPending, process, semaphore, readyWorkers>>

(* Every backend.close() has returned, which takes the end of its process, *)
(* or has raised.                                                          *)
Raises ==
  /\ starter = "closing" /\ \A w \in Workers : process[w] # "live"
  /\ poolState' = "closed" /\ starter' = "raised"
  /\ UNCHANGED <<task, cancelPending, process, semaphore, readyWorkers>>

-----------------------------------------------------------------------------
(* start_backend(), one task per backend.                                  *)

Spawn(w) ==
  /\ process' = [process EXCEPT ![w] = "live"]
  /\ UNCHANGED <<poolState, starter, cancelPending, waiters, readyWorkers>>

(* The semaphore is free: the task goes on into backend.start(), which     *)
(* spawns the process.                                                     *)
Enter(w) ==
  /\ task[w] = "created" /\ ~cancelPending[w]
  /\ permits > 0 /\ waiters = <<>>
  /\ task' = [task EXCEPT ![w] = "starting"]
  /\ permits' = permits - 1
  /\ Spawn(w)

Waits(w) ==
  /\ task[w] = "created" /\ ~cancelPending[w]
  /\ permits = 0 \/ waiters # <<>>
  /\ task' = [task EXCEPT ![w] = "waiting"]
  /\ waiters' = Append(waiters, w)
  /\ UNCHANGED <<poolState, starter, cancelPending, process, permits, readyWorkers>>

Resumes(w) ==
  /\ task[w] = "granted" /\ ~cancelPending[w]
  /\ task' = [task EXCEPT ![w] = "starting"]
  /\ Spawn(w) /\ UNCHANGED permits

(* A valid ready line was read. *)
BackendStarts(w) ==
  /\ task[w] = "starting" /\ ~cancelPending[w]
  /\ LeaveHolding(w, "started")
  /\ UNCHANGED <<poolState, starter, cancelPending, process, readyWorkers>>

(* No process could be spawned: WorkerStartupError at once. *)
SpawnFails(w) ==
  /\ task[w] \in {"created", "granted"} /\ ~cancelPending[w]
  /\ IF task[w] = "granted"
       THEN LeaveHolding(w, "failed")
       ELSE /\ permits > 0 /\ waiters = <<>>
            /\ task' = [task EXCEPT ![w] = "failed"] /\ UNCHANGED semaphore
  /\ UNCHANGED <<poolState, starter, cancelPending, process, readyWorkers>>

(* EOF, a bad handshake or the timeout: start() closes its process ...     *)
HandshakeFails(w) ==
  /\ task[w] = "starting" /\ ~cancelPending[w]
  /\ task' = [task EXCEPT ![w] = "closing"]
  /\ UNCHANGED <<poolState, starter, cancelPending, process, semaphore, readyWorkers>>

(* ... and raises.  A cancellation that met close() in its wait for the    *)
(* stderr task is lost; it leaves the task as failed as it was.            *)
BackendFails(w) ==
  /\ task[w] = "closing" /\ process[w] # "live"
  /\ LeaveHolding(w, "failed")
  /\ cancelPending' = [cancelPending EXCEPT ![w] = FALSE]
  /\ UNCHANGED <<poolState, starter, process, readyWorkers>>

(* CancelledError before the task has a permit, *)
CancelUnstarted(w) ==
  /\ task[w] \in {"created", "waiting"} /\ cancelPending[w]
  /\ task' = [task EXCEPT ![w] = "cancelled"]
  /\ cancelPending' = [cancelPending EXCEPT ![w] = FALSE]
  /\ waiters' = RemoveFirst(waiters, w)
  /\ UNCHANGED <<poolState, starter, process, permits, readyWorkers>>

(* when it has been given one and not run since, or while close() waits    *)
(* for the process, which is then left to start()'s own close(),           *)
CancelHolding(w) ==
  /\ task[w] \in {"granted", "closing"} /\ cancelPending[w]
  /\ LeaveHolding(w, "cancelled")
  /\ cancelPending' = [cancelPending EXCEPT ![w] = FALSE]
  /\ UNCHANGED <<poolState, starter, process, readyWorkers>>

(* or in the handshake: backend.start() closes its process first.          *)
CancelStarting(w) ==
  /\ task[w] = "starting" /\ cancelPending[w]
  /\ task' = [task EXCEPT ![w] = "closing"]
  /\ cancelPending' = [cancelPending EXCEPT ![w] = FALSE]
  /\ UNCHANGED <<poolState, starter, process, semaphore, readyWorkers>>

(* A backend.close(), of start() or of the clean-up, raises with its       *)
(* process alive; in the clean-up gather() keeps the error to itself.      *)
UnderClose(w) == task[w] = "closing" \/ starter = "closing"

CloseRaises(w) ==
  /\ UnderClose(w) /\ process[w] = "live"
  /\ process' = [process EXCEPT ![w] = "stray"]
  /\ UNCHANGED <<poolState, starter, task, cancelPending, semaphore, readyWorkers>>

ProcessExits(w) ==
  /\ process[w] \in {"live", "stray"}
  /\ process' = [process EXCEPT ![w] = "dead"]
  /\ UNCHANGED <<poolState, starter, task, cancelPending, semaphore, readyWorkers>>

-----------------------------------------------------------------------------
StarterStep == FactoryFails \/ Begin \/ Returns \/ FirstFailure \/ TasksGathered \/ Raises

TaskStep(w) ==
  \/ Enter(w) \/ Waits(w) \/ Resumes(w)
  \/ BackendStarts(w) \/ SpawnFails(w) \/ HandshakeFails(w) \/ BackendFails(w)
  \/ CancelUnstarted(w) \/ CancelHolding(w) \/ CancelStarting(w)

Terminated ==
  /\ starter \in {"returned", "raised"}
  /\ UNCHANGED vars

Next ==
  \/ StarterStep \/ Terminated
  \/ \E w \in Workers : TaskStep(w) \/ CloseRaises(w) \/ ProcessExits(w)

Spec == Init /\ [][Next]_vars

(* The loop runs what can run, a handshake ends (at the latest by its      *)
(* timeout) and a process under a backend.close() that does not raise is   *)
(* killed.                                                                 *)
FairSpec ==
  /\ Spec /\ WF_vars(StarterStep)
  /\ \A w \in Workers :
       /\ WF_vars(TaskStep(w))
       /\ WF_vars(UnderClose(w) /\ process[w] = "live" /\ ProcessExits(w))

-----------------------------------------------------------------------------
(* No permit is lost or made: a task that ends in any way gives its own    *)
(* back, once, if it had one.  So no more than startup_parallelism         *)
(* processes load Mathlib at the same time (doc/worker-pool.md:53-54).     *)
PermitsConserved ==
  /\ permits + Cardinality({w \in Workers : task[w] \in Holding}) = Limit
  /\ \A w \in Workers : task[w] = "waiting" <=> Contains(waiters, w)

(* start() returns only if every backend became ready, and then reports as *)
(* many.  When it raises, nothing it began is left: no task at work, and   *)
(* no process but one whose own close() raised.  The pool is then closed,  *)
(* except after a factory that raised: there start() had made no task and  *)
(* no process, and left the pool "starting".                               *)
AllOrNothing ==
  /\ poolState = "running" =>
       /\ \A w \in Workers : task[w] = "started" /\ process[w] # "none"
       /\ readyWorkers = Cardinality(Workers)
  /\ starter = "raised" =>
       \/ /\ poolState = "closed"
          /\ \A w \in Workers : task[w] \in Done /\ process[w] # "live"
       \/ /\ poolState = "starting"
          /\ \A w \in Workers : task[w] = "none" /\ process[w] = "none"

(* After the tasks were cancelled no process is spawned any more.          *)
NoSpawnAfterFailure ==
  [][starter \notin {"idle", "gathering"} =>
       \A w \in Workers : process'[w] = "live" => process[w] = "live"]_vars

(* start() ends: neither the semaphore nor the clean-up waits for ever.    *)
StartEnds == starter = "gathering" ~> starter \in {"returned", "raised"}
=============================================================================
