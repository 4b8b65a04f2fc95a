------------------------- MODULE CompilerPoolRuntime -------------------------
(***************************************************************************)
(* service/runtime.py: the event loop on its own thread, the main thread   *)
(* that starts and closes it, and the threads that hand coroutines to it   *)
(* and wait.  HttpServer says when the main thread and the handlers act.   *)
(*                                                                         *)
(* The threads look at the loop with no lock: each action is one statement *)
(* another thread can see the effect of.  The pool is reduced to its state *)
(* and to the calls inside compile(); CompilerPool models the rest.        *)
(***************************************************************************)
EXTENDS Sequences

CONSTANTS
  Handlers,   \* HTTP handler threads; each makes one call of the runtime
  Main        \* the main thread

ASSUME RuntimeAssumption == Main \notin Handlers

Threads == Handlers \cup {Main}

VARIABLES
  main,          \* where the main thread is
  thread,        \* where _run_loop is
  loopRef,       \* self._loop is not None
  running,       \* loop.is_running()
  stopping,      \* loop.stop() has been called: the loop ends this iteration
  ready,         \* the loop's callbacks, in the order they will run
  readyEvent,    \* self._ready is set
  startupError,  \* self._startup_error is not None
  poolState,     \* pool._state
  call           \* [Threads -> where the thread's call of _submit is]

runtimeVars == <<main, thread, loopRef, running, stopping, ready, readyEvent,
                 startupError, poolState, call>>

loopLife == <<thread, loopRef, running, stopping, readyEvent, startupError>>

Callback == {"create", "step", "reply", "error"} \X Threads \cup {<<"stop", Main>>}

RuntimeTypeOK ==
  /\ main \in {"create", "waitReady", "serving", "closing", "submitting",
               "joining", "closed", "raised"}
  /\ thread \in {"none", "born", "starting", "returning", "raising", "started",
                 "forever", "stopped", "failed", "ended"}
  /\ {loopRef, running, stopping, readyEvent, startupError} \subseteq BOOLEAN
  /\ ready \in Seq(Callback)
  /\ poolState \in {"created", "starting", "running", "closing", "closed"}
  /\ call \in [Threads -> {"none", "tested", "waiting", "pooled", "ending",
                       "returned", "raised", "refused"}]

RuntimeInit ==
  /\ main = "create" /\ thread = "none"
  /\ loopRef = FALSE /\ running = FALSE /\ stopping = FALSE /\ ready = <<>>
  /\ readyEvent = FALSE /\ startupError = FALSE
  /\ poolState = "created"
  /\ call = [t \in Threads |-> "none"]

-----------------------------------------------------------------------------
(* _submit(), from any thread.                                             *)

(* loop is not None and loop.is_running(), or RuntimeError *)
SubmitTests(t) ==
  /\ call[t] = "none"
  /\ call' = [call EXCEPT ![t] = IF loopRef /\ running THEN "tested" ELSE "refused"]
  /\ UNCHANGED <<main, loopLife, ready, poolState>>

(* run_coroutine_threadsafe(): one callback; RuntimeError on a closed loop *)
SubmitPuts(t) ==
  /\ call[t] = "tested"
  /\ IF thread = "ended"
       THEN call' = [call EXCEPT ![t] = "refused"] /\ UNCHANGED ready
       ELSE call' = [call EXCEPT ![t] = "waiting"] /\ ready' = Append(ready, <<"create", t>>)
  /\ UNCHANGED <<main, loopLife, poolState>>

-----------------------------------------------------------------------------
(* The main thread.                                                        *)

StartThread ==
  /\ main = "create"
  /\ main' = "waitReady" /\ thread' = "born"
  /\ UNCHANGED <<loopRef, running, stopping, ready, readyEvent, startupError, poolState, call>>

StartReturns_IgnoresError ==
  /\ main = "waitReady" /\ readyEvent
  /\ main' = "serving"
  /\ UNCHANGED <<loopLife, ready, poolState, call>>

(* start() goes on from _ready.wait(): create_server() returns, or closes  *)
(* the server because start() raises.                                      *)
StartReturns ==
  /\ main = "waitReady" /\ readyEvent
  /\ main' = IF startupError THEN "closing" ELSE "serving"
  /\ UNCHANGED <<loopLife, ready, poolState, call>>

(* KeyboardInterrupt, in _ready.wait() or in serve_forever(): both lead to *)
(* server_close(), whose first act is runtime.close().                     *)
Interrupted ==
  /\ main \in {"waitReady", "serving"}
  /\ main' = "closing"
  /\ UNCHANGED <<loopLife, ready, poolState, call>>

CloseReturnsEarly ==
  /\ main = "closing" /\ ~loopRef
  /\ main' = "closed"
  /\ UNCHANGED <<loopLife, ready, poolState, call>>

CloseTestsLoop ==
  /\ main = "closing" /\ loopRef
  /\ main' = IF running THEN "submitting" ELSE "joining"
  /\ UNCHANGED <<loopLife, ready, poolState, call>>

CloseSubmits ==
  \/ main = "submitting" /\ SubmitTests(Main)
  \/ main = "submitting" /\ SubmitPuts(Main)

CloseStops_NotThreadsafe ==
  /\ main = "submitting" /\ call[Main] = "returned"
  /\ main' = "joining"
  /\ UNCHANGED <<loopLife, ready, poolState, call>>

CloseStops_NoWait ==
  /\ main = "submitting" /\ call[Main] \in {"waiting", "returned"}
  /\ ready' = Append(ready, <<"stop", Main>>)
  /\ main' = "joining"
  /\ UNCHANGED <<loopLife, poolState, call>>

(* call_soon_threadsafe(loop.stop), after the result of pool.close() *)
CloseStops ==
  /\ main = "submitting" /\ call[Main] = "returned"
  /\ ready' = Append(ready, <<"stop", Main>>)
  /\ main' = "joining"
  /\ UNCHANGED <<loopLife, poolState, call>>

(* _submit() or pool.close() raised: the error leaves close(). *)
CloseRaises ==
  /\ main = "submitting" /\ call[Main] \in {"raised", "refused"}
  /\ main' = "raised"
  /\ UNCHANGED <<loopLife, ready, poolState, call>>

CloseJoins ==
  /\ main = "joining" /\ thread = "ended"
  /\ main' = "closed" /\ loopRef' = FALSE
  /\ UNCHANGED <<thread, running, stopping, ready, readyEvent, startupError, poolState, call>>

-----------------------------------------------------------------------------
(* The loop thread.                                                        *)

NewLoop ==
  /\ thread = "born" /\ ~loopRef
  /\ loopRef' = TRUE
  /\ UNCHANGED <<main, thread, running, stopping, ready, readyEvent, startupError,
                 poolState, call>>

(* pool.start() waits for its backends, or a backend_factory() raises in   *)
(* its first step, which leaves the pool "starting" (PoolStartup).         *)
FirstStepOfStart ==
  \/ thread' = "starting" /\ UNCHANGED stopping
  \/ thread' = "raising" /\ stopping' = TRUE

RunStart_ReadyFirst ==
  /\ thread = "born" /\ loopRef
  /\ FirstStepOfStart /\ running' = TRUE /\ poolState' = "starting"
  /\ readyEvent' = TRUE
  /\ UNCHANGED <<main, loopRef, ready, startupError, call>>

(* run_until_complete(pool.start()) *)
RunStart ==
  /\ thread = "born" /\ loopRef
  /\ FirstStepOfStart /\ running' = TRUE /\ poolState' = "starting"
  /\ UNCHANGED <<main, loopRef, ready, readyEvent, startupError, call>>

(* pool.start() returns or raises; its task being done stops the loop at   *)
(* the end of the next iteration.                                          *)
PoolStarts ==
  /\ thread = "starting" /\ stopping' = TRUE
  /\ \/ thread' = "returning" /\ poolState' = "running"
     \/ thread' = "raising" /\ poolState' = "closed"
  /\ UNCHANGED <<main, loopRef, running, ready, readyEvent, startupError, call>>

PauseLoop ==
  /\ thread \in {"returning", "raising"} /\ stopping
  /\ running' = FALSE /\ stopping' = FALSE
  /\ thread' = IF thread = "returning" THEN "started" ELSE "failed"
  /\ UNCHANGED <<main, loopRef, readyEvent, startupError, poolState, call>>

LoopPauses_DropsCallbacks == PauseLoop /\ ready' = <<>>

(* run_until_complete() is over.  What is still queued stays queued.       *)
LoopPauses == PauseLoop /\ UNCHANGED ready

StartFailed_NotReady ==
  /\ thread = "failed" /\ ~startupError
  /\ startupError' = TRUE
  /\ UNCHANGED <<main, thread, loopRef, running, stopping, ready, readyEvent, poolState, call>>

StartFailed ==
  /\ thread = "failed" /\ ~startupError
  /\ startupError' = TRUE /\ readyEvent' = TRUE
  /\ UNCHANGED <<main, thread, loopRef, running, stopping, ready, poolState, call>>

AnnounceReady ==
  /\ thread = "started" /\ ~readyEvent
  /\ readyEvent' = TRUE
  /\ UNCHANGED <<main, thread, loopRef, running, stopping, ready, startupError, poolState, call>>

RunForever ==
  /\ thread = "started" /\ readyEvent
  /\ thread' = "forever" /\ running' = TRUE
  /\ UNCHANGED <<main, loopRef, stopping, ready, readyEvent, startupError, poolState, call>>

LoopStops ==
  /\ thread = "forever" /\ stopping
  /\ thread' = "stopped" /\ running' = FALSE
  /\ UNCHANGED <<main, loopRef, stopping, ready, readyEvent, startupError, poolState, call>>

(* loop.close() drops the callbacks that did not run. *)
LoopCloses ==
  /\ thread = "stopped" \/ (thread = "failed" /\ startupError)
  /\ thread' = "ended" /\ ready' = <<>>
  /\ UNCHANGED <<main, loopRef, running, stopping, readyEvent, startupError, poolState, call>>

-----------------------------------------------------------------------------
(* The callbacks, on the loop thread while the loop runs.                  *)

Runs(kind, t) == running /\ ready # <<>> /\ Head(ready) = <<kind, t>>

(* run_coroutine_threadsafe's callback makes the task of the coroutine. *)
CreateTask(t) ==
  /\ Runs("create", t)
  /\ ready' = Append(Tail(ready), <<"step", t>>)
  /\ UNCHANGED <<main, loopLife, poolState, call>>

(* The first step of pool.compile(): into the queue of a running pool, or  *)
(* out with PoolClosedError or PoolOverloadedError.                        *)
StepCompile(h) ==
  /\ Runs("step", h) /\ h \in Handlers
  /\ \/ /\ poolState = "running"
        /\ call' = [call EXCEPT ![h] = "pooled"]
        /\ ready' = Tail(ready)
     \/ /\ ready' = Append(Tail(ready), <<"error", h>>)
        /\ UNCHANGED call
  /\ UNCHANGED <<main, loopLife, poolState>>

(* The only step of snapshot()'s coroutine. *)
StepSnapshot(h) ==
  /\ Runs("step", h) /\ h \in Handlers
  /\ ready' = Append(Tail(ready), <<"reply", h>>)
  /\ UNCHANGED <<main, loopLife, poolState, call>>

(* The first step of pool.close(). *)
StepClose ==
  /\ Runs("step", Main)
  /\ CASE poolState = "starting" -> /\ ready' = Append(Tail(ready), <<"error", Main>>)
                                    /\ UNCHANGED poolState
       [] poolState = "running"  -> ready' = Tail(ready) /\ poolState' = "closing"
       [] poolState = "closed"   -> /\ ready' = Append(Tail(ready), <<"reply", Main>>)
                                    /\ UNCHANGED poolState
  /\ UNCHANGED <<main, loopLife, call>>

(* compile() ends inside the pool: a result, a timeout, an error. *)
PoolAnswers(h) ==
  /\ running /\ call[h] = "pooled"
  /\ call' = [call EXCEPT ![h] = "ending"]
  /\ ready' = Append(ready, <<"reply", h>>)
  /\ UNCHANGED <<main, loopLife, poolState>>

PoolCloses_LeavesCalls ==
  /\ running /\ ~stopping /\ poolState = "closing"
  /\ poolState' = "closed"
  /\ ready' = Append(ready, <<"reply", Main>>)
  /\ UNCHANGED <<main, loopLife, call>>

(* pool.close() ends.  It takes several turns of the loop: every future    *)
(* was settled, and its caller resumed, at least one turn before, and a    *)
(* loop in its last turn does not see the end of it.                       *)
PoolCloses ==
  /\ running /\ ~stopping /\ poolState = "closing"
  /\ \A h \in Handlers : call[h] # "pooled"
  /\ poolState' = "closed"
  /\ ready' = Append(ready, <<"reply", Main>>)
  /\ UNCHANGED <<main, loopLife, call>>

(* The task is done: the waiting thread's Future is set. *)
SetFuture(t) ==
  /\ Runs("reply", t) \/ Runs("error", t)
  /\ call' = [call EXCEPT ![t] = IF Head(ready)[1] = "reply" THEN "returned" ELSE "raised"]
  /\ ready' = Tail(ready)
  /\ UNCHANGED <<main, loopLife, poolState>>

StopCallback ==
  /\ Runs("stop", Main)
  /\ stopping' = TRUE
  /\ ready' = Tail(ready)
  /\ UNCHANGED <<main, thread, loopRef, running, readyEvent, startupError, poolState, call>>

-----------------------------------------------------------------------------
MainStep ==
  \/ StartThread \/ StartReturns
  \/ CloseReturnsEarly \/ CloseTestsLoop \/ CloseSubmits \/ CloseStops
  \/ CloseRaises \/ CloseJoins

LoopThreadStep ==
  \/ NewLoop \/ RunStart \/ PoolStarts \/ LoopPauses \/ StartFailed
  \/ AnnounceReady \/ RunForever \/ LoopStops \/ LoopCloses

CallbackStep ==
  \/ \E t \in Threads : CreateTask(t) \/ SetFuture(t)
  \/ \E h \in Handlers : PoolAnswers(h)
  \/ StepClose \/ PoolCloses \/ StopCallback
=============================================================================
