# A TLA+ model of lean-server

lean-server compiles and verifies Lean 4.30 code over HTTP. A pool of persistent
worker processes, each with Mathlib loaded, sits behind a bounded queue; a worker
that times out, crashes or breaks the protocol is replaced while the pool goes on
serving. This directory holds the TLA+ modules that model the parts of that program
where the difficulty lies, the TLC configurations that check them on small instances,
and the theorems TLAPS proves about them for every size.

## 1. The system

```
HTTP client
  -> LeanHTTPServer, one thread per connection        http.py
  -> CompilerPoolRuntime, one event-loop thread       service/runtime.py
  -> CompilerPool, queue and slots on that loop       service/pool.py
  -> WorkerProcessBackend, one per slot               workers/process.py
  -> lean-server-worker, a process: NDJSON in and out lean/LeanServerWorker/*.lean
```

| component | state it keeps | operations | what makes it correct |
|---|---|---|---|
| scheduler, `pool.py` | queue, event, backends, tasks, state, three counters; per job a future, a deadline and two flags | `compile`, `close`, the slot task (`_run_worker`), `_replace_backend`, `snapshot` | a job is run at most once, in order, only while somebody waits for it; every caller is answered; no slot is lost; counters agree with the slots; `close` leaves nothing behind |
| start-up, `pool.py:126` | a semaphore, one task per backend | `start` | bounded parallelism; one failure closes every backend |
| backend, `process.py` | process, lock, stderr task and its 64 KiB tail | `start`, `compile`, `close` | answers matched to requests; no process survives `close`; a failed start cleans up |
| runtime, `runtime.py` | loop, thread, ready event, start-up error | `start`, `compile`, `verify`, `snapshot`, `close` | calls from other threads end; `close` ends and has closed the pool |
| HTTP, `http.py` | the listening socket; per request none | `GET` health and readiness, `POST` check and verify | every outcome of the pool becomes the documented response; life cycle ordered with the runtime |
| protocol, `protocol.py`, `Protocol.lean` | none | encode, decode | a message is accepted only as what it is |
| worker, `Main.lean`, `Compiler.lean` | the base environment, fixed after start | request loop, diagnostics | one answer per valid request; what Lean said, each thing once |
| verifier, `Verifier.lean` | none | `requiredDeclarations`, `verifyProof` | nothing the statement depends on escapes comparison |
| preflight and `main()`, `preflight.py`, `__main__.py` | none | start-up checks, then the life of the server | the server listens only if all checks pass |
| `workers/cli.py` and its predecessor `compiler.py` (the server uses neither) | one process | one-shot compile | the process does not outlive its call; the answer says what Lean said |

How they interact. HTTP threads call the runtime, which hands a coroutine to the loop
thread and blocks on a `concurrent.futures.Future`. On the loop, callers of
`compile()` and slot tasks share the queue, an `asyncio.Event` and one future per
job; nothing is locked, exclusion comes from a coroutine keeping the loop between two
awaits. A slot task talks to its process through pipes. `close()` cancels the tasks
and then closes the backends.

What is hard: everything a coroutine assumed before an await may have changed after
it (deadline timers, cancellations, `close()`, process exits); cancellations reach a
task inside its own cleanup; threads outside the loop look at the loop's state. The
list is under `hazards` in `PROJECT.json`, each at its line.

## 2. Modules

| module | what it is |
|---|---|
| `CompilerPool` | `service/pool.py` after `start()`: callers, slots, processes, `close()` |
| `CompileService` | what the pool promises its callers: a bounded FIFO service |
| `CompilerPoolService` | the refinement mapping from the first to the second |
| `MCCompilerPool` | instances for TLC: symmetry and the bound of one run |
| `CompilerPoolProofs` | its inductive invariant, the theorems about states and steps, and the refinement |
| `QueueLemmas` | what appending to, taking from and removing within a queue does, for the proofs that need it |
| `PoolStartup` | `start()` of `service/pool.py`: the backends' tasks and their semaphore |
| `PoolStartupProofs` | its inductive invariant and theorems |
| `CompilerPoolRuntime` | `service/runtime.py`: the loop on its thread, and what other threads do to it |
| `Preflight` | `preflight.py`: the checks of the environment |
| `HttpServer` | `__main__.py` and `http.py`: `main()`, the socket and a thread per connection, over the two modules above |
| `HttpServerProofs` | the inductive invariant of the three and their theorems |
| `LeanWorker` | `Main.lean`: the worker as a process that reads and writes lines |
| `WorkerProcess` | `workers/process.py` over that process, its group leader and the pipes |
| `WorkerProcessProofs` | its inductive invariant and theorems |
| `Verifier` | `Verifier.lean`: the loop of `requiredDeclarations` and the verdict of `verifyProof` |
| `VerifyProof` | the handler of `POST /api/v1/verify_proof` over `Verifier`, and what the answer has to mean |
| `VerifyProofProofs` | its inductive invariant and theorems |
| `WorkerProtocol` | `protocol.py` and `Protocol.lean`: what each end of the pipe writes and accepts |
| `JobExchange` | one request to a worker and back, as lines; the diagnostics of `Compiler.lean` and the bodies of `http.py` |
| `JobExchangeProofs` | what arrives at either end of the pipes, and the inductive invariant and theorems |
| `MCRequests` | instances of `VerifyProof` and `JobExchange` for TLC |
| `OneShot` | `workers/cli.py` and `compiler.py`: one process per compilation |
| `OneShotProofs` | its inductive invariant and theorems |

### CompilerPool

One action is one segment of a coroutine between two awaits, so that the atomicity of
the model is that of asyncio. The exception is the dispatch loop of `_run_worker`,
which may pop several jobs without yielding: there `current` names the task holding
the loop, each popped job is a step, and only what lives outside the loop (time, the
processes) may move in between. The order in which the loop runs what is ready is
left open.

| state | code |
|---|---|
| `queue`, `poolState`, three counters | the attributes of `CompilerPool` |
| `eventSet`, `parked` | the flag of `_jobs_available`, and the tasks in its `wait()` that `set()` has not woken yet |
| `pc[w]` | where slot `w`'s task is: `created`, `looping`, `waiting`, `compiling`; in `_replace_backend`, `closingOld`, `starting`, `closingFailed` or `closingCancelled` (the close of a start that failed or was cancelled), `backoff`; `ended` |
| `cancelPending[w]` | `task.cancel()` was called and CancelledError not yet delivered |
| `process[w]`, `pipe[w]` | the process of `_backends[w]`: `live`, `dead`, or `stray`, alive after a `backend.close()` that raised; and whether it owes or has sent a line |
| `future[r]`, `stage[r]`, `expired[r]` | `_Job.future`, `started` with `execution_started_at`, and whether the clock has passed `_Job.deadline` |
| `interrupts[r]`, `answer[r]` | cancellations of the calling task not yet delivered, and how `compile()` ended |
| `closer[c]` | where a call of `close()` is; several may overlap |

Time is one bit per job: its deadline has passed. Two timers look at it, the caller's
(`asyncio.timeout_at`) and the slot's (`asyncio.wait_for`), and they fire in any order.
What a process writes is reduced to whether there is a line; reading it gives a result,
or one of the errors that have the same effect on the pool (malformed or misaddressed
line, `internal_error`, EOF). A cancellation of a slot task is delivered where the task
is suspended, with what the code does there, including the two places where
`WorkerProcessBackend.close` takes it for the cancellation of its own stderr task and
goes on (`CancelSwallowed`, `CancelLostInFailedStart`).

`backend.close()` returns once the process is gone, or raises with the process alive
(`CloseRaises`): a signal is refused, or the backend never got its process back from a
spawn that was cut off. `_close_backend` logs the error and `close()` lets `gather` keep
it; either way the slot goes on and the process is nobody's. `NothingLeftBehind` and
`SpawnsAreSafe` except such a process by name, and nothing else.

In all modules an operator named `Action_Deviation` is not part of the specification.
It is the action with a plausible mistake, and shows that a property would notice it.

### CompileService and the refinement

The service knows a line of requests, what each slot runs, how far each request has
come and its answer. `ImplementsService` says that every step of the pool is a step of
the service under the mapping of `CompilerPoolService` (line = `queue`, slot = `job`,
reply = `answer`), or changes none of these: admission order is service order, a
request runs at most once, never after it was answered, its result comes after its
run, nothing starts after `close()`.

### PoolStartup

`starter` is where `start()` is: waiting in `gather()`, in the except clause's two
waits, or ended. `task[w]` is where `start_backend()` is: before its first step, waiting
in the semaphore, handed a permit and not resumed yet, in the ready handshake, in the
`close()` with which `WorkerProcessBackend.start` cleans up, or ended. `permits` and
`waiters` are `asyncio.Semaphore`: a release hands the permit to the oldest waiter that
is not cancelled. A cancellation is delivered where the task is; one that meets the
clean-up in its wait for the process leaves that process to `start()`'s own `close()`,
and one that meets it in its wait for the stderr task is lost, which changes only how
the task ends. A `backend.close()` may raise here, too. `backend_factory()` is called
outside the `try`: if it raises (`FactoryFails`), `start()` raises with the pool
`starting`, no task and no process. `CompilerPool` begins where `Returns` ends.

### CompilerPoolRuntime, Preflight and HttpServer

Three kinds of thread share the loop without a lock, so an action is one statement whose
effect another thread can see. `thread` is where `_run_loop` is, `running` and
`stopping` are the loop's own flags, `ready` its callbacks in order. `call[t]` follows a
thread through `_submit`: the test of `is_running()`, `run_coroutine_threadsafe`, the
wait, and how it ended. A factory that raises ends `pool.start()` in its first step,
with the pool still `starting` (`FirstStepOfStart`). `main` is `create_server()`,
`serve_forever()` and `server_close()`, as far as they call the runtime. Of the pool
there remains its state and, per handler, whether its call is inside `compile()`; that
such a call ends, and that `close()` ends after all of them, is what `CompilerPool` is
checked for (`AcceptedIsAnswered`, `CloseReturns`).

`CompilerPoolRuntime` has the statements and no next-state relation of its own:
`HttpServer` says when they happen. `boot` is where `main()` is: the checks, the
constructors, `create_server()`, the two prints, `serve_forever()`. `socket` is the
listening socket. `conn[h]` is a connection and then the thread that serves it: waiting
in the backlog, read, calling the runtime, and how it ended: answered, dropped by an
exception no handler catches, or reset by the end of the server. A `GET` calls
`snapshot()` whatever its path, a `POST` calls `compile()` or `verify()` unless it is
refused first. Ctrl-C may arrive wherever the main thread waits; outside the two `try`
blocks it ends the program with nothing closed (`EndEarly`), as a failed check or a
busy address does. When the program ends its daemon threads end where they are. Nothing
runs afterwards: the model is of one life of the program.

A check of `Preflight` finds what the machine holds at the moment it looks. What it can
find is a small set per check (`Outcomes`), of which the code accepts one member.

### LeanWorker and WorkerProcess

One backend and the two processes of its group: the leader (`lake env`, the default
command, `http.py:30`) and the worker it runs, which hold the same pipes and die
separately. `stdin` and `stdout` are the lines on their way; of a line there remains
which call of `compile()` it belongs to, `ready`, or something else (`garbage`, which
compiled code that starts a process can print). `call[c]` is where a `compile()` is:
waiting for the lock, in `drain()`, in `readline()`, or in one of the two waits at the
end of stdout, `process.wait()` and the end of the stderr task; `starter` is the same
for `start()`, and `closer[k]` is where a `close()` is, one of them the call inside
`start()`. The spawn is an await of its own (`spawning`): cancelled there, asyncio kills
the leader and waits for it (`aborting`, then `aborted`), or is cancelled again and does
not (`abandoned`), and the backend has no process to close (`Owned`). A request that
cannot be encoded is not written (`unsent`); an answer above the limit of a line is one
of those that are `misread`, so any line can be. A request is in `stdin` as a whole or
not at all: the worker reads lines. A wait for the process ends when the leader has been
reaped, an end of stdout is seen when both processes are gone.

The class serialises `compile()` itself, so calls overlap here, although the pool makes
one at a time. It does not serialise `close()` against the others: the pool closes a
backend after its call or its start has ended, and the model does too; two closes can
overlap (a slot's clean-up and `pool.close()`).

### Verifier and VerifyProof

The environment a statement elaborates to is a graph, `formal`: for each declaration it
adds, its kind and what its type and its value mention. `candidate` says, for each, how
the candidate differs from it: not at all, it is missing, in kind, metadata or type, in
the value only, or in being unsafe or resting on `sorry` or an axiom not allowed. These
are Lean's judgements (`isDefEq`, `collectAxioms`); the program decides which
declarations are compared, which of them in their value, and who is blamed, and that is
what is modelled. Names of the base environment are skipped wherever the code meets
them and are left out of the graph.

`pending`, `seen` and `required` are the variables of `requiredDeclarations`; the last of
`pending` is the top. A turn of the loop is `SkipVisited` or `Visit`. In which order an
expression lists the constants it mentions is left open (`Orders`), although the owner a
shared declaration gets depends on it. `handler` and `response` follow one request
through `_handle_verify_proof`. Of the pool there remains how `runtime.verify()` can
end (`CompileService` says when); when it ends without a result, the slot closes the
worker or the worker never had the job, and the verifier's state is gone (`WorkerGone`).
After `_request_json` or `from_dict` the request is as the Lean side gets it.

The reference `VerifyProof` compares with is written without the loop: `Meaning` is what
a reader of the statement relies on, `DependsOn` the least set closed under it, `Kept`
what a candidate may change. It classes declarations by what the candidate supplies
(proofs, placeholders), where the code classes them by what it compares.

### WorkerProtocol and JobExchange

`WorkerProtocol` has the messages as the JSON values they are: pairs of a type and a
content, an object as a function of its fields. For each message there is what one end
writes (`CompileDict`, `ResultJson`) and what the other accepts and makes of it
(`Parses`, `ParseRequest`, `IsResult`, `DecodeResult`), translated from two languages
separately, so that a field they disagree about shows. What a string says is a model
value. One thing is idealised: Python takes `true` for 1, in a version, too.

`JobExchange` follows one request from the client to a worker and back. `stage` is where
it is; `stdin` and `stdout` hold the lines on their way. The worker takes the messages
Lean logs one at a time (`TakeMessage`), with the severity, text and positions (where it
starts and where it ends) by which `diagnosticsFromMessages` drops repeats; a
verification elaborates two texts in turn and keeps the errors of both. Compiled code
may have printed a foreign line, of any form, before the answer; the first line is the
one that is read. A request may also be refused, find the queue full, run out of time,
lose its worker or meet `close()`. `body` is the response, as `_result_body` and
`_verify_result_body` build it.

An answer longer than `MAX_WORKER_MESSAGE_BYTES` is refused and costs the worker: `Bytes`
and `MaxBytes` are parameters, and `Fits` says that a line is within the limit. Nothing in
the worker keeps an answer below it, which
`doc/issues/validation-2026-09-18/followup-2026-09-21.md:58` lists as open, and
`LinesUnderstood` claims nothing for such an answer. A request with a lone surrogate
cannot be encoded (`EncodeFails`); the pool takes that for a failure of the worker, as it
does any error of `compile()`.

What Lean reported is told by `Reported`, without the worker's keys and lists: of each
severity the messages whose diagnostic does not occur earlier in the log, at their places.
`Lists` says that a list is that, in the order of the log.

What a verification finds is an input here (`Verdicts`); `VerifyProof` is about what it
has to find. The two are run together by `MCRequests`, a request of one kind at a time,
since they share nothing.

### OneShot

`LeanCliBackend` and `compile_lean` start a process group for each compilation: a leader
(`elan run ... lake env`) and Lean, its child. `leader` tells whether the leader lives,
has ended or has been waited for (`returncode` is set), `call[c]` and `closer[k]` where
`compile()` and `close()` wait. Both callers share the group's actions and differ, by
`user`, in what they do with it: the backend can be cancelled, once or again during the
clean-up, and in `create_subprocess_exec` too, where asyncio kills the leader only
(`aborting`; `abandoned`, if the wait for it is cancelled in turn); `compile_lean` has a
timeout instead. Both encode the code after the spawn, and an error of that is not
handled (`EncodeFails`): the call ends (`unsent`) and the process runs on; the backend
still knows it, `compile_lean` does not. Of a line of output there remains what the two
parsers tell apart, of an answer its status and which kinds of error it lists. What the
parsers make of the output with the exit status and with stderr is `CliResult` and
`LegacyResult`, which disagree about JSON that is no object and about what is an internal
error.

## 3. What is checked

| run | instance | properties |
|---|---|---|
| `pool_slots` | 2 slots, 2 requests, 1 close, queue 2 | no wake-up lost, the counters, where jobs are, pipes, slots; `OnlyLiveJobsExecuted`, `SettledForGood` |
| `pool_queue` | 1 slot, 3 requests, 2 closes, queue 2 | capacity, answers, `ImplementsService`, `NothingLeftBehind`, `SpawnsAreSafe` |
| `pool_progress` | 1 slot, 2 requests, 1 close, queue 1, `LoopSpec` | `CloseReturns`; `AcceptedIsAnswered`, if the clock advances; `QueuedIsTaken`, `SlotRecovers`, if workers recover |
| `pool_idle_exit` | 1 slot, 1 request, `PromptSpec` | `ExitedIsReplaced`, violated |
| `startup` | 4 backends, 2 at a time, `FairSpec` | `PermitsConserved` (so that at most two load Mathlib at once); `AllOrNothing`: a return means all are ready, an error means all are closed, or none was made and the pool is not closed; `NoSpawnAfterFailure`, `StartEnds` |
| `http_server` | 2 handlers, `FairSpec` | `ListensOnlyIfPinned`, `ServedByRunningPool`, `JoinedMeansClosed`; `TurnedAwayAtEdges`: for want of a loop a request is refused only before the loop serves and once closing began; `StartEnds`, `RequestsEnd`, `ServedCloseEnds` |
| `listens_before_ready` | 1 handler | `ListensWhenReady`, violated |
| `service_closing` | 1 handler, `FairSpec` | `ClosingClosesPool`, violated |
| `worker_backend` | 2 calls, 2 closes, `FairSpec` | types; `InStep`, `PanicReported`; `ClosedMeansReaped`: the process has been waited for, but for the leader of a spawn cancelled twice; `CallsEnd`: `start()`, `compile()` and `close()` end |
| `worker_orphan` | 1 call, 1 close | `GroupEnded`, violated |
| `requests` | a verification: 3 declarations, 2 mentions, 1 fault; an exchange: 2 messages a text | `VerdictExact`, `BlameIsFair`, `LoopShrinks`; `LinesUnderstood`: each request arrives as what it is, each answer of the worker within the limit of a line as one to it; `CheckExact`, `VerdictDelivered`: the response says okay exactly if nothing was reported against it, and says what was, each thing once and in order |
| `one_shot` | 2 calls, 2 closes, 3 lines | `EndedMeansGone`: Lean outlives its call only if its leader ended first or the code could not be encoded, and no process the backend knows outlives a `close()`; `ResultHonest`: status, errors and output agree |

Bounds. A request is one call of `compile()`, so the number of requests bounds a
behaviour; restarts, failures and process exits are not bounded. Two slots are needed
for two tasks to compete for one job and one wake-up; three requests for one to run
while two are queued, so that order and removal from the middle show; two closes to
overlap, so that the second cancels a task inside the clean-up the first started. A
third slot or request meets the same pairs of interleavings. `pool_queue` also bounds,
with `QueueRunBound`, outside cancellations and passed deadlines to one each;
`pool_slots` has them without bound for two requests. Symmetry is used by the safety
runs of the pool and by `requests`, which treat slots, requests and names alike; the
other modules are run as they are. Start-up with four backends and two permits has two
tasks inside the semaphore and two waiting in it, so that a failure can meet a holder, a
waiter and one just handed a permit at once. `pool_progress` is bounded, with
`ProgressRunBound`, to one caller cancelled from outside: nothing obliges the
environment to cancel, so the bound does not cut off a fair behaviour's way on. In
`HttpServer` a connection carries one request; two handlers are enough for one call
inside the pool while another is between the test of `is_running()` and the loop's
queue. Ctrl-C arrives once, while the main thread waits or between the two `try` blocks;
a second one is not modelled. `start()` is not cancelled from outside: nobody holds its
task. In `WorkerProcess` the second call waits for the lock while the first is served,
and is the one to which an answer left over would go; one foreign line waits on stdout
at a time, and each process of the group dies once, since a backend is not restarted
(`process.py:93`). In `requests` three declarations of every kind, with two mentions
anywhere among them, make chains of three, a declaration shared by two, mutual recursion
and self-reference; the verdict depends on whether some declaration in reach is at
fault, so one fault is enough to tell the declarations that are compared from the
others, and with a text that is not sound no declaration is compared (`OneOfAKind`). In
an exchange two messages, out of six of which two differ in where they start only, two
in where they end only, and one has positions Lean does not know, make a repeat and a
near-repeat; an answer with three diagnostics is above the limit of a line; a foreign
line is one of every form the decoder refuses, one field wrong at a time. In `one_shot`
three lines are an error, a line that is malformed, and what follows it; the second call
would be the one to meet what the first left behind. The theorems have none of these
bounds.

Deadlock is checked for the pool, its start-up, the backend and the requests: they may
stop only when everything has ended (`Terminated`, `Ended`). `HttpServer` is checked
without: the program ends, nobody has to connect, and it also stops in the states
`service_closing` is about. `OneShot` is checked without, since it stops when its calls
have been made.

Type invariants. Each module has one, and each is a theorem (`TypeCorrect` of its proof
module, for `JobExchange` the part `TypeInv` of its inductive invariant). The run of
`WorkerProcess` also checks its own.

Fairness. In `CompilerPool`, `LoopIsFair`: every coroutine that can go on does (the
loop's ready list is first in, first out), a timer that is due fires, and a process
under a `backend.close()` that does not raise dies (`CloseKills`), since SIGKILL follows
SIGTERM by two seconds (`process.py:160-165`). `LoopSpec` is that and nothing else: a
compilation may never end, a slot may never come back. What more a property needs is its
premise: `AcceptedIsAnswered` that the clock passes every deadline somebody looks at
(`ClockAdvances`), `QueuedIsTaken` and `SlotRecovers` that compilations end and that
restarts succeed when they are tried often enough (`WorkersRecover`; strong fairness,
since each attempt may fail). `CloseReturns` needs neither. `PromptSpec` is `LoopSpec`
with `WorkersRecover`. No caller is obliged to call, nor anybody to close. In
`PoolStartup` the loop is fair, a handshake ends (it has a timeout) and a process under
a `close()` that does not raise dies. In `HttpServer` threads that can run do, and what
the pool was asked for ends; no client is obliged to connect or to send its request. In
`WorkerProcess` the loop is fair, a started compilation ends, a leader ends after its
child or after SIGKILL; neither process has to heed SIGTERM or to exit by itself.

Findings. `pool_idle_exit` checks what `doc/worker-pool.md:60` and ADR 0004:17 say,
that the exit of a process gets its slot replaced at once. The slot's task, between
two jobs, waits for the event alone: a process that exits then is replaced only after
a job has been lost to it.

`listens_before_ready` checks what `doc/worker-pool.md:59` and `README.md:20` say, that
the server listens once all backends are ready. `LeanHTTPServer.__init__` binds and
listens before `create_server()` calls `runtime.start()`: connections are accepted by the
kernel, and wait, for as long as Mathlib is being loaded.

`service_closing` checks that closing the service closes every backend
(`doc/worker-pool.md:64`). `runtime.close()` decides by `loop.is_running()`, which is
false between `run_until_complete(pool.start())` and `run_forever()` although the pool
runs: a `close()` that looks there submits nothing, stops nothing and joins a thread
that then never ends. A `close()` that comes during start-up is refused by
`pool.close()`; the error leaves `close()` before the loop is stopped, and the processes
that were starting stay. Once `pool.close()` has begun, the runtime does come to its end
(`ServedCloseEnds`). One more such state is left out of that property, since nothing
says what a `close()` during a start that fails should do: `pool.close()`, submitted just
before `loop.close()`, is never run, and the main thread waits for it.

`worker_orphan` checks that `close()` ends the process group (the same line of the
document). It signals the group only while the leader has no return code: if the leader
died and the worker did not, nothing is signalled. There are two ways to it: the leader
exits by itself, or `start()` is cancelled in its spawn, where asyncio kills the leader
alone and `close()` has no process to look at.

## 4. What is proved

`CompilerPoolProofs` proves, for any finite set of slots, any finite set of requests,
any set of closes and any positive capacity (`PoolAssumption`), that

    IInv == TypeOK /\ LoopInv /\ SlotInv /\ CloseInv /\ JobInv /\ OutcomeInv /\ CountInv

is inductive. The safety invariants alone are not: that no slot is lost needs that no
cancellation is pending while the pool runs (`CloseInv`), that a job is in one place
needs that the queue has no duplicates and that a job being compiled is no longer
queued (`JobInv`), the bound on replacements needs the slots in recovery and the jobs
being compiled on the same side of the inequality (`CountInv`). Each part has a lemma,
with one case per action; `SlotMoves` gives the change of a count of slots when one
task moves, `MoveKeepsCounts` what an action then owes the counters, `RemoveFirstFacts`,
`AppendFacts` and `TailFacts` (`QueueLemmas`) what the queue operations keep. The
theorems `TypeCorrect` to `AnswersCorrect` then give every safety invariant
of the runs of this module. TLC has also checked `IInv` on the instance of `pool_slots`.

The second half of the module goes on to the steps. `IInv` holds in the state before and
after each; what remains is which step changes what, and `StepKinds` sorts the actions
of the pool by what they do to the queue, the slots' jobs and the answers. Three facts
about single steps follow (`LiveJobsOnly`, `Settled`, `SpawnsSafe`), and `Refinement`:
every step of the pool is one of the service, or leaves it alone. That last one needs
one more inductive invariant, `HeldInv`: the future of a job being compiled can have
been cancelled only on behalf of its own caller, so that a slot which drops the job
leaves a request that has, or is about to have, its answer.

`VerifyProofProofs` proves, for any finite set of names, any environments over them and
any faults (`VerifierAssumption`), that

    IInv == TypeOK /\ IdleInv /\ CollectInv /\ DoneInv /\ ResponseInv

is inductive. `CollectInv` is the invariant of the loop: the targets are seen or on the
stack, so is whatever a declaration seen mentions, and each entry is something its
owner depends on. With an empty stack the first two say that what was seen is closed,
hence holds what the statement depends on (`DependsOnLeast`), and the third that it
holds nothing else: `CollectedExactly`. No induction over paths is needed, since
`DependsOn` is an intersection of closed sets. `ComparisonExact` says that the code's
comparison of one declaration agrees with the reference, `MeaningFollowed` that the loop
follows the reference's mentions; together they give `VerdictCorrect` and `BlameCorrect`.
`LoopTerminates` is the step that makes the loop end: the declarations not seen and
the stack decrease lexicographically. `PushedFacts` is where the order of an expression's
constants drops out.

`PoolStartupProofs` proves, for any finite set of backends and any positive parallelism
(`StartupAssumption`), that `IInv == TypeOK /\ QueueInv /\ PhaseInv /\ FailureInv` is
inductive. That no permit is lost or made needs that the semaphore's queue holds the
waiting tasks, each once (`QueueInv`). That nothing is spawned after a failure, and
nothing left, needs that a task which has not run since then has its cancellation
pending, and that a release passes over such a task (`FailureInv`). `Leaves` is the lemma
about a release, with its three cases: a waiter to wake, only cancelled ones, nobody.

`HttpServerProofs` proves the same of the program, with `CompilerPoolRuntime` and
`Preflight`, for any set of handlers. `LoopInv` is the part the code relies on without
saying so: what a thread may conclude from the loop's flags depends on where the loop
thread is. `CallInv` ties each call to the one callback it may have in the loop,
`CloseInv` the end of the pool to the main thread's call. What `is_running()` says can be
out of date when it is used; `ServedByPool` and `TurnedAwayOnlyAtEdges` say what holds in
spite of that, `JoinedClosed` what a `close()` that came to its end has done: the pool is
closed, or its start raised before it had made anything.

`WorkerProcessProofs` has any number of `compile()` and `close()` calls. The invariant has
two levels: `LifeInv`, `ReapedInv`, `LockInv` and `StderrInv` hold in every state,
`PipeInv` (a request or its answer is in one place, once) while no call has been cut off
(`Undisturbed`). It cannot hold beyond that: the pool replaces a backend whose call was
cut off, and does not repair it. That a panic is told from an exit (`PanicAlwaysReported`)
needs where the panic's text is until the call that waits for the stderr task reads it.

`OneShotProofs` has any number of calls and closes and output of any length. `EndInv`
says what a call leaves when no call is active, the process of a code that could not be
encoded included; `NothingOutlasts` follows because Lean can otherwise outlive its
leader only if that one failed by itself (`GroupInv`). `AnswersHonest` rests on
`CliHonest` and `LegacyHonest`, facts about the two parsers for any output.

`JobExchangeProofs` is about data: any jobs, messages and verdicts of the right shape,
logs of any length, messages that differ in any field of the key, any measure of a line
and any limit on it, and any foreign lines but an answer with the job's own id, which is
a random UUID (`ExchangeAssumption`). `CompileArrives` to `VerifyResultBack` show, field
by field, that decoding undoes encoding, for requests in one direction and answers in
the other, for lists of any length. `ReportedStep` and `MessageTaken` are the step of
`diagnosticsFromMessages`: a message that is taken extends what is reported by one
place, at the end of its list. In the inductive invariant `LogInv` says that the
worker's lists agree with its logs at every moment, in particular that the errors of the
formal statement remain in front of the candidate's (`CandidateFollows`); `AnswerInv`
says that a line on stdout is foreign, the judgement of the whole text or the report of
an exception, and that a body with a verdict comes of a judgement. `ChecksExact` and
`VerdictsDelivered` follow by computing that body.

TLC has checked each of these inductive invariants on the instance of its run.

Two things the provers do not know are worked around by naming. They do not know that a
literal is a string: `Words` adds the model's own texts to `STRING`. And they cannot be
told of induction over a list's elements; none is needed, since a list is compared place
by place.

Only model-checked: liveness under fairness (`CloseReturns`, `AcceptedIsAnswered`,
`QueuedIsTaken`, `SlotRecovers`, `StartEnds`, `RequestsEnd`, `ServedCloseEnds`,
`CallsEnd`), which is beyond the prover. Every invariant and every action property that a
passing run checks is a theorem.

## 5. Not modelled, and the plan

Left out of `CompilerPool`: the constructor's and `compile()`'s argument checks (no
state), error texts and timings, logging, `snapshot` (a copy of five fields), the
length of the backoff. Each request is made once.

Left out of `VerifyProof`: the comparison of levels, types and values, elaboration,
warnings and timings, the names' spelling; exceptions of the runtime that the handler
does not catch (`HttpServer` has them).

Left out of `HttpServer`: SIGTERM, which ends the program at once and closes nothing; a
second Ctrl-C; `ThreadingMixIn` and the sockets below it; requests that arrive on one
connection one after the other. Left out of `JobExchange`: the times of an answer, of
which the response's `queue_ms` is the difference of two clocks clamped at 0; that what
counts as a `sorry` is the text of a warning, which is Lean's. Left out of
`WorkerProcess`: that the tail of stderr is bounded to 64 KiB, so that a process the
compiled code started could push the mark of a panic out of it; a process of the
compiled code that holds stdout open after both processes of the group have ended; a
signal the system refuses (the group has the server's user), which the pool's modules
have as a `backend.close()` that raises. Elaboration, the equality
of types and values and the axioms a proof rests on are Lean's own and inputs
everywhere.

Every component of the table in section 1 has a module, and every safety property a
theorem. What is planned:

1. `WorkerProcess` shown to implement the slot's view of a backend in `CompilerPool`
   (`process[w]` and `pipe[w]`), by a refinement mapping that TLC checks first and a
   theorem after that.
2. The runtime's view of the pool in `HttpServer` (a call is inside the pool, then
   answered) shown to be implemented by `CompilerPool`, in the same way.
3. A premise-free form of the step by which each liveness property makes progress, as
   `LoopTerminates` is for the verifier's loop: what the prover can say about
   termination without fairness.
