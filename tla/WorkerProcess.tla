---------------------------- MODULE WorkerProcess ----------------------------
(***************************************************************************)
(* workers/process.py: WorkerProcessBackend, its start(), compile() and    *)
(* close(), with the process group behind its pipes: the group leader      *)
(* (`lake env`, the default command) and the worker it runs.  The pool     *)
(* makes one compile() at a time; the class promises to serialise them, so *)
(* here they overlap.  close() is called as the pool does: not during a    *)
(* compile() or start(), but several may overlap.                          *)
(***************************************************************************)
EXTENDS LeanWorker

CONSTANTS
  Closers,   \* calls of close() from outside
  Start      \* the call of close() inside start()

ASSUME CloseAssumption == Start \notin Closers

VARIABLES
  leader,     \* _process: "reaped" when its returncode is set
  signal,     \* the strongest signal sent to the process group
  errTask,    \* _stderr_task
  panicSeen,  \* the panic message is in _stderr_buffer
  starter,    \* where start() is
  call,       \* [Calls -> where the compile() is, or how it ended]
  closer      \* [Closers and Start -> where the close() is]

vars == <<workerVars, leader, signal, errTask, panicSeen, starter, call, closer>>
groupVars == <<leader, signal>>
userVars == <<starter, call, closer>>

InFlight == {"draining", "reading", "exitWait", "errWait"}
CallEnded == {"answered", "unsent", "misread", "exited", "panic", "cancelled"}
CloseEnded == {"closed", "cancelled"}
StartEnded == {"started", "failed", "cancelled", "aborted", "abandoned"}

TypeOK ==
  /\ WorkerTypeOK
  /\ leader \in {"none", "live", "zombie", "reaped"}
  /\ signal \in {"none", "term", "kill"}
  /\ errTask \in {"none", "draining", "done", "cancelled"}
  /\ panicSeen \in BOOLEAN
  /\ starter \in {"idle", "spawning", "aborting", "handshake", "exitWait", "errWait",
                  "failing", "cancelling"} \cup StartEnded
  /\ call \in [Calls -> {"idle", "queued"} \cup InFlight \cup CallEnded]
  /\ closer \in [Closers \cup {Start} -> {"idle", "term", "kill", "err"} \cup CloseEnded]

Init ==
  /\ WorkerInit
  /\ leader = "none" /\ signal = "none" /\ errTask = "none" /\ panicSeen = FALSE
  /\ starter = "idle"
  /\ call = [c \in Calls |-> "idle"]
  /\ closer = [k \in Closers \cup {Start} |-> "idle"]

-----------------------------------------------------------------------------
(* The process group.                                                      *)

(* The leader ends when its child has ended, or is killed before. *)
LeaderExits ==
  /\ leader = "live"
  /\ leader' = "zombie"
  /\ UNCHANGED <<workerVars, signal, errTask, panicSeen, userVars>>

(* The event loop learns of it. *)
LeaderReaped ==
  /\ leader = "zombie"
  /\ leader' = "reaped"
  /\ UNCHANGED <<workerVars, signal, errTask, panicSeen, userVars>>

(* Both hold the write ends of stdout and stderr. *)
WriteEndsClosed == ~Alive /\ leader \in {"zombie", "reaped"}

-----------------------------------------------------------------------------
(* _drain_stderr(), a task of its own.                                     *)

DrainStderr ==
  /\ errTask = "draining"
  /\ \/ /\ stderr = "panic"
        /\ panicSeen' = TRUE /\ stderr' = "empty"
        /\ UNCHANGED errTask
     \/ /\ stderr = "empty" /\ WriteEndsClosed
        /\ errTask' = "done"
        /\ UNCHANGED <<panicSeen, stderr>>
  /\ UNCHANGED <<worker, inHand, stdin, stdout, groupVars, userVars>>

CancelStderr == errTask' = IF errTask = "draining" THEN "cancelled" ELSE errTask

ErrTaskOver == errTask # "draining"

-----------------------------------------------------------------------------
(* _read_message().  At the end of stdout it waits for the process and     *)
(* then for the end of stderr, so that it can tell a panic.                *)

SeesLine == stdout # <<>>
SeesEof  == stdout = <<>> /\ WriteEndsClosed

-----------------------------------------------------------------------------
(* close().                                                                *)

(* A start() that never got its process back from create_subprocess_exec() *)
(* has left _process and _stderr_task None.                                *)
Owned == starter \notin {"spawning", "aborting", "aborted", "abandoned"}

(* Up to the first await. *)
EnterClose(k) ==
  IF leader \in {"live", "zombie"} /\ Owned
    THEN /\ closer' = [closer EXCEPT ![k] = "term"]
         /\ signal' = IF signal = "kill" THEN "kill" ELSE "term"
         /\ UNCHANGED errTask
    ELSE /\ closer' = [closer EXCEPT ![k] = "err"]
         /\ CancelStderr /\ UNCHANGED signal

(* No start() or compile() is in progress. *)
Unused ==
  /\ starter \in StartEnded
  /\ \A c \in Calls : call[c] \in {"idle"} \cup CallEnded

Close(k) ==
  /\ closer[k] = "idle" /\ k # Start /\ Unused
  /\ EnterClose(k)
  /\ UNCHANGED <<workerVars, leader, panicSeen, starter, call>>

(* Two seconds after SIGTERM. *)
TermTimesOut(k) ==
  /\ closer[k] = "term"
  /\ closer' = [closer EXCEPT ![k] = "kill"] /\ signal' = "kill"
  /\ UNCHANGED <<workerVars, leader, errTask, panicSeen, starter, call>>

(* process.wait() has returned. *)
ProcessGone(k) ==
  /\ closer[k] \in {"term", "kill"} /\ leader = "reaped"
  /\ closer' = [closer EXCEPT ![k] = "err"] /\ CancelStderr
  /\ UNCHANGED <<workerVars, leader, signal, panicSeen, starter, call>>

(* The stderr task has ended.  A cancellation that arrives in this wait is *)
(* taken for that task's and changes nothing.                              *)
CloseReturns(k) ==
  /\ closer[k] = "err" /\ ErrTaskOver
  /\ closer' = [closer EXCEPT ![k] = "closed"]
  /\ UNCHANGED <<workerVars, groupVars, errTask, panicSeen, starter, call>>

CancelClose(k) ==
  /\ closer[k] \in {"term", "kill"}
  /\ closer' = [closer EXCEPT ![k] = "cancelled"]
  /\ UNCHANGED <<workerVars, groupVars, errTask, panicSeen, starter, call>>

-----------------------------------------------------------------------------
(* start().                                                                *)

(* create_subprocess_exec() spawns, and awaits the pipes.                  *)
Spawn ==
  /\ starter = "idle"
  /\ starter' = "spawning"
  /\ leader' = "live" /\ worker' = "importing"
  /\ UNCHANGED <<inHand, stdin, stdout, stderr, signal, errTask, panicSeen, call, closer>>

PipesConnected ==
  /\ starter = "spawning"
  /\ starter' = "handshake" /\ errTask' = "draining"
  /\ UNCHANGED <<workerVars, groupVars, panicSeen, call, closer>>

(* Cancelled in that await: asyncio kills the leader, and it alone, waits  *)
(* for it and lets the error through; start() has nothing to clean up.     *)
CancelSpawn ==
  /\ starter = "spawning"
  /\ starter' = "aborting"
  /\ leader' = IF leader = "live" THEN "zombie" ELSE leader
  /\ UNCHANGED <<workerVars, signal, errTask, panicSeen, call, closer>>

SpawnAborted ==
  /\ starter = "aborting" /\ leader = "reaped"
  /\ starter' = "aborted"
  /\ UNCHANGED <<workerVars, groupVars, errTask, panicSeen, call, closer>>

(* A second cancellation ends asyncio's wait. *)
CancelAbort ==
  /\ starter = "aborting"
  /\ starter' = "abandoned"
  /\ UNCHANGED <<workerVars, groupVars, errTask, panicSeen, call, closer>>

SpawnFails ==
  /\ starter = "idle"
  /\ starter' = "failed"
  /\ UNCHANGED <<workerVars, groupVars, errTask, panicSeen, call, closer>>

ReadReady ==
  /\ starter = "handshake" /\ SeesLine /\ Head(stdout) = "ready"
  /\ starter' = "started" /\ stdout' = Tail(stdout)
  /\ UNCHANGED <<worker, inHand, stdin, stderr, groupVars, errTask, panicSeen, call, closer>>

ReadEof ==
  /\ starter = "handshake" /\ SeesEof
  /\ starter' = "exitWait"
  /\ UNCHANGED <<workerVars, groupVars, errTask, panicSeen, call, closer>>

ExitSeen ==
  /\ starter = "exitWait" /\ leader = "reaped"
  /\ starter' = "errWait"
  /\ UNCHANGED <<workerVars, groupVars, errTask, panicSeen, call, closer>>

(* The process has gone, or the handshake timed out, which cancels the     *)
(* wait for the stderr task and the task with it: close(), then raise.     *)
StartGivesUp ==
  /\ \/ starter = "errWait" /\ ErrTaskOver
     \/ starter \in {"handshake", "exitWait", "errWait"}
  /\ starter' = "failing"
  /\ EnterClose(Start)
  /\ UNCHANGED <<workerVars, leader, panicSeen, call>>

CancelStart ==
  /\ starter \in {"handshake", "exitWait", "errWait"}
  /\ starter' = "cancelling"
  /\ EnterClose(Start)
  /\ UNCHANGED <<workerVars, leader, panicSeen, call>>

StartRaises_NoWait ==
  /\ starter \in {"failing", "cancelling"}
  /\ starter' = IF starter = "failing" THEN "failed" ELSE "cancelled"
  /\ UNCHANGED <<workerVars, groupVars, errTask, panicSeen, call, closer>>

(* WorkerStartupError, or the CancelledError that interrupted start() or   *)
(* its close().                                                            *)
StartRaises ==
  /\ starter \in {"failing", "cancelling"} /\ closer[Start] \in CloseEnded
  /\ starter' = IF starter = "failing" /\ closer[Start] = "closed" THEN "failed"
                                                                  ELSE "cancelled"
  /\ UNCHANGED <<workerVars, groupVars, errTask, panicSeen, call, closer>>

-----------------------------------------------------------------------------
(* compile().                                                              *)

Moves(c, place) ==
  /\ call' = [call EXCEPT ![c] = place]
  /\ UNCHANGED <<groupVars, starter, closer>>

(* It waits for _compile_lock.  A backend is used once it has started and  *)
(* until it is closed.                                                     *)
Compile(c) ==
  /\ call[c] = "idle" /\ starter = "started"
  /\ \A k \in Closers : closer[k] = "idle"
  /\ Moves(c, "queued")
  /\ UNCHANGED <<workerVars, errTask, panicSeen>>

LockFree == \A d \in Calls : call[d] \notin InFlight

(* The lock is taken and the request written.  A large one fills the pipe  *)
(* and is drained; what remains of it the worker cannot have read.  One    *)
(* that cannot be encoded (a lone surrogate in the code) is not written.   *)
WriteRequest(c) ==
  \/ /\ leader = "reaped" /\ Moves(c, "exited")
     /\ UNCHANGED stdin
  \/ /\ leader # "reaped" /\ Moves(c, "reading")
     /\ stdin' = Append(stdin, c)
  \/ /\ leader # "reaped" /\ Moves(c, "draining")
     /\ UNCHANGED stdin
  \/ /\ leader # "reaped" /\ Moves(c, "unsent")
     /\ UNCHANGED stdin

Acquire_NoLock(c) ==
  /\ call[c] = "queued"
  /\ WriteRequest(c)
  /\ UNCHANGED <<worker, inHand, stdout, stderr, errTask, panicSeen>>

Acquire(c) ==
  /\ call[c] = "queued" /\ LockFree
  /\ WriteRequest(c)
  /\ UNCHANGED <<worker, inHand, stdout, stderr, errTask, panicSeen>>

(* drain() is over, and _read_message() tests the process again. *)
DrainEnds(c) ==
  /\ call[c] = "draining" /\ Alive
  /\ stdin' = Append(stdin, c)
  /\ Moves(c, IF leader = "reaped" THEN "exited" ELSE "reading")
  /\ UNCHANGED <<worker, inHand, stdout, stderr, errTask, panicSeen>>

(* BrokenPipeError, ConnectionResetError *)
DrainBreaks(c) ==
  /\ call[c] = "draining" /\ ~Alive
  /\ Moves(c, "exited")
  /\ UNCHANGED <<workerVars, errTask, panicSeen>>

(* The line must be a result, of the type and with the id of this request; *)
(* of any line one above the length limit is refused.                      *)
ReadAnswer(c) ==
  /\ call[c] = "reading" /\ SeesLine
  /\ stdout' = Tail(stdout)
  /\ \/ Head(stdout) = c /\ Moves(c, "answered")
     \/ Moves(c, "misread")
  /\ UNCHANGED <<worker, inHand, stdin, stderr, errTask, panicSeen>>

ReadsEof_ReadsOn(c) ==
  /\ call[c] = "reading" /\ SeesEof
  /\ UNCHANGED vars

ReadsEof(c) ==
  /\ call[c] = "reading" /\ SeesEof
  /\ Moves(c, "exitWait")
  /\ UNCHANGED <<workerVars, errTask, panicSeen>>

WaitedForExit(c) ==
  /\ call[c] = "exitWait" /\ leader = "reaped"
  /\ Moves(c, "errWait")
  /\ UNCHANGED <<workerVars, errTask, panicSeen>>

ReportExit_NoWait(c) ==
  /\ call[c] = "errWait"
  /\ Moves(c, IF panicSeen THEN "panic" ELSE "exited")
  /\ UNCHANGED <<workerVars, errTask, panicSeen>>

(* WorkerPanicError or WorkerExitedError *)
ReportExit(c) ==
  /\ call[c] = "errWait" /\ ErrTaskOver
  /\ Moves(c, IF panicSeen THEN "panic" ELSE "exited")
  /\ UNCHANGED <<workerVars, errTask, panicSeen>>

(* A cancelled drain() leaves the rest of the line to the transport.       *)
CancelCall(c) ==
  /\ call[c] \in {"queued"} \cup InFlight
  /\ Moves(c, "cancelled")
  /\ stdin' = IF call[c] = "draining" THEN Append(stdin, c) ELSE stdin
  /\ IF call[c] = "errWait" THEN CancelStderr ELSE UNCHANGED errTask
  /\ UNCHANGED <<worker, inHand, stdout, stderr, panicSeen>>

-----------------------------------------------------------------------------
StartStep ==
  \/ Spawn \/ SpawnFails \/ PipesConnected \/ CancelSpawn \/ SpawnAborted \/ CancelAbort
  \/ ReadReady \/ ReadEof \/ ExitSeen
  \/ StartGivesUp \/ CancelStart \/ StartRaises

CallStep(c) ==
  \/ Acquire(c) \/ DrainEnds(c) \/ DrainBreaks(c) \/ ReadAnswer(c)
  \/ ReadsEof(c) \/ WaitedForExit(c) \/ ReportExit(c)

CloseStep(k) == TermTimesOut(k) \/ ProcessGone(k) \/ CloseReturns(k)

PipeStep ==
  /\ LeanWorkerStep
  /\ UNCHANGED <<groupVars, errTask, panicSeen, userVars>>

(* Everything has been called and has ended, and so have the processes.    *)
Terminated ==
  /\ leader \in {"none", "reaped"} /\ ~Alive
  /\ \A k \in Closers : closer[k] \in CloseEnded
  /\ UNCHANGED vars

Next ==
  \/ PipeStep \/ LeaderExits \/ LeaderReaped \/ DrainStderr
  \/ StartStep
  \/ \E c \in Calls : Compile(c) \/ CallStep(c) \/ CancelCall(c)
  \/ \E k \in Closers \cup {Start} : Close(k) \/ CloseStep(k) \/ CancelClose(k)
  \/ Terminated

Spec == Init /\ [][Next]_vars

(* The loop runs what can run, compilations end, a leader ends after its   *)
(* child, and SIGKILL ends a process.                                      *)
FairSpec ==
  /\ Spec
  /\ WF_vars(StartStep) /\ WF_vars(DrainStderr)
  /\ \A c \in Calls : WF_vars(CallStep(c))
  /\ \A k \in Closers \cup {Start} : WF_vars(CloseStep(k))
  /\ WF_vars(PipeStep /\ (ReadRequest \/ Answer))
  /\ WF_vars((~Alive \/ signal = "kill") /\ LeaderExits) /\ WF_vars(LeaderReaped)

-----------------------------------------------------------------------------
(* As long as no call was interrupted or failed once its request was sent, *)
(* the pipes hold nothing but the request in flight or its answer, and     *)
(* only while it is in flight: the reader's next line is its own.          *)
Traffic ==
  {<<"stdin", i, stdin[i]>> : i \in DOMAIN stdin}
    \cup (IF worker = "compiling" THEN {<<"worker", 1, inHand>>} ELSE {})
    \cup {<<"stdout", i, stdout[i]>> : i \in {j \in DOMAIN stdout : stdout[j] \in Calls}}

Undisturbed == \A c \in Calls : call[c] \notin CallEnded \ {"answered", "unsent"}

InStep ==
  Undisturbed =>
    \A x, y \in Traffic : x = y /\ call[x[3]] \in InFlight \ {"draining"}

(* A call whose request made the process panic never reports that as an    *)
(* ordinary, retryable exit, in whatever order the ends of stdout, stderr  *)
(* and the two processes are seen.                                         *)
PanicReported ==
  [][\A c \in Calls :
       call[c] # "exited" /\ call'[c] = "exited" => ~(worker = "panicked" /\ inHand = c)]_vars

(* A close() that returned normally, and a start() that raised its own     *)
(* error or was cut off in its spawn, leave no process that has not been   *)
(* waited for.  One is killed and not waited for: the leader of a spawn    *)
(* that was cancelled twice, which no later close() knows.                 *)
ClosedMeansReaped ==
  /\ \A k \in Closers : closer[k] = "closed" =>
       leader \in {"none", "reaped"} \/ (starter = "abandoned" /\ leader = "zombie")
  /\ starter \in {"failed", "aborted"} => leader \in {"none", "reaped"}

(* doc/worker-pool.md:64 and ADR 0004:15: closing a backend ends its whole *)
(* process group, not the leader alone.                                    *)
GroupEnded ==
  \A k \in Closers : closer[k] = "closed" => ~Alive \/ signal # "none"

-----------------------------------------------------------------------------
(* start() ends, at the latest by its timeout and the SIGKILL after it;    *)
(* and compile() ends if compilations do, whether the process answers,     *)
(* answers something else, panics or dies with the leader or without.      *)
CallsEnd ==
  /\ starter = "spawning" ~> starter \in StartEnded
  /\ \A c \in Calls : call[c] = "queued" ~> call[c] \in CallEnded
=============================================================================
