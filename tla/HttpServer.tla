----------------------------- MODULE HttpServer -----------------------------
(***************************************************************************)
(* The server program: main() (__main__.py), the life of LeanHTTPServer    *)
(* and one thread for each connection (http.py), around the runtime of     *)
(* CompilerPoolRuntime.  When the program has ended nothing moves.         *)
(***************************************************************************)
EXTENDS CompilerPoolRuntime, Preflight

VARIABLES
  boot,      \* where main() is
  socket,    \* the listening socket
  conn       \* [Handlers -> the connection and the thread that serves it]

httpVars == <<boot, socket, conn>>
vars == <<runtimeVars, preflightVars, httpVars>>

TypeOK ==
  /\ RuntimeTypeOK /\ PreflightTypeOK
  /\ boot \in {"checks", "construct", "create", "announce", "serve", "exited"}
  /\ socket \in {"none", "listening", "closed"}
  /\ conn \in [Handlers -> {"none", "backlog", "reading", "getting", "posting",
                            "answered", "dropped", "reset"}]

Init ==
  /\ RuntimeInit /\ PreflightInit
  /\ boot = "checks" /\ socket = "none"
  /\ conn = [h \in Handlers |-> "none"]

-----------------------------------------------------------------------------
(* main().                                                                 *)

MakeChecks ==
  /\ boot = "checks" /\ RunCheck
  /\ UNCHANGED <<runtimeVars, httpVars>>

ChecksPassed ==
  /\ boot = "checks" /\ report = "passed"
  /\ boot' = "construct"
  /\ UNCHANGED <<runtimeVars, preflightVars, socket, conn>>

(* create_runtime(), then LeanHTTPServer.__init__: bind() and listen(). *)
Listen ==
  /\ boot = "construct"
  /\ boot' = "create" /\ socket' = "listening"
  /\ UNCHANGED <<runtimeVars, preflightVars, conn>>

(* In create_server() and in server_close(), one step of the runtime. *)
RuntimeMain ==
  /\ boot \in {"create", "serve"}
  /\ MainStep
  /\ boot' = IF boot = "create" /\ main' = "serving" THEN "announce" ELSE boot
  /\ UNCHANGED <<preflightVars, socket, conn>>

Serve ==
  /\ boot = "announce"
  /\ boot' = "serve"
  /\ UNCHANGED <<runtimeVars, preflightVars, socket, conn>>

(* KeyboardInterrupt where main() waits, inside one of the two try blocks  *)
(* that lead to server_close().                                            *)
Interrupt ==
  /\ boot \in {"create", "serve"} /\ Interrupted
  /\ UNCHANGED <<preflightVars, httpVars>>

(* super().server_close(): connections not accepted are reset. *)
CloseSocket ==
  /\ main = "closed" /\ socket = "listening"
  /\ socket' = "closed"
  /\ conn' = [h \in Handlers |-> IF conn[h] = "backlog" THEN "reset" ELSE conn[h]]
  /\ UNCHANGED <<runtimeVars, preflightVars, boot>>

(* The process ends, and with it the daemon threads, wherever they are. *)
End ==
  /\ boot' = "exited"
  /\ socket' = IF socket = "listening" THEN "closed" ELSE socket
  /\ conn' = [h \in Handlers |->
                IF conn[h] \in {"backlog", "reading", "getting", "posting"}
                  THEN "reset" ELSE conn[h]]
  /\ UNCHANGED <<runtimeVars, preflightVars>>

(* A failed check, an argument create_runtime() refuses, an address in     *)
(* use, or KeyboardInterrupt outside the try blocks: nothing is closed.    *)
EndEarly == boot \in {"checks", "construct", "announce"} /\ End

(* server_close() has returned, or an error has left it. *)
EndClosed ==
  /\ main = "raised" \/ (main = "closed" /\ socket = "closed")
  /\ End

-----------------------------------------------------------------------------
(* A connection.                                                           *)

Connect(h) ==
  /\ socket = "listening" /\ conn[h] = "none"
  /\ conn' = [conn EXCEPT ![h] = "backlog"]
  /\ UNCHANGED <<runtimeVars, preflightVars, boot, socket>>

Becomes(h, from, to) ==
  /\ conn[h] = from
  /\ conn' = [conn EXCEPT ![h] = to]
  /\ UNCHANGED <<runtimeVars, preflightVars, boot, socket>>

(* serve_forever() accepts it and starts a thread. *)
Accept(h) == boot = "serve" /\ main = "serving" /\ Becomes(h, "backlog", "reading")

(* do_GET: a snapshot first, whatever the path. *)
Get(h) == Becomes(h, "reading", "getting")

(* do_POST with a request that is accepted. *)
Post(h) == Becomes(h, "reading", "posting")

(* 404, 400, 413 or 415 *)
Reject(h) == Becomes(h, "reading", "answered")

(* An error no handler catches ends the thread before it calls the         *)
(* runtime: float(timeout) of an integer no float can hold, or a 400 that  *)
(* quotes what UTF-8 cannot encode.                                        *)
PostRaises(h) == Becomes(h, "reading", "dropped")

Calling(h) == conn[h] \in {"getting", "posting"}

Submit(h) ==
  /\ Calling(h) /\ (SubmitTests(h) \/ SubmitPuts(h))
  /\ UNCHANGED <<preflightVars, httpVars>>

(* A result, and each exception of the pool, has a response. *)
Respond(h) ==
  /\ Calling(h) /\ call[h] \in {"returned", "raised"}
  /\ Becomes(h, conn[h], "answered")

(* RuntimeError has none: the connection is closed. *)
Drop(h) == Calling(h) /\ call[h] = "refused" /\ Becomes(h, conn[h], "dropped")

(* The coroutine on the loop. *)
RunCall(h) ==
  /\ \/ conn[h] = "getting" /\ StepSnapshot(h)
     \/ conn[h] = "posting" /\ StepCompile(h)
  /\ UNCHANGED <<preflightVars, httpVars>>

-----------------------------------------------------------------------------
MainThreadStep ==
  MakeChecks \/ ChecksPassed \/ Listen \/ RuntimeMain \/ Serve \/ CloseSocket \/ EndClosed

LoopThread ==
  \/ (LoopThreadStep \/ CallbackStep) /\ UNCHANGED <<preflightVars, httpVars>>
  \/ \E h \in Handlers : RunCall(h)

HandlerStep(h) == Accept(h) \/ Submit(h) \/ Respond(h) \/ Drop(h)

ClientStep(h) == Connect(h) \/ Get(h) \/ Post(h) \/ Reject(h) \/ PostRaises(h)

Next ==
  /\ boot # "exited"
  /\ \/ MainThreadStep \/ LoopThread \/ Interrupt \/ EndEarly
     \/ \E h \in Handlers : HandlerStep(h) \/ ClientStep(h)

Spec == Init /\ [][Next]_vars

(* Threads that can run do, start-up ends (every handshake has a timeout), *)
(* so does every compile() inside the pool (it has a deadline) and, once   *)
(* they have, so does close() (CompilerPool's CloseReturns).  No client is *)
(* obliged to connect or to send its request.                              *)
FairSpec ==
  /\ Spec
  /\ WF_vars(boot # "exited" /\ MainThreadStep)
  /\ WF_vars(boot # "exited" /\ LoopThread)
  /\ \A h \in Handlers : WF_vars(boot # "exited" /\ HandlerStep(h))

-----------------------------------------------------------------------------
(* Safety.                                                                 *)

(* The program listens only on a machine where every check held, with the  *)
(* Mathlib checkout at the revision the manifest resolves.                 *)
ListensOnlyIfPinned ==
  socket = "listening" =>
    /\ \A c \in ToSet(Checks) \ {"mathlib", "compile"} : found[c] = "pinned"
    /\ found["mathlib"] = "manifestRevision" /\ found["compile"] = "ran"

(* create_server() returns only with a pool that runs, and the pool runs   *)
(* until close(): no request meets a pool that is still starting.          *)
ServedByRunningPool == main = "serving" => poolState = "running"

(* When close() has joined the thread, the pool and its processes are      *)
(* closed.  One pool may be left "starting": that of a start() whose       *)
(* backend_factory() raised, which has no task and no process              *)
(* (PoolStartup's AllOrNothing) and which pool.close() was not called for. *)
JoinedMeansClosed ==
  main = "closed" /\ thread = "ended" =>
    \/ poolState = "closed"
    \/ poolState = "starting" /\ startupError /\ call[Main] = "none"

(* A request is turned away without a response, for want of a loop that    *)
(* runs, at the two edges of the service only: before run_forever() has    *)
(* begun, and once the main thread closes.                                 *)
TurnedAwayAtEdges ==
  [][\A h \in Handlers : call[h] # "refused" /\ call'[h] = "refused" =>
       thread = "started" \/ main # "serving"]_vars

(* doc/worker-pool.md:59 and README.md:20: the pool is started first, and  *)
(* the program listens only then.                                          *)
ListensWhenReady ==
  [][socket # "listening" /\ socket' = "listening" => poolState = "running"]_vars

-----------------------------------------------------------------------------
(* Liveness.                                                               *)

(* start() does not wait for ever: it hears of a pool that started and of  *)
(* one that failed to.                                                     *)
StartEnds == main = "waitReady" ~> main # "waitReady"

(* A thread that serves a request comes to an end, whatever state the      *)
(* runtime is in when it calls; and a call that got into the pool is       *)
(* answered to its thread before the loop ends.                            *)
RequestsEnd ==
  \A h \in Handlers :
    /\ Calling(h) ~> ~Calling(h)
    /\ call[h] = "pooled" ~> call[h] = "returned"

(* A pool.close() that has begun ends close(), with the thread joined; and *)
(* one handed to a loop that is still starting the pool is not forgotten   *)
(* in the pause before run_forever(), unless the start fails.              *)
ServedCloseEnds ==
  /\ poolState = "closing" ~> main = "closed"
  /\ main = "submitting" /\ call[Main] = "waiting" ~>
       main \in {"closed", "raised"} \/ startupError

(* doc/worker-pool.md:64-65: closing the service closes all backends.      *)
ClosingClosesPool == main = "closing" ~> poolState = "closed"
=============================================================================
