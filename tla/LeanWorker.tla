------------------------------ MODULE LeanWorker ------------------------------
(***************************************************************************)
(* lean-server-worker (LeanServerWorker/Main.lean): one process with       *)
(* Mathlib imported that reads a request a line and writes a line for it.  *)
(* What is compiled and what the diagnostics say is left out: of a request *)
(* and of its answer there remains which call of compile() it belongs to.  *)
(***************************************************************************)
EXTENDS Naturals, Sequences, SequencesExt

CONSTANTS
  Calls,     \* the requests: one for each call of WorkerProcessBackend.compile()
  NoCall     \* not one of them

ASSUME WorkerAssumption == NoCall \notin Calls /\ Calls \cap {"ready", "garbage"} = {}

VARIABLES
  worker,    \* where the process is
  inHand,    \* the request it reads last
  stdin,     \* the lines it has not read
  stdout,    \* the lines it has written and the server has not read
  stderr     \* whether the panic message is in what the server has not read

workerVars == <<worker, inHand, stdin, stdout, stderr>>

Alive == worker \in {"importing", "idle", "compiling"}

WorkerTypeOK ==
  /\ worker \in {"none", "importing", "idle", "compiling", "panicked", "exited"}
  /\ inHand \in Calls \cup {NoCall}
  /\ stdin \in Seq(Calls)
  /\ stdout \in Seq(Calls \cup {"ready", "garbage"})
  /\ stderr \in {"empty", "panic"}

WorkerInit ==
  /\ worker = "none" /\ inHand = NoCall
  /\ stdin = <<>> /\ stdout = <<>> /\ stderr = "empty"

(* importModules, then readyJson *)
Import ==
  /\ worker = "importing"
  /\ worker' = "idle" /\ stdout' = Append(stdout, "ready")
  /\ UNCHANGED <<inHand, stdin, stderr>>

(* requestLoop: getLine and parseRequest.  A line this server writes does  *)
(* parse.                                                                  *)
ReadRequest ==
  /\ worker = "idle" /\ stdin # <<>>
  /\ worker' = "compiling" /\ inHand' = Head(stdin) /\ stdin' = Tail(stdin)
  /\ UNCHANGED <<stdout, stderr>>

Answer_NoId ==
  /\ worker = "compiling"
  /\ worker' = "idle" /\ stdout' = Append(stdout, NoCall)
  /\ UNCHANGED <<inHand, stdin, stderr>>

(* handleCompileRequest, handleVerifyRequest: whatever the outcome, also   *)
(* when the elaborator throws, one line with the request's own id.         *)
Answer ==
  /\ worker = "compiling"
  /\ worker' = "idle" /\ stdout' = Append(stdout, inHand)
  /\ UNCHANGED <<inHand, stdin, stderr>>

(* A process the compiled code starts writes on the same stdout.  At most  *)
(* one such line waits there.                                              *)
PrintGarbage ==
  /\ worker = "compiling" /\ ~Contains(stdout, "garbage")
  /\ stdout' = Append(stdout, "garbage")
  /\ UNCHANGED <<worker, inHand, stdin, stderr>>

(* INTERNAL PANIC: the message goes to stderr and the process ends. *)
Panic ==
  /\ worker = "compiling"
  /\ worker' = "panicked" /\ stderr' = "panic"
  /\ UNCHANGED <<inHand, stdin, stdout>>

(* It ends otherwise: a failed import, the system, a signal. *)
WorkerExits ==
  /\ Alive
  /\ worker' = "exited"
  /\ UNCHANGED <<inHand, stdin, stdout, stderr>>

LeanWorkerStep ==
  Import \/ ReadRequest \/ Answer \/ PrintGarbage \/ Panic \/ WorkerExits
=============================================================================
