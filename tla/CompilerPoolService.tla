------------------------ MODULE CompilerPoolService -------------------------
(***************************************************************************)
(* The pool of CompilerPool implements the service of CompileService: the  *)
(* line is _queue, a slot runs what its task is compiling, and a request   *)
(* is answered when its compile() call returns or raises.                  *)
(***************************************************************************)
EXTENDS CompilerPool

Progress == [r \in Requests |-> CASE stage[r] = "new"       -> "new"
                                  [] stage[r] = "executing" -> "run"
                                  [] OTHER                  -> "admitted"]

Service == INSTANCE CompileService WITH
  Slots <- Workers, Capacity <- QueueCapacity, Idle <- None,
  open <- poolState = "running", line <- queue, slot <- job,
  progress <- Progress, reply <- answer

(* Each step of the pool is a step of the service or changes nothing the   *)
(* service speaks of: jobs start in the order they were admitted, each at  *)
(* most once and never after its caller was answered; an answer with a     *)
(* result comes after that job's own run; nothing starts after close().    *)
ImplementsService == Service!Spec
=============================================================================
