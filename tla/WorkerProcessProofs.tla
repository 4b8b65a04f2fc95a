------------------------- MODULE WorkerProcessProofs -------------------------
(***************************************************************************)
(* Safety of WorkerProcessBackend for any number of overlapping compile()  *)
(* and close() calls.                                                      *)
(*                                                                         *)
(* IInv is the inductive invariant.  LifeInv says what start() has left    *)
(* behind by when, ReapedInv what a close() has waited for, StderrInv      *)
(* where the panic message is until the call that waits for it reads it,   *)
(* PipeInv what the pipes hold while no call was interrupted.              *)
(***************************************************************************)
EXTENDS WorkerProcess, QueueLemmas

LifeInv ==
  /\ starter = "idle" =>
       /\ leader = "none" /\ worker = "none"
       /\ \A k \in Closers \cup {Start} : closer[k] = "idle"
  /\ starter \in {"spawning", "aborting"} => \A k \in Closers \cup {Start} : closer[k] = "idle"
  /\ starter \in {"aborting", "abandoned"} => leader \in {"zombie", "reaped"}
  /\ closer[Start] # "idle" => starter \in {"failing", "cancelling", "failed", "cancelled"}
  /\ leader = "none" => starter \in {"idle", "failed"}
  /\ errTask = "none" <=> leader = "none" \/ ~Owned
  /\ leader = "none" <=> worker = "none"
  /\ worker = "compiling" => inHand \in Calls
  /\ \A c \in Calls : call[c] # "idle" => starter = "started"

(* What a close() has waited for: all but the leader start() was made to   *)
(* abandon.                                                                *)
Gone == leader \in {"none", "reaped"} \/ (starter = "abandoned" /\ leader = "zombie")

ReapedInv ==
  /\ \A k \in Closers \cup {Start} : closer[k] \in {"err", "closed"} => Gone
  /\ \A c \in Calls : call[c] = "errWait" => leader = "reaped"
  /\ starter \in {"failed", "aborted"} => leader \in {"none", "reaped"}

(* The lock, and who may be using the backend once it is being closed.     *)
LockInv ==
  /\ \A c, d \in Calls : call[c] \in InFlight /\ call[d] \in InFlight => c = d
  /\ (\E k \in Closers \cup {Start} : closer[k] # "idle") =>
       \A c \in Calls : call[c] \in {"idle"} \cup CallEnded

StderrInv ==
  /\ worker = "panicked" => stderr = "panic" \/ panicSeen
  /\ errTask = "done" => ~Alive /\ stderr = "empty"
  /\ errTask = "cancelled" => leader = "reaped" /\ \A c \in Calls : call[c] \notin InFlight
  /\ \A c \in Calls : inHand = c \/ Contains(stdin, c) =>
       call[c] \notin {"idle", "queued", "draining"}

(* The request in flight, or its answer, is in one place, once.            *)
PipeInv ==
  /\ AtMostOne(stdin, Calls) /\ AtMostOne(stdout, Calls)
  /\ \A c, d \in Calls : ~(Contains(stdin, c) /\ Contains(stdout, d))
  /\ worker = "compiling" => \A c \in Calls : ~Contains(stdin, c) /\ ~Contains(stdout, c)
  /\ \A c \in Calls :
       Contains(stdin, c) \/ Contains(stdout, c) \/ (worker = "compiling" /\ inHand = c) =>
         call[c] \in InFlight \ {"draining"}

IInv == TypeOK /\ LifeInv /\ ReapedInv /\ LockInv /\ StderrInv /\ (Undisturbed => PipeInv)
-----------------------------------------------------------------------------
(* The process and its pipes.                                              *)

Lines == Calls \cup {"ready", "garbage"}

LEMMA PipeFacts ==
  ASSUME IInv
  PROVE  /\ stdin \in Seq(Calls) /\ stdout \in Seq(Lines)
         /\ stdin # <<>> => Head(stdin) \in Calls /\ Contains(stdin, Head(stdin))
         /\ stdout # <<>> => Head(stdout) \in Lines /\ Contains(stdout, Head(stdout))
         /\ {"ready", "garbage"} \cap Calls = {}
<1>1. stdin \in Seq(Calls) /\ stdout \in Seq(Lines)
  BY DEF IInv, TypeOK, WorkerTypeOK, Lines
<1> QED BY <1>1, TailFacts, WorkerAssumption

LEMMA WorkerKeepsRest ==
  ASSUME IInv, UNCHANGED <<groupVars, errTask, panicSeen, userVars>>, LeanWorkerStep,
         WorkerTypeOK', worker' = "compiling" => inHand' \in Calls
  PROVE  TypeOK' /\ LifeInv' /\ ReapedInv' /\ LockInv'
<1> USE DEF IInv, groupVars, userVars
<1>1. worker # "none" /\ worker' # "none"
  BY DEF LeanWorkerStep, Import, ReadRequest, Answer, PrintGarbage, Panic, WorkerExits, Alive
<1>2. TypeOK'
  BY DEF TypeOK
<1>3. LifeInv'
  BY <1>1 DEF LifeInv, Owned
<1>4. ReapedInv' /\ LockInv'
  BY DEF ReapedInv, LockInv, Gone
<1> QED BY <1>2, <1>3, <1>4

(* A line that is no answer gets into stdout.                              *)
LEMMA PrintedLine ==
  ASSUME IInv, NEW line \in {"ready", "garbage"}, stdout' = Append(stdout, line)
  PROVE  /\ stdout' \in Seq(Lines)
         /\ \A c \in Calls : Contains(stdout', c) <=> Contains(stdout, c)
         /\ AtMostOne(stdout, Calls) => AtMostOne(stdout', Calls)
<1>1. line \in Lines /\ line \notin Calls /\ stdout \in Seq(Lines)
  BY PipeFacts DEF Lines
<1>2. /\ stdout' \in Seq(Lines)
      /\ \A y : Contains(stdout', y) <=> Contains(stdout, y) \/ y = line
  BY <1>1, AppendFacts
<1>3. AtMostOne(stdout, Calls) => AtMostOne(stdout', Calls)
  BY <1>1, AppendAtMostOne
<1> QED BY <1>1, <1>2, <1>3

LEMMA WorkerKeeps ==
  ASSUME IInv, PipeStep
  PROVE  IInv'
<1> USE DEF IInv, groupVars, userVars, PipeStep
<1>0. Undisturbed' <=> Undisturbed
  BY DEF Undisturbed
<1>1. CASE Import
  <2> USE DEF Import
  <2>1. /\ stdout' \in Seq(Lines) /\ \A c \in Calls : Contains(stdout', c) <=> Contains(stdout, c)
        /\ AtMostOne(stdout, Calls) => AtMostOne(stdout', Calls)
    BY <1>1, PrintedLine
  <2>2. WorkerTypeOK'
    BY <1>1, <2>1 DEF WorkerTypeOK, TypeOK, Lines
  <2>3. StderrInv'
    BY <1>1 DEF StderrInv, Alive
  <2>4. PipeInv => PipeInv'
    BY <1>1, <2>1 DEF PipeInv
    <2>5. worker' = "compiling" => inHand' \in Calls
    BY <1>1 DEF Import, LifeInv
  <2> QED BY <1>0, <1>1, <2>2, <2>3, <2>4, <2>5, WorkerKeepsRest DEF LeanWorkerStep
<1>2. CASE PrintGarbage
  <2> USE DEF PrintGarbage
  <2>1. /\ stdout' \in Seq(Lines) /\ \A c \in Calls : Contains(stdout', c) <=> Contains(stdout, c)
        /\ AtMostOne(stdout, Calls) => AtMostOne(stdout', Calls)
    BY <1>2, PrintedLine
  <2>2. WorkerTypeOK'
    BY <1>2, <2>1 DEF WorkerTypeOK, TypeOK, Lines
  <2>3. StderrInv'
    BY <1>2 DEF StderrInv, Alive
  <2>4. PipeInv => PipeInv'
    BY <1>2, <2>1 DEF PipeInv
    <2>5. worker' = "compiling" => inHand' \in Calls
    BY <1>2 DEF PrintGarbage, LifeInv
  <2> QED BY <1>0, <1>2, <2>2, <2>3, <2>4, <2>5, WorkerKeepsRest DEF LeanWorkerStep
<1>3. CASE ReadRequest
  <2> USE DEF ReadRequest
  <2>1. /\ stdin \in Seq(Calls) /\ stdin # <<>> /\ inHand' = Head(stdin)
        /\ Head(stdin) \in Calls /\ Contains(stdin, Head(stdin)) /\ stdin' = Tail(stdin)
    BY <1>3, PipeFacts
  <2>2. stdin' \in Seq(Calls) /\ \A y : Contains(stdin', y) => Contains(stdin, y)
    BY <2>1, TailFacts
  <2>3. AtMostOne(stdin, Calls) =>
          AtMostOne(stdin', Calls) /\ \A c \in Calls : ~Contains(stdin', c)
    BY <2>1, TailAtMostOne
  <2>4. WorkerTypeOK'
    BY <1>3, <2>1, <2>2 DEF WorkerTypeOK, TypeOK
  <2>5. StderrInv'
    BY <1>3, <2>1, <2>2 DEF StderrInv, Alive
  <2>6. PipeInv => PipeInv'
    BY <1>3, <2>1, <2>2, <2>3 DEF PipeInv
    <2>7. worker' = "compiling" => inHand' \in Calls
    BY <1>3, <2>1 DEF ReadRequest, LifeInv
  <2> QED BY <1>0, <1>3, <2>4, <2>5, <2>6, <2>7, WorkerKeepsRest DEF LeanWorkerStep
<1>4. CASE Answer
  <2> USE DEF Answer
  <2>1. inHand \in Calls /\ inHand \in Lines /\ stdout \in Seq(Lines)
    BY <1>4, PipeFacts DEF Lines, LifeInv
  <2>2. /\ stdout' \in Seq(Lines)
        /\ \A y : Contains(stdout', y) <=> Contains(stdout, y) \/ y = inHand
    BY <1>4, <2>1, AppendFacts
  <2>3. PipeInv => AtMostOne(stdout', Calls)
    BY <1>4, <2>1, AppendAtMostOne DEF PipeInv
  <2>4. WorkerTypeOK'
    BY <1>4, <2>2 DEF WorkerTypeOK, TypeOK, Lines
  <2>5. StderrInv'
    BY <1>4 DEF StderrInv, Alive
  <2>6. PipeInv => PipeInv'
    BY <1>4, <2>1, <2>2, <2>3 DEF PipeInv
    <2>7. worker' = "compiling" => inHand' \in Calls
    BY <1>4 DEF Answer, LifeInv
  <2> QED BY <1>0, <1>4, <2>4, <2>5, <2>6, <2>7, WorkerKeepsRest DEF LeanWorkerStep
<1>5. CASE Panic
  <2>1. WorkerTypeOK'
    BY <1>5 DEF Panic, WorkerTypeOK, TypeOK
  <2>2. StderrInv'
    BY <1>5 DEF Panic, StderrInv, Alive
  <2>3. PipeInv => PipeInv'
    BY <1>5 DEF Panic, PipeInv
    <2>4. worker' = "compiling" => inHand' \in Calls
    BY <1>5 DEF Panic, LifeInv
  <2> QED BY <1>0, <1>5, <2>1, <2>2, <2>3, <2>4, WorkerKeepsRest DEF LeanWorkerStep
<1>6. CASE WorkerExits
  <2>1. WorkerTypeOK'
    BY <1>6 DEF WorkerExits, WorkerTypeOK, TypeOK
  <2>2. StderrInv'
    BY <1>6 DEF WorkerExits, StderrInv, Alive
  <2>3. PipeInv => PipeInv'
    BY <1>6 DEF WorkerExits, PipeInv
    <2>4. worker' = "compiling" => inHand' \in Calls
    BY <1>6 DEF WorkerExits, LifeInv
  <2> QED BY <1>0, <1>6, <2>1, <2>2, <2>3, <2>4, WorkerKeepsRest DEF LeanWorkerStep
<1> QED BY <1>1, <1>2, <1>3, <1>4, <1>5, <1>6 DEF LeanWorkerStep

LEMMA LeaderKeeps ==
  ASSUME IInv, LeaderExits \/ LeaderReaped \/ DrainStderr
  PROVE  IInv'
<1> USE DEF IInv, groupVars, userVars, workerVars
<1>1. TypeOK'
  BY DEF LeaderExits, LeaderReaped, DrainStderr, TypeOK, WorkerTypeOK
<1>2. LifeInv' /\ ReapedInv' /\ LockInv'
  BY DEF LeaderExits, LeaderReaped, DrainStderr, LifeInv, ReapedInv, LockInv, Owned, Gone
<1>3. StderrInv'
  BY DEF LeaderExits, LeaderReaped, DrainStderr, StderrInv, Alive, WriteEndsClosed
<1>4. (Undisturbed' <=> Undisturbed) /\ (PipeInv => PipeInv')
  BY DEF LeaderExits, LeaderReaped, DrainStderr, Undisturbed, PipeInv
<1> QED BY <1>1, <1>2, <1>3, <1>4
-----------------------------------------------------------------------------
(* close(), of any caller, start()'s own included.                         *)

LEMMA EnterCloseFacts ==
  ASSUME IInv, NEW k \in Closers \cup {Start}, closer[k] = "idle", EnterClose(k)
  PROVE  /\ closer' \in [Closers \cup {Start} -> {"idle", "term", "kill", "err"} \cup CloseEnded]
         /\ closer'[k] \in {"term", "err"}
         /\ closer'[k] = "err" => leader \in {"none", "reaped"} \/ ~Owned
         /\ \A j \in Closers \cup {Start} : j # k => closer'[j] = closer[j]
         /\ signal' \in {"none", "term", "kill"}
         /\ errTask' = errTask \/ (errTask = "draining" /\ errTask' = "cancelled")
         /\ errTask' # errTask => leader \in {"none", "reaped"}
BY DEF IInv, TypeOK, LifeInv, EnterClose, CancelStderr

(* A close() that is under way moves, or one begins while nothing else     *)
(* uses the backend.                                                       *)
LEMMA CloserMoves ==
  ASSUME IInv, UNCHANGED <<workerVars, leader, panicSeen, starter, call>>,
         NEW k \in Closers \cup {Start}, k = Start => closer[k] # "idle", starter # "idle",
         \A c \in Calls : call[c] \in {"idle"} \cup CallEnded,
         closer' \in [Closers \cup {Start} -> {"idle", "term", "kill", "err"} \cup CloseEnded],
         \A j \in Closers \cup {Start} : j # k => closer'[j] = closer[j],
         closer'[k] \in {"err", "closed"} => Gone,
         starter \notin {"spawning", "aborting"},
         signal' \in {"none", "term", "kill"},
         errTask' = errTask \/ (errTask = "draining" /\ errTask' = "cancelled" /\ leader = "reaped")
  PROVE  IInv'
<1> USE DEF IInv, workerVars
<1>1. TypeOK'
  BY DEF TypeOK, WorkerTypeOK
<1>2. LifeInv' /\ ReapedInv'
  BY DEF LifeInv, ReapedInv, Gone, Owned
<1>3. LockInv'
  BY DEF LockInv
<1>4. StderrInv'
  BY DEF StderrInv, Alive, InFlight, CallEnded
<1>5. (Undisturbed' <=> Undisturbed) /\ (PipeInv => PipeInv')
  BY DEF Undisturbed, PipeInv
<1> QED BY <1>1, <1>2, <1>3, <1>4, <1>5

LEMMA CloseKeeps ==
  ASSUME IInv, NEW k \in Closers \cup {Start}, Close(k) \/ CloseStep(k) \/ CancelClose(k)
  PROVE  IInv'
<1> USE DEF IInv, groupVars
<1>1. CASE Close(k)
  <2>1. /\ EnterClose(k) /\ closer[k] = "idle" /\ k # Start
        /\ starter \notin {"idle", "spawning", "aborting"}
        /\ \A c \in Calls : call[c] \in {"idle"} \cup CallEnded
        /\ UNCHANGED <<workerVars, leader, panicSeen, starter, call>>
    BY <1>1 DEF Close, Unused, StartEnded
  <2>2. errTask' # errTask => errTask = "draining" /\ leader = "reaped"
    BY <2>1, EnterCloseFacts DEF LifeInv
  <2>3. ~Owned /\ starter \notin {"spawning", "aborting"} => Gone
    BY DEF Owned, Gone, LifeInv, ReapedInv
  <2> QED BY <2>1, <2>2, <2>3, EnterCloseFacts, CloserMoves DEF Gone
<1>2. CASE CloseStep(k) \/ CancelClose(k)
  <2> USE DEF CloseStep, TermTimesOut, ProcessGone, CloseReturns, CancelClose, CancelStderr
  <2>1. /\ closer[k] # "idle" /\ starter \notin {"idle", "spawning", "aborting"}
        /\ \A c \in Calls : call[c] \in {"idle"} \cup CallEnded
        /\ UNCHANGED <<workerVars, leader, panicSeen, starter, call>>
    BY <1>2 DEF LifeInv, LockInv
  <2>2. closer' \in [Closers \cup {Start} -> {"idle", "term", "kill", "err"} \cup CloseEnded]
    BY <1>2 DEF TypeOK, CloseEnded
  <2>3. \A j \in Closers \cup {Start} : j # k => closer'[j] = closer[j]
    BY <1>2 DEF TypeOK
  <2>4. closer'[k] \in {"err", "closed"} => Gone
    BY <1>2 DEF TypeOK, ReapedInv, Gone
  <2>5. /\ signal' \in {"none", "term", "kill"}
        /\ errTask' = errTask \/ (errTask = "draining" /\ errTask' = "cancelled" /\ leader = "reaped")
    BY <1>2 DEF TypeOK
  <2> QED BY <2>1, <2>2, <2>3, <2>4, <2>5, CloserMoves
<1> QED BY <1>1, <1>2

-----------------------------------------------------------------------------
(* start().                                                                *)

LEMMA StartKeeps ==
  ASSUME IInv, StartStep
  PROVE  IInv'
<1> USE DEF IInv, groupVars, workerVars
<1>0. (Undisturbed' <=> Undisturbed) /\ call' = call
  BY DEF StartStep, Spawn, SpawnFails, PipesConnected, CancelSpawn, SpawnAborted, CancelAbort,
         ReadReady, ReadEof, ExitSeen, StartGivesUp, CancelStart, StartRaises, Undisturbed
<1>1. CASE Spawn
  <2> USE DEF Spawn
  <2>1. TypeOK'
    BY <1>1 DEF TypeOK, WorkerTypeOK
  <2>2. LifeInv' /\ ReapedInv' /\ LockInv'
    BY <1>1 DEF LifeInv, ReapedInv, LockInv, Owned
  <2>3. StderrInv'
    BY <1>1 DEF StderrInv, LifeInv, Alive
  <2>4. PipeInv => PipeInv'
    BY <1>1 DEF PipeInv
  <2> QED BY <1>0, <2>1, <2>2, <2>3, <2>4
<1>2. CASE SpawnFails \/ ReadEof \/ ExitSeen \/ StartRaises
  <2>1. /\ UNCHANGED <<workerVars, groupVars, errTask, panicSeen, call, closer>>
        /\ starter \in {"idle", "handshake", "exitWait", "failing", "cancelling"}
        /\ starter' \in {"failed", "exitWait", "errWait", "cancelled"}
        /\ starter = "idle" => starter' = "failed"
        /\ starter \in {"failing", "cancelling"} => starter' \in {"failed", "cancelled"}
        /\ starter' = "failed" => starter = "idle" \/ closer[Start] = "closed"
    BY <1>2 DEF SpawnFails, ReadEof, ExitSeen, StartRaises
  <2>2. TypeOK' /\ LockInv'
    BY <2>1 DEF TypeOK, WorkerTypeOK, StartEnded, LockInv
  <2>3. LifeInv' /\ ReapedInv'
    BY <2>1 DEF LifeInv, ReapedInv, Gone, Owned
  <2>4. StderrInv' /\ (PipeInv => PipeInv')
    BY <2>1 DEF StderrInv, Alive, PipeInv
  <2> QED BY <1>0, <2>2, <2>3, <2>4
<1>3. CASE ReadReady
  <2> USE DEF ReadReady
  <2>1. /\ stdout \in Seq(Lines) /\ stdout # <<>> /\ stdout' = Tail(stdout)
        /\ starter = "handshake" /\ starter' = "started"
        /\ UNCHANGED <<worker, inHand, stdin, stderr, groupVars, errTask, panicSeen, call, closer>>
    BY <1>3, PipeFacts DEF SeesLine
  <2>2. /\ stdout' \in Seq(Lines) /\ \A y : Contains(stdout', y) => Contains(stdout, y)
        /\ AtMostOne(stdout, Calls) => AtMostOne(stdout', Calls)
    BY <2>1, TailFacts, TailAtMostOne
  <2>3. TypeOK' /\ LifeInv' /\ ReapedInv' /\ LockInv'
    BY <2>1, <2>2
    DEF TypeOK, WorkerTypeOK, StartEnded, LifeInv, ReapedInv, LockInv, Lines, Gone, Owned
  <2>4. StderrInv' /\ (PipeInv => PipeInv')
    BY <2>1, <2>2 DEF StderrInv, Alive, PipeInv
  <2> QED BY <1>0, <2>3, <2>4
<1>4. CASE StartGivesUp \/ CancelStart
  <2>1. /\ EnterClose(Start) /\ starter \in {"handshake", "exitWait", "errWait"}
        /\ starter' \in {"failing", "cancelling"}
        /\ UNCHANGED <<workerVars, leader, panicSeen, call>>
    BY <1>4 DEF StartGivesUp, CancelStart
  <2>2. leader # "none" /\ \A c \in Calls : call[c] = "idle"
    BY <2>1 DEF LifeInv
  <2>3. /\ closer' \in [Closers \cup {Start} -> {"idle", "term", "kill", "err"} \cup CloseEnded]
        /\ \A j \in Closers \cup {Start} :
             \/ closer'[j] = closer[j]
             \/ closer'[j] = "term"
             \/ closer'[j] = "err" /\ leader = "reaped"
        /\ signal' \in {"none", "term", "kill"}
        /\ errTask' = errTask \/ (errTask = "draining" /\ errTask' = "cancelled" /\ leader = "reaped")
    BY <2>1, <2>2 DEF EnterClose, Owned, CancelStderr, TypeOK
  <2>4. TypeOK' /\ LockInv'
    BY <2>1, <2>2, <2>3 DEF TypeOK, WorkerTypeOK, LockInv, InFlight
  <2>5. LifeInv' /\ ReapedInv'
    BY <2>1, <2>2, <2>3 DEF LifeInv, ReapedInv, Gone, Owned
  <2>6. StderrInv' /\ (PipeInv => PipeInv')
    BY <2>1, <2>2, <2>3 DEF StderrInv, Alive, PipeInv, InFlight
  <2> QED BY <1>0, <2>4, <2>5, <2>6
<1>5. CASE PipesConnected \/ CancelSpawn \/ SpawnAborted \/ CancelAbort
  <2>1. /\ starter \in {"spawning", "aborting"}
        /\ UNCHANGED <<workerVars, signal, panicSeen, call, closer>>
        /\ \/ starter' = "handshake" /\ leader' = leader /\ errTask' = "draining"
           \/ starter' = "aborting" /\ leader' \in {"zombie", "none", "reaped"}
                /\ (leader' = "none" <=> leader = "none") /\ (leader = "reaped" => leader' = "reaped")
                /\ errTask' = errTask
           \/ starter' = "aborted" /\ leader = "reaped" /\ UNCHANGED <<leader, errTask>>
           \/ starter = "aborting" /\ starter' = "abandoned" /\ UNCHANGED <<leader, errTask>>
    BY <1>5 DEF PipesConnected, CancelSpawn, SpawnAborted, CancelAbort, TypeOK
  <2>2. /\ leader # "none" /\ errTask = "none" /\ \A c \in Calls : call[c] = "idle"
        /\ \A k \in Closers \cup {Start} : closer[k] = "idle"
    BY <2>1 DEF LifeInv, Owned
  <2>3. TypeOK' /\ LockInv'
    BY <2>1, <2>2 DEF TypeOK, WorkerTypeOK, StartEnded, LockInv, InFlight
  <2>4. LifeInv' /\ ReapedInv'
    BY <2>1, <2>2 DEF LifeInv, ReapedInv, Owned
  <2>5. StderrInv' /\ (PipeInv => PipeInv')
    BY <2>1, <2>2 DEF StderrInv, Alive, PipeInv, InFlight
  <2> QED BY <1>0, <2>3, <2>4, <2>5
<1> QED BY <1>1, <1>2, <1>3, <1>4, <1>5 DEF StartStep
-----------------------------------------------------------------------------
(* compile().                                                              *)

(* The lock is not shared, a lost stderr task has no reader, and a call    *)
(* whose request the worker can have read is past its drain().             *)
LEMMA CallMoves ==
  ASSUME IInv, NEW c \in Calls, NEW place \in {"queued"} \cup InFlight \cup CallEnded,
         Moves(c, place), UNCHANGED <<worker, inHand, stderr, panicSeen>>,
         call[c] \notin CallEnded, starter = "started",
         \A k \in Closers \cup {Start} : closer[k] = "idle",
         place \in InFlight => call[c] \in InFlight \/ (LockFree /\ leader # "reaped"),
         place = "errWait" => leader = "reaped",
         place \in {"queued", "draining"} => call[c] \in {"idle", "queued", "draining"} /\ stdin' = stdin,
         stdin' \in Seq(Calls), stdout' \in Seq(Lines),
         \A d \in Calls : Contains(stdin', d) => Contains(stdin, d) \/ d = c,
         \/ errTask' = errTask
         \/ /\ errTask = "draining" /\ errTask' = "cancelled" /\ leader = "reaped"
            /\ call[c] \in InFlight /\ place \notin InFlight
  PROVE  /\ TypeOK' /\ LifeInv' /\ ReapedInv' /\ LockInv' /\ StderrInv'
         /\ Undisturbed' => Undisturbed
         /\ call'[c] = place /\ \A d \in Calls : d # c => call'[d] = call[d]
<1> USE DEF IInv, Moves, groupVars
<1>1. call'[c] = place /\ \A d \in Calls : d # c => call'[d] = call[d]
  BY DEF TypeOK
<1>2. TypeOK'
  BY DEF TypeOK, WorkerTypeOK, Lines
<1>3. LifeInv' /\ ReapedInv'
  BY <1>1 DEF LifeInv, ReapedInv, Gone, Owned
<1>4. LockInv'
  BY <1>1 DEF LockInv, LockFree
<1>5. errTask' = "cancelled" => leader' = "reaped" /\ \A d \in Calls : call'[d] \notin InFlight
  BY <1>1 DEF StderrInv, LockInv, LockFree
<1>6. \A d \in Calls : inHand' = d \/ Contains(stdin', d) =>
        call'[d] \notin {"idle", "queued", "draining"}
  BY <1>1 DEF StderrInv, InFlight, CallEnded
<1>7. StderrInv'
  BY <1>5, <1>6 DEF StderrInv, Alive
<1>8. Undisturbed' => Undisturbed
  BY <1>1 DEF Undisturbed
<1> QED BY <1>1, <1>2, <1>3, <1>4, <1>7, <1>8

(* Who can be in a compile() at all.                                       *)
LEMMA CallUnderway ==
  ASSUME IInv, NEW c \in Calls, call[c] \in {"queued"} \cup InFlight
  PROVE  /\ starter = "started" /\ call[c] \notin CallEnded
         /\ \A k \in Closers \cup {Start} : closer[k] = "idle"
<1>1. call[c] \notin {"idle"} \cup CallEnded
  BY DEF InFlight, CallEnded
<1> QED BY <1>1 DEF IInv, LifeInv, LockInv

(* While c drains, or nothing is in flight, the pipes hold no request.     *)
LEMMA QuietPipes ==
  ASSUME IInv, PipeInv, NEW c \in Calls, LockFree \/ call[c] = "draining"
  PROVE  /\ \A d \in Calls : ~Contains(stdin, d) /\ ~Contains(stdout, d)
         /\ worker # "compiling"
<1>1. ASSUME NEW d \in Calls, call[d] \in InFlight \ {"draining"} PROVE FALSE
  BY <1>1 DEF IInv, LockInv, LockFree, InFlight
<1> QED BY <1>1 DEF PipeInv, IInv, LifeInv

LEMMA SendsRequest ==
  ASSUME IInv, NEW c \in Calls, stdin' = Append(stdin, c)
  PROVE  /\ stdin' \in Seq(Calls)
         /\ \A d : Contains(stdin', d) <=> Contains(stdin, d) \/ d = c
         /\ (\A d \in Calls : ~Contains(stdin, d)) /\ AtMostOne(stdin, Calls) =>
              AtMostOne(stdin', Calls)
BY PipeFacts, AppendFacts, AppendAtMostOne

LEMMA CallKeeps ==
  ASSUME IInv, NEW c \in Calls, Compile(c) \/ CallStep(c) \/ CancelCall(c)
  PROVE  IInv'
<1> USE DEF IInv
<1>0. stdin \in Seq(Calls) /\ stdout \in Seq(Lines)
  BY PipeFacts
<1>1. CASE Compile(c)
  <2>1. /\ Moves(c, "queued") /\ call[c] = "idle" /\ starter = "started"
        /\ UNCHANGED <<workerVars, errTask, panicSeen>>
        /\ \A k \in Closers \cup {Start} : closer[k] = "idle"
    BY <1>1 DEF Compile, LifeInv
  <2>2. /\ TypeOK' /\ LifeInv' /\ ReapedInv' /\ LockInv' /\ StderrInv'
        /\ Undisturbed' => Undisturbed
        /\ call'[c] = "queued" /\ \A d \in Calls : d # c => call'[d] = call[d]
    BY <1>0, <2>1, CallMoves DEF workerVars, InFlight, CallEnded
  <2>3. PipeInv => PipeInv'
    BY <2>1, <2>2 DEF PipeInv, workerVars, InFlight
  <2> QED BY <2>2, <2>3
<1>2. CASE Acquire(c)
  <2>0. /\ call[c] = "queued" /\ LockFree /\ WriteRequest(c)
        /\ UNCHANGED <<worker, inHand, stdout, stderr, errTask, panicSeen>>
        /\ starter = "started" /\ call[c] \notin CallEnded
        /\ \A k \in Closers \cup {Start} : closer[k] = "idle"
    BY <1>2, CallUnderway DEF Acquire
  <2>1. PICK place \in {"exited", "unsent", "reading", "draining"} :
          /\ Moves(c, place) /\ (place \in InFlight => leader # "reaped")
          /\ IF place = "reading" THEN stdin' = Append(stdin, c) ELSE stdin' = stdin
    BY <2>0 DEF WriteRequest, InFlight
  <2>2. /\ stdin' \in Seq(Calls)
        /\ \A d \in Calls : Contains(stdin', d) => Contains(stdin, d) \/ d = c
    BY <1>0, <2>1, SendsRequest
  <2>3. /\ TypeOK' /\ LifeInv' /\ ReapedInv' /\ LockInv' /\ StderrInv'
        /\ Undisturbed' => Undisturbed
        /\ call'[c] = place /\ \A d \in Calls : d # c => call'[d] = call[d]
    BY <1>0, <2>0, <2>1, <2>2, CallMoves DEF InFlight, CallEnded
  <2>4. ASSUME PipeInv PROVE PipeInv'
    <3>1. /\ \A d \in Calls : ~Contains(stdin, d) /\ ~Contains(stdout, d)
          /\ worker # "compiling"
      BY <2>0, <2>4, QuietPipes
    <3>2. AtMostOne(stdin', Calls) /\ (place # "reading" => stdin' = stdin)
      BY <2>1, <2>4, <3>1, SendsRequest DEF PipeInv
    <3> QED BY <2>0, <2>2, <2>3, <2>4, <3>1, <3>2 DEF PipeInv, InFlight
  <2> QED BY <2>3, <2>4
<1>3. CASE DrainEnds(c)
  <2>1. /\ call[c] = "draining" /\ stdin' = Append(stdin, c)
        /\ UNCHANGED <<worker, inHand, stdout, stderr, errTask, panicSeen>>
        /\ starter = "started" /\ call[c] \notin CallEnded
        /\ \A k \in Closers \cup {Start} : closer[k] = "idle"
    BY <1>3, CallUnderway DEF DrainEnds, InFlight
  <2>2. PICK place \in {"exited", "reading"} : Moves(c, place)
    BY <1>3 DEF DrainEnds
  <2>3. /\ stdin' \in Seq(Calls)
        /\ \A d \in Calls : Contains(stdin', d) => Contains(stdin, d) \/ d = c
    BY <2>1, SendsRequest
  <2>4. /\ TypeOK' /\ LifeInv' /\ ReapedInv' /\ LockInv' /\ StderrInv'
        /\ Undisturbed' => Undisturbed
        /\ call'[c] = place /\ \A d \in Calls : d # c => call'[d] = call[d]
    BY <1>0, <2>1, <2>2, <2>3, CallMoves DEF InFlight, CallEnded
  <2>5. ASSUME PipeInv, Undisturbed' PROVE PipeInv'
    <3>1. /\ \A d \in Calls : ~Contains(stdin, d) /\ ~Contains(stdout, d)
          /\ worker # "compiling"
      BY <2>1, <2>5, QuietPipes
    <3>2. AtMostOne(stdin', Calls)
      BY <2>1, <2>5, <3>1, SendsRequest DEF PipeInv
    <3>3. call'[c] = "reading"
      BY <2>4, <2>5 DEF Undisturbed, CallEnded
    <3> QED BY <2>1, <2>3, <2>4, <2>5, <3>1, <3>2, <3>3 DEF PipeInv, InFlight
  <2> QED BY <2>4, <2>5
<1>4. CASE DrainBreaks(c) \/ ReportExit(c)
  <2>1. /\ call[c] \in {"draining", "errWait"} /\ call[c] \in InFlight
        /\ UNCHANGED <<workerVars, errTask, panicSeen>>
    BY <1>4 DEF DrainBreaks, ReportExit, InFlight
  <2>2. PICK place \in {"exited", "panic"} : Moves(c, place)
    BY <1>4 DEF DrainBreaks, ReportExit
  <2>3. /\ TypeOK' /\ LifeInv' /\ ReapedInv' /\ LockInv' /\ StderrInv' /\ call'[c] = place
    BY <1>0, <2>1, <2>2, CallUnderway, CallMoves DEF workerVars, InFlight, CallEnded
  <2>4. ~Undisturbed'
    BY <2>3 DEF Undisturbed, CallEnded
  <2> QED BY <2>3, <2>4
<1>5. CASE ReadAnswer(c)
  <2>1. /\ call[c] = "reading" /\ stdout # <<>> /\ stdout' = Tail(stdout)
        /\ UNCHANGED <<worker, inHand, stdin, stderr, errTask, panicSeen>>
        /\ starter = "started" /\ call[c] \notin CallEnded
        /\ \A k \in Closers \cup {Start} : closer[k] = "idle"
    BY <1>5, CallUnderway DEF ReadAnswer, SeesLine, InFlight
  <2>2. PICK place \in {"answered", "misread"} :
          Moves(c, place) /\ (place = "answered" => Head(stdout) = c)
    BY <1>5 DEF ReadAnswer
  <2>3. /\ stdout' \in Seq(Lines) /\ Contains(stdout, Head(stdout))
        /\ \A y : Contains(stdout', y) => Contains(stdout, y)
    BY <1>0, <2>1, TailFacts
  <2>4. /\ TypeOK' /\ LifeInv' /\ ReapedInv' /\ LockInv' /\ StderrInv'
        /\ Undisturbed' => Undisturbed
        /\ call'[c] = place /\ \A d \in Calls : d # c => call'[d] = call[d]
    BY <1>0, <2>1, <2>2, <2>3, CallMoves DEF InFlight, CallEnded
  <2>5. ASSUME PipeInv, Undisturbed' PROVE PipeInv'
    <3>1. Head(stdout) = c
      BY <2>2, <2>4, <2>5 DEF Undisturbed, CallEnded
    <3>2. AtMostOne(stdout', Calls) /\ \A d \in Calls : ~Contains(stdout', d)
      BY <1>0, <2>1, <2>5, <3>1, TailAtMostOne DEF PipeInv
    <3>3. Contains(stdout, c) /\ \A d \in Calls : ~Contains(stdin, d)
      BY <2>3, <2>5, <3>1 DEF PipeInv
    <3>4. worker # "compiling"
      BY <2>5, <3>3 DEF PipeInv
    <3> QED BY <2>1, <2>4, <2>5, <3>2, <3>3, <3>4 DEF PipeInv
  <2> QED BY <2>4, <2>5
<1>6. CASE ReadsEof(c) \/ WaitedForExit(c)
  <2>1. /\ call[c] \in {"reading", "exitWait"} /\ call[c] \in InFlight
        /\ UNCHANGED <<workerVars, errTask, panicSeen>>
    BY <1>6 DEF ReadsEof, WaitedForExit, InFlight
  <2>2. PICK place \in {"exitWait", "errWait"} :
          Moves(c, place) /\ (place = "errWait" => leader = "reaped")
    BY <1>6 DEF ReadsEof, WaitedForExit
  <2>3. /\ TypeOK' /\ LifeInv' /\ ReapedInv' /\ LockInv' /\ StderrInv'
        /\ Undisturbed' => Undisturbed
        /\ call'[c] = place /\ \A d \in Calls : d # c => call'[d] = call[d]
    BY <1>0, <2>1, <2>2, CallUnderway, CallMoves DEF workerVars, InFlight, CallEnded
  <2>4. PipeInv => PipeInv'
    BY <2>1, <2>3 DEF PipeInv, workerVars, InFlight
  <2> QED BY <2>3, <2>4
<1>7. CASE CancelCall(c)
  <2> USE DEF CancelCall, CancelStderr
  <2>1. /\ call[c] \in {"queued"} \cup InFlight /\ Moves(c, "cancelled")
        /\ UNCHANGED <<worker, inHand, stdout, stderr, panicSeen>>
    BY <1>7
  <2>2. /\ stdin' \in Seq(Calls)
        /\ \A d \in Calls : Contains(stdin', d) => Contains(stdin, d) \/ d = c
    BY <1>0, <1>7, SendsRequest
  <2>3. \/ errTask' = errTask
        \/ /\ errTask = "draining" /\ errTask' = "cancelled" /\ leader = "reaped"
           /\ call[c] \in InFlight
    BY <1>7 DEF ReapedInv, InFlight
  <2>4. TypeOK' /\ LifeInv' /\ ReapedInv' /\ LockInv' /\ StderrInv' /\ call'[c] = "cancelled"
    BY <1>0, <2>1, <2>2, <2>3, CallUnderway, CallMoves DEF InFlight, CallEnded
  <2>5. ~Undisturbed'
    BY <2>4 DEF Undisturbed, CallEnded
  <2> QED BY <2>4, <2>5
<1> QED BY <1>1, <1>2, <1>3, <1>4, <1>5, <1>6, <1>7 DEF CallStep

-----------------------------------------------------------------------------
(* IInv is inductive.                                                      *)

LEMMA InitInv == Init => IInv
<1> SUFFICES ASSUME Init PROVE IInv
  OBVIOUS
<1> USE DEF Init, WorkerInit
<1>1. \A y : ~Contains(stdin, y) /\ ~Contains(stdout, y)
  BY DEF Contains
<1>2. AtMostOne(stdin, Calls) /\ AtMostOne(stdout, Calls)
  BY DEF AtMostOne
<1>3. TypeOK
  <2>1. stdin \in Seq(Calls) /\ stdout \in Seq(Calls \cup {"ready", "garbage"})
    OBVIOUS
  <2>2. WorkerTypeOK
    BY <2>1 DEF WorkerTypeOK
  <2> QED BY <2>2 DEF TypeOK
<1>4. LifeInv /\ ReapedInv /\ LockInv
  BY DEF LifeInv, ReapedInv, LockInv, InFlight, Owned
<1>5. StderrInv /\ PipeInv
  BY <1>1, <1>2, WorkerAssumption DEF StderrInv, PipeInv
<1> QED BY <1>3, <1>4, <1>5 DEF IInv

LEMMA StutterKeeps ==
  ASSUME IInv, UNCHANGED vars
  PROVE  IInv'
<1> USE DEF IInv, vars, workerVars
<1>1. TypeOK' /\ LifeInv' /\ ReapedInv' /\ LockInv'
  BY DEF TypeOK, WorkerTypeOK, LifeInv, ReapedInv, LockInv, Gone, Owned
<1>2. StderrInv' /\ (Undisturbed' <=> Undisturbed) /\ (PipeInv => PipeInv')
  BY DEF StderrInv, Alive, Undisturbed, PipeInv
<1> QED BY <1>1, <1>2

LEMMA NextKeeps == IInv /\ [Next]_vars => IInv'
BY WorkerKeeps, LeaderKeeps, StartKeeps, CallKeeps, CloseKeeps, StutterKeeps
   DEF Next, Terminated

(* IInv holds in every reachable state.                                    *)
THEOREM Inductive == Spec => []IInv
BY InitInv, NextKeeps, PTL DEF Spec

-----------------------------------------------------------------------------
(* The variables have their types: stdout carries an answer only under the *)
(* id of a request the worker was sent.                                    *)
THEOREM TypeCorrect == Spec => []TypeOK
<1>1. IInv => TypeOK
  BY DEF IInv
<1> QED BY Inductive, <1>1, PTL

(* However many compile() calls overlap, as long as none was interrupted   *)
(* or failed once its request was sent, the pipes hold nothing but the     *)
(* request in flight or its answer: the next line the reader sees is its   *)
(* own.                                                                    *)
THEOREM RequestsInStep == Spec => []InStep
<1>1. IInv => InStep
  <2> SUFFICES ASSUME IInv, Undisturbed, NEW x \in Traffic, NEW y \in Traffic
               PROVE  x = y /\ call[x[3]] \in InFlight \ {"draining"}
    BY DEF InStep
  <2>1. PipeInv /\ (worker = "compiling" => inHand \in Calls)
    BY DEF IInv, LifeInv
  <2> DEFINE In(z) ==
        \/ \E i \in 1..Len(stdin) : z = <<"stdin", i, stdin[i]>>
        \/ z = <<"worker", 1, inHand>> /\ worker = "compiling"
        \/ \E i \in 1..Len(stdout) : stdout[i] \in Calls /\ z = <<"stdout", i, stdout[i]>>
  <2>2. stdin \in Seq(Calls) /\ stdout \in Seq(Lines)
    BY PipeFacts
  <2>3. /\ DOMAIN stdin = 1..Len(stdin) /\ DOMAIN stdout = 1..Len(stdout)
        /\ \A i \in 1..Len(stdin) : stdin[i] \in Calls /\ Contains(stdin, stdin[i])
        /\ \A i \in 1..Len(stdout) : Contains(stdout, stdout[i])
    BY <2>2, LenProperties, ElementOfSeq DEF Contains
  <2>4. \A z \in Traffic : In(z)
    BY <2>3 DEF Traffic
  <2>5. x = y
    BY <2>1, <2>3, <2>4 DEF PipeInv, AtMostOne
  <2>6. \A z \in Traffic : call[z[3]] \in InFlight \ {"draining"}
    BY <2>1, <2>3, <2>4 DEF PipeInv
  <2> QED BY <2>5, <2>6
<1> QED BY Inductive, <1>1, PTL

(* A close() that returned, a start() that raised its own error and one    *)
(* cut off in its spawn have waited for the process, whatever other        *)
(* close() calls were cancelled; the exception is the killed leader of a   *)
(* spawn that was cancelled twice.                                         *)
THEOREM ClosedReaped == Spec => []ClosedMeansReaped
<1>1. IInv => ClosedMeansReaped
  BY DEF IInv, ReapedInv, Gone, ClosedMeansReaped
<1> QED BY Inductive, <1>1, PTL

(* A panic of the worker is never reported as a retryable exit to the call *)
(* whose request caused it.                                                *)
THEOREM PanicAlwaysReported == Spec => PanicReported
<1> DEFINE A == \A c \in Calls :
       call[c] # "exited" /\ call'[c] = "exited" => ~(worker = "panicked" /\ inHand = c)
<1>1. ASSUME IInv, [Next]_vars, NEW c \in Calls, call[c] # "exited", call'[c] = "exited",
             worker = "panicked", inHand = c
      PROVE  FALSE
  <2> USE DEF IInv
  <2>1. call[c] \notin {"idle", "queued", "draining"} /\ call \in [Calls ->
          {"idle", "queued"} \cup InFlight \cup CallEnded]
    BY <1>1 DEF StderrInv, TypeOK
  <2>2. PICK d \in Calls : Compile(d) \/ CallStep(d) \/ CancelCall(d)
    <3>1. call' # call
      BY <1>1
    <3> QED
      BY <1>1, <3>1
      DEF Next, PipeStep, userVars, LeaderExits, LeaderReaped, DrainStderr, StartStep, Spawn,
          SpawnFails, PipesConnected, CancelSpawn, SpawnAborted, CancelAbort, ReadReady,
          ReadEof, ExitSeen, StartGivesUp, CancelStart, StartRaises,
          Close, CloseStep, TermTimesOut, ProcessGone, CloseReturns, CancelClose, Terminated, vars
  <2>3. d = c /\ ReportExit(c)
    BY <1>1, <2>1, <2>2
    DEF Compile, CallStep, CancelCall, Acquire, WriteRequest, DrainEnds, DrainBreaks, ReadAnswer,
        ReadsEof, WaitedForExit, ReportExit, Moves
  <2>4. call[c] = "errWait" /\ errTask # "draining" /\ ~panicSeen
    BY <1>1, <2>1, <2>3 DEF ReportExit, Moves, ErrTaskOver
  <2>5. errTask \notin {"none", "cancelled"}
    BY <1>1, <2>4 DEF StderrInv, LifeInv, InFlight, Owned
  <2> QED BY <1>1, <2>4, <2>5 DEF StderrInv, TypeOK
<1>2. IInv /\ [Next]_vars => [A]_vars
  BY <1>1
<1> QED BY Inductive, <1>2, PTL DEF Spec, PanicReported
=============================================================================
