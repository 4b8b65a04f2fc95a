-------------------------- MODULE PoolStartupProofs --------------------------
(***************************************************************************)
(* Safety of start() for any number of backends and any parallelism.       *)
(*                                                                         *)
(* IInv is the inductive invariant.  That permits are conserved needs that *)
(* the waiters are the tasks that wait, each once (QueueInv); that nothing *)
(* is spawned after a failure, and nothing left, needs that a task which   *)
(* has not been resumed since then has its cancellation pending, and that  *)
(* the semaphore passes no permit to such a task (FailureInv).             *)
(***************************************************************************)
EXTENDS PoolStartup, QueueLemmas, FiniteSetTheorems

Holders == {w \in Workers : task[w] \in Holding}

(* The semaphore.                                                          *)
QueueInv == PermitsConserved /\ Distinct(waiters)

(* How far start() and the pool are.                                       *)
PhaseInv ==
  /\ starter = "idle" <=> poolState = "created"
  /\ starter \in {"gathering", "cancelling", "closing"} => poolState = "starting"
  /\ starter = "returned" <=> poolState = "running"
  /\ starter = "raised" => poolState \in {"starting", "closed"}
  /\ poolState = "running" => readyWorkers = Cardinality(Workers)

(* What the tasks may still do, and have left behind, by then.             *)
FailureInv ==
  \A w \in Workers :
       /\ starter = "idle" => task[w] = "none" /\ process[w] = "none"
       /\ starter \in {"gathering", "cancelling"} => task[w] # "none"
       /\ starter \in {"idle", "gathering", "returned"} => ~cancelPending[w]
       /\ starter = "cancelling" /\ task[w] \in {"created", "waiting", "granted", "starting"} =>
            cancelPending[w]
       /\ starter = "closing" => task[w] \in Done
       /\ starter = "returned" => task[w] = "started"
       /\ starter = "raised" /\ poolState = "closed" => task[w] \in Done /\ process[w] # "live"
       /\ starter = "raised" /\ poolState = "starting" => task[w] = "none" /\ process[w] = "none"
       /\ task[w] \in {"starting", "started"} => process[w] # "none"

IInv == TypeOK /\ QueueInv /\ PhaseInv /\ FailureInv

-----------------------------------------------------------------------------
(* The number of permits in use.                                           *)

LEMMA LimitFacts ==
  /\ Cardinality(Workers) \in Nat /\ Limit \in Nat
  /\ \A A \in SUBSET Workers : IsFiniteSet(A) /\ Cardinality(A) \in Nat
BY StartupAssumption, FS_Subset, FS_CardinalityType DEF Limit

LEMMA HoldersGain ==
  ASSUME NEW A \in SUBSET Workers, NEW w \in Workers
  PROVE  /\ w \notin A => Cardinality(A \cup {w}) = Cardinality(A) + 1
         /\ w \in A => /\ Cardinality(A \ {w}) = Cardinality(A) - 1
                       /\ Cardinality(A) > 0
<1>1. IsFiniteSet(A) /\ Cardinality(A) \in Nat
  BY LimitFacts
<1>2. w \in A => Cardinality(A) # 0
  BY <1>1, FS_EmptySet
<1>3. w \notin A => Cardinality(A \cup {w}) = Cardinality(A) + 1
  BY <1>1, FS_AddElement
<1>4. w \in A => Cardinality(A \ {w}) = Cardinality(A) - 1
  BY <1>1, FS_RemoveElement
<1>5. w \in A => Cardinality(A) > 0
  BY <1>1, <1>2
<1> QED BY <1>3, <1>4, <1>5

(* A task alone moves.                                                     *)
LEMMA TaskMoves ==
  ASSUME TypeOK, NEW w \in Workers, NEW s, task' = [task EXCEPT ![w] = s]
  PROVE  /\ Holders \in SUBSET Workers /\ Cardinality(Holders) \in Nat
         /\ s \in Holding /\ task[w] \in Holding =>
              Cardinality(Holders') = Cardinality(Holders)
         /\ s \notin Holding /\ task[w] \notin Holding =>
              Cardinality(Holders') = Cardinality(Holders)
         /\ s \in Holding /\ task[w] \notin Holding =>
              Cardinality(Holders') = Cardinality(Holders) + 1
         /\ s \notin Holding /\ task[w] \in Holding =>
              /\ Cardinality(Holders') = Cardinality(Holders) - 1
              /\ Cardinality(Holders) > 0
<1>1. Holders \in SUBSET Workers /\ Cardinality(Holders) \in Nat
  BY LimitFacts DEF Holders
<1>2. task'[w] = s /\ \A v \in Workers \ {w} : task'[v] = task[v]
  BY DEF TypeOK
<1>3. Holders' = IF s \in Holding THEN Holders \cup {w} ELSE Holders \ {w}
  BY <1>2 DEF Holders
<1>4. task[w] \in Holding <=> w \in Holders
  BY DEF Holders
<1>5. /\ w \in Holders => Holders \cup {w} = Holders
      /\ w \notin Holders => Holders \ {w} = Holders
  OBVIOUS
<1> QED BY <1>1, <1>3, <1>4, <1>5, HoldersGain

(* A task that leaves the block hands its permit on, or gives it back: to  *)
(* one waiter, the oldest, and only if that one has not been cancelled.    *)
LEMMA Leaves ==
  ASSUME IInv, NEW w \in Workers, task[w] \in Holding, NEW s \in Done, LeaveHolding(w, s)
  PROVE  /\ permits' \in 0..Limit /\ waiters' \in Seq(Workers)
         /\ QueueInv'
         /\ task' \in [Workers -> {"none", "created", "waiting"} \cup Holding \cup Done]
         /\ task'[w] = s
         /\ \A v \in Workers \ {w} :
              \/ task'[v] = task[v]
              \/ task[v] = "waiting" /\ task'[v] = "granted" /\ ~cancelPending[v]
<1> USE DEF IInv
<1>0. /\ Limit \in Nat /\ permits \in Nat /\ waiters \in Seq(Workers)
      /\ task \in [Workers -> {"none", "created", "waiting"} \cup Holding \cup Done]
      /\ permits + Cardinality(Holders) = Limit
      /\ \A v \in Workers : task[v] = "waiting" <=> Contains(waiters, v)
      /\ Distinct(waiters)
      /\ s \notin Holding /\ task[w] # "waiting" /\ s # "waiting"
  BY LimitFacts DEF TypeOK, QueueInv, PermitsConserved, Holders, Holding, Done
<1>1. CASE task' = [task EXCEPT ![w] = s] /\ permits' = permits + 1 /\ UNCHANGED waiters
  <2>1. /\ Cardinality(Holders') = Cardinality(Holders) - 1 /\ Cardinality(Holders) > 0
        /\ Cardinality(Holders) \in Nat
    BY <1>0, <1>1, TaskMoves
  <2>2. task'[w] = s /\ \A v \in Workers \ {w} : task'[v] = task[v]
    BY <1>0, <1>1
  <2>3. permits' + Cardinality(Holders') = Limit /\ permits' \in 0..Limit
    BY <1>0, <1>1, <2>1
  <2>4. \A v \in Workers : task'[v] = "waiting" <=> Contains(waiters', v)
    BY <1>0, <1>1, <2>2
  <2>5. task' \in [Workers -> {"none", "created", "waiting"} \cup Holding \cup Done]
    BY <1>0, <1>1
  <2> QED BY <1>0, <1>1, <2>2, <2>3, <2>4, <2>5 DEF QueueInv, PermitsConserved, Holders
<1>2. ASSUME waiters # <<>>, ~cancelPending[Head(waiters)],
             task' = [task EXCEPT ![w] = s, ![Head(waiters)] = "granted"],
             waiters' = Tail(waiters), UNCHANGED permits
      PROVE  /\ permits' \in 0..Limit /\ waiters' \in Seq(Workers)
             /\ QueueInv'
             /\ task' \in [Workers -> {"none", "created", "waiting"} \cup Holding \cup Done]
             /\ task'[w] = s
             /\ \A v \in Workers \ {w} :
                  \/ task'[v] = task[v]
                  \/ task[v] = "waiting" /\ task'[v] = "granted" /\ ~cancelPending[v]
  <2> DEFINE h == Head(waiters)
  <2>1. /\ h \in Workers /\ Contains(waiters, h)
        /\ waiters' \in Seq(Workers) /\ Distinct(waiters')
        /\ \A v : Contains(waiters', v) <=> Contains(waiters, v) /\ v # h
    BY <1>0, <1>2, TailFacts
  <2>2. task[h] = "waiting" /\ h # w
    BY <1>0, <2>1
  <2> HIDE DEF h
  <2>3. /\ task'[w] = s /\ task'[h] = "granted"
        /\ \A v \in Workers \ {w, h} : task'[v] = task[v]
    BY <1>0, <1>2, <2>1, <2>2 DEF h
  <2>4. task' \in [Workers -> {"none", "created", "waiting"} \cup Holding \cup Done]
    BY <1>0, <1>2, <2>1 DEF Holding, h
  <2>5. Holders' = (Holders \ {w}) \cup {h} /\ h \notin Holders /\ w \in Holders
    BY <1>0, <2>1, <2>2, <2>3 DEF Holders, Holding
  <2>6. Cardinality(Holders') = Cardinality(Holders)
    <3>1. Holders \in SUBSET Workers /\ Holders \ {w} \in SUBSET Workers
      BY DEF Holders
    <3>2. Cardinality(Holders \ {w}) = Cardinality(Holders) - 1 /\ Cardinality(Holders) \in Nat
      BY <2>5, <3>1, HoldersGain, LimitFacts
    <3>3. Cardinality((Holders \ {w}) \cup {h}) = Cardinality(Holders \ {w}) + 1
      BY <2>1, <2>5, <3>1, HoldersGain
    <3> QED BY <2>5, <3>2, <3>3
  <2>7. \A v \in Workers : task'[v] = "waiting" <=> Contains(waiters', v)
    BY <1>0, <2>1, <2>2, <2>3
  <2>8. permits' \in 0..Limit
    BY <1>2 DEF TypeOK
  <2> QED BY <1>0, <1>2, <2>1, <2>2, <2>3, <2>4, <2>6, <2>7, <2>8
       DEF QueueInv, PermitsConserved, Holders, h
<1> QED BY <1>1, <1>2 DEF LeaveHolding, semaphore

-----------------------------------------------------------------------------
(* IInv is inductive.                                                      *)

LEMMA InitInv == Init => IInv
<1> SUFFICES ASSUME Init PROVE IInv
  OBVIOUS
<1>1. TypeOK
  <2>1. <<>> \in Seq(Workers) /\ Limit \in 0..Limit
    BY LimitFacts
  <2> QED BY <2>1 DEF Init, TypeOK
<1>2. QueueInv
  <2>1. Holders = {}
    BY DEF Init, Holders, Holding
  <2>2. Cardinality(Holders) = 0
    BY <2>1, FS_EmptySet
  <2>3. Distinct(waiters) /\ \A w \in Workers : task[w] # "waiting" /\ ~Contains(waiters, w)
    BY DEF Init, Distinct, Contains
  <2> QED BY <2>2, <2>3, LimitFacts DEF QueueInv, PermitsConserved, Holders, Init
<1>3. PhaseInv /\ FailureInv
  BY DEF Init, PhaseInv, FailureInv
<1> QED BY <1>1, <1>2, <1>3 DEF IInv

LEMMA StarterKeeps ==
  ASSUME IInv, StarterStep
  PROVE  IInv'
<1> USE DEF IInv
<1>0. CASE FactoryFails
  <2>1. TypeOK' /\ QueueInv'
    BY <1>0 DEF FactoryFails, semaphore, TypeOK, QueueInv, PermitsConserved
  <2>2. PhaseInv' /\ FailureInv'
    BY <1>0 DEF FactoryFails, PhaseInv, FailureInv
  <2> QED BY <2>1, <2>2
<1>1. CASE Begin
  <2>1. \A w \in Workers : task[w] = "none" /\ task'[w] = "created"
    BY <1>1 DEF Begin, FailureInv
  <2>2. Holders' = Holders
    BY <2>1 DEF Holders, Holding
  <2>3. QueueInv'
    BY <1>1, <2>1, <2>2 DEF Begin, semaphore, QueueInv, PermitsConserved, Holders
  <2>4. TypeOK'
    BY <1>1 DEF Begin, semaphore, TypeOK
  <2>5. PhaseInv' /\ FailureInv'
    BY <1>1, <2>1 DEF Begin, PhaseInv, FailureInv
  <2> QED BY <2>3, <2>4, <2>5
<1>2. CASE Returns
  <2>1. TypeOK' /\ QueueInv'
    BY <1>2, LimitFacts DEF Returns, semaphore, TypeOK, QueueInv, PermitsConserved
  <2>2. PhaseInv' /\ FailureInv'
    BY <1>2 DEF Returns, PhaseInv, FailureInv
  <2> QED BY <2>1, <2>2
<1>3. CASE FirstFailure
  <2>1. TypeOK' /\ QueueInv'
    BY <1>3 DEF FirstFailure, semaphore, TypeOK, QueueInv, PermitsConserved
  <2>2. PhaseInv' /\ FailureInv'
    BY <1>3 DEF FirstFailure, Done, PhaseInv, FailureInv
  <2> QED BY <2>1, <2>2
<1>4. CASE TasksGathered
  <2>1. TypeOK' /\ QueueInv'
    BY <1>4 DEF TasksGathered, semaphore, TypeOK, QueueInv, PermitsConserved
  <2>2. PhaseInv' /\ FailureInv'
    BY <1>4 DEF TasksGathered, Done, PhaseInv, FailureInv
  <2> QED BY <2>1, <2>2
<1>5. CASE Raises
  <2>1. TypeOK' /\ QueueInv'
    BY <1>5 DEF Raises, semaphore, TypeOK, QueueInv, PermitsConserved
  <2>2. PhaseInv' /\ FailureInv'
    BY <1>5 DEF Raises, PhaseInv, FailureInv
  <2> QED BY <2>1, <2>2
<1> QED BY <1>0, <1>1, <1>2, <1>3, <1>4, <1>5 DEF StarterStep

(* The tasks run only while start() is under way.                          *)
LEMMA Underway ==
  ASSUME IInv, NEW w \in Workers, task[w] \notin Done \cup {"none"}
  PROVE  starter \in {"gathering", "cancelling"} /\ poolState = "starting"
BY DEF IInv, TypeOK, PhaseInv, FailureInv, Done

LEMMA TaskKeeps ==
  ASSUME IInv, NEW w \in Workers, TaskStep(w)
  PROVE  IInv'
<1> USE DEF IInv
<1>0. /\ task[w] \notin Done \cup {"none"}
      /\ UNCHANGED <<poolState, starter, readyWorkers>>
  BY DEF TaskStep, Enter, Waits, Resumes, BackendStarts, SpawnFails, HandshakeFails,
         BackendFails, CancelUnstarted, CancelHolding, CancelStarting, Spawn, Holding, Done
<1>1. PhaseInv'
  BY <1>0 DEF PhaseInv
<1>2. /\ starter \in {"gathering", "cancelling"} /\ starter' = starter
      /\ starter = "gathering" => \A v \in Workers : ~cancelPending[v]
      /\ task \in [Workers -> {"none", "created", "waiting"} \cup Holding \cup Done]
      /\ \A v \in Workers : cancelPending[v] \in BOOLEAN /\ task[v] # "none"
  BY <1>0, Underway DEF FailureInv, TypeOK
<1>3. CASE Enter(w)
  <2> USE DEF Enter, Spawn
  <2>1. TypeOK'
    BY <1>3, LimitFacts DEF TypeOK, Holding
  <2>2. QueueInv'
    <3>1. Cardinality(Holders') = Cardinality(Holders) + 1 /\ Cardinality(Holders) \in Nat
      BY <1>3, TaskMoves DEF Holding
    <3>2. permits' + Cardinality(Holders') = Limit
      BY <1>3, <3>1, LimitFacts DEF QueueInv, PermitsConserved, Holders, TypeOK
    <3>3. \A v \in Workers : task'[v] = "waiting" <=> Contains(waiters', v)
      BY <1>3 DEF QueueInv, PermitsConserved, TypeOK
    <3> QED BY <1>3, <3>2, <3>3 DEF QueueInv, PermitsConserved, Holders
  <2>3. FailureInv'
    BY <1>2, <1>3 DEF FailureInv, TypeOK
  <2> QED BY <1>1, <2>1, <2>2, <2>3
<1>4. CASE Waits(w)
  <2> USE DEF Waits
  <2>0. /\ waiters' \in Seq(Workers) /\ Distinct(waiters')
        /\ \A v : Contains(waiters', v) <=> Contains(waiters, v) \/ v = w
    BY <1>4, AppendFacts DEF TypeOK, QueueInv, PermitsConserved
  <2>1. TypeOK'
    BY <1>4, <2>0 DEF TypeOK
  <2>2. QueueInv'
    <3>0. "waiting" \notin Holding /\ task[w] \notin Holding
      BY <1>4 DEF Holding
    <3>1. Cardinality(Holders') = Cardinality(Holders)
      BY <1>4, <3>0, TaskMoves
    <3>2. \A v \in Workers : task'[v] = "waiting" <=> Contains(waiters', v)
      BY <1>4, <2>0 DEF QueueInv, PermitsConserved, TypeOK
    <3> QED BY <1>4, <2>0, <3>1, <3>2 DEF QueueInv, PermitsConserved, Holders
  <2>3. FailureInv'
    BY <1>2, <1>4 DEF FailureInv, TypeOK
  <2> QED BY <1>1, <2>1, <2>2, <2>3
<1>5. CASE Resumes(w)
  <2> USE DEF Resumes, Spawn
  <2>1. TypeOK'
    BY <1>5 DEF TypeOK, Holding
  <2>2. QueueInv'
    <3>1. Cardinality(Holders') = Cardinality(Holders)
      BY <1>5, TaskMoves DEF Holding
    <3>2. \A v \in Workers : task'[v] = "waiting" <=> Contains(waiters', v)
      BY <1>5 DEF QueueInv, PermitsConserved, TypeOK
    <3> QED BY <1>5, <3>1, <3>2 DEF QueueInv, PermitsConserved, Holders
  <2>3. FailureInv'
    BY <1>2, <1>5 DEF FailureInv, TypeOK
  <2> QED BY <1>1, <2>1, <2>2, <2>3
<1>6. CASE BackendStarts(w)
  <2> USE DEF BackendStarts
  <2>1. LeaveHolding(w, "started") /\ "started" \in Done /\ task[w] \in Holding
    BY <1>6 DEF Done, Holding
  <2>2. TypeOK' /\ QueueInv'
    BY <1>6, <2>1, Leaves DEF TypeOK
  <2>3. FailureInv'
    BY <1>2, <1>6, <2>1, Leaves DEF FailureInv
  <2> QED BY <1>1, <2>2, <2>3
<1>7. CASE SpawnFails(w)
  <2> USE DEF SpawnFails
  <2>1. CASE task[w] = "granted"
    <3>1. LeaveHolding(w, "failed") /\ "failed" \in Done /\ task[w] \in Holding
      BY <1>7, <2>1 DEF Done, Holding
    <3>2. TypeOK' /\ QueueInv'
      BY <1>7, <3>1, Leaves DEF TypeOK
    <3>3. FailureInv'
      BY <1>2, <1>7, <3>1, Leaves DEF FailureInv
    <3> QED BY <1>1, <3>2, <3>3
  <2>2. CASE task[w] = "created"
    <3>1. task' = [task EXCEPT ![w] = "failed"] /\ UNCHANGED semaphore
      BY <1>7, <2>2
    <3>2. TypeOK'
      BY <1>7, <3>1 DEF TypeOK, Done, semaphore
    <3>3. QueueInv'
      <4>0. "failed" \notin Holding /\ task[w] \notin Holding
        BY <2>2 DEF Holding
      <4>1. Cardinality(Holders') = Cardinality(Holders)
        BY <3>1, <4>0, TaskMoves
      <4>2. \A v \in Workers : task'[v] = "waiting" <=> Contains(waiters', v)
        BY <2>2, <3>1 DEF QueueInv, PermitsConserved, TypeOK, semaphore
      <4> QED BY <3>1, <4>1, <4>2 DEF QueueInv, PermitsConserved, Holders, semaphore
    <3>4. FailureInv'
      BY <1>2, <1>7, <3>1 DEF FailureInv
    <3> QED BY <1>1, <3>2, <3>3, <3>4
  <2> QED BY <1>7, <2>1, <2>2
<1>8. CASE HandshakeFails(w) \/ CancelStarting(w)
  <2> USE DEF HandshakeFails, CancelStarting, semaphore
  <2>1. TypeOK'
    BY <1>8 DEF TypeOK, Holding
  <2>2. QueueInv'
    <3>1. Cardinality(Holders') = Cardinality(Holders)
      BY <1>8, TaskMoves DEF Holding
    <3>2. \A v \in Workers : task'[v] = "waiting" <=> Contains(waiters', v)
      BY <1>8 DEF QueueInv, PermitsConserved, TypeOK
    <3> QED BY <1>8, <3>1, <3>2 DEF QueueInv, PermitsConserved, Holders
  <2>3. FailureInv'
    BY <1>2, <1>8 DEF FailureInv, TypeOK
  <2> QED BY <1>1, <2>1, <2>2, <2>3
<1>9. CASE BackendFails(w)
  <2> USE DEF BackendFails
  <2>1. LeaveHolding(w, "failed") /\ "failed" \in Done /\ task[w] \in Holding
    BY <1>9 DEF Done, Holding
  <2>2. TypeOK' /\ QueueInv'
    BY <1>9, <2>1, Leaves DEF TypeOK
  <2>3. FailureInv'
    BY <1>2, <1>9, <2>1, Leaves DEF FailureInv, TypeOK
  <2> QED BY <1>1, <2>2, <2>3
<1>10. CASE CancelUnstarted(w)
  <2> USE DEF CancelUnstarted
  <2>0. /\ waiters' \in Seq(Workers) /\ Distinct(waiters')
        /\ \A v : Contains(waiters', v) <=> Contains(waiters, v) /\ v # w
    BY <1>10, RemoveFirstFacts DEF TypeOK, QueueInv
  <2>1. TypeOK'
    BY <1>10, <2>0 DEF TypeOK, Done
  <2>2. QueueInv'
    <3>0. "cancelled" \notin Holding /\ task[w] \notin Holding
      BY <1>10 DEF Holding
    <3>1. Cardinality(Holders') = Cardinality(Holders)
      BY <1>10, <3>0, TaskMoves
    <3>2. \A v \in Workers : task'[v] = "waiting" <=> Contains(waiters', v)
      BY <1>10, <2>0 DEF QueueInv, PermitsConserved, TypeOK
    <3> QED BY <1>10, <2>0, <3>1, <3>2 DEF QueueInv, PermitsConserved, Holders
  <2>3. FailureInv'
    BY <1>2, <1>10 DEF FailureInv, TypeOK
  <2> QED BY <1>1, <2>1, <2>2, <2>3
<1>11. CASE CancelHolding(w)
  <2> USE DEF CancelHolding
  <2>1. LeaveHolding(w, "cancelled") /\ "cancelled" \in Done /\ task[w] \in Holding
    BY <1>11 DEF Done, Holding
  <2>2. TypeOK' /\ QueueInv'
    BY <1>11, <2>1, Leaves DEF TypeOK
  <2>3. FailureInv'
    BY <1>2, <1>11, <2>1, Leaves DEF FailureInv, TypeOK
  <2> QED BY <1>1, <2>2, <2>3
<1> QED BY <1>3, <1>4, <1>5, <1>6, <1>7, <1>8, <1>9, <1>10, <1>11 DEF TaskStep

LEMMA ExitKeeps ==
  ASSUME IInv, NEW w \in Workers, CloseRaises(w) \/ ProcessExits(w)
  PROVE  IInv'
<1> USE DEF IInv, CloseRaises, ProcessExits, semaphore
<1>1. TypeOK' /\ QueueInv'
  BY DEF TypeOK, QueueInv, PermitsConserved
<1>2. PhaseInv' /\ FailureInv'
  BY DEF TypeOK, PhaseInv, FailureInv
<1> QED BY <1>1, <1>2

LEMMA StutterKeeps == IInv /\ UNCHANGED vars => IInv'
BY DEF IInv, vars, TypeOK, QueueInv, PermitsConserved, PhaseInv, FailureInv

(* IInv holds in every reachable state.                                    *)
THEOREM Inductive == Spec => []IInv
<1>1. IInv /\ [Next]_vars => IInv'
  BY StarterKeeps, TaskKeeps, ExitKeeps, StutterKeeps DEF Next, Terminated
<1> QED BY InitInv, <1>1, PTL DEF Spec

-----------------------------------------------------------------------------
(* The variables have their types: no permit count below zero or above the *)
(* limit, and only backends in the semaphore's queue.                      *)
THEOREM TypeCorrect == Spec => []TypeOK
<1>1. IInv => TypeOK
  BY DEF IInv
<1> QED BY Inductive, <1>1, PTL

(* For any number of backends the semaphore of start() loses no permit and *)
(* makes none, however its tasks end, and its waiters are the tasks that   *)
(* wait.                                                                   *)
THEOREM PermitsKept == Spec => []PermitsConserved
<1>1. IInv => PermitsConserved
  BY DEF IInv, QueueInv
<1> QED BY Inductive, <1>1, PTL

(* So the processes that load Mathlib are never more than the limit.       *)
LEMMA StartingAtMostLimit ==
  IInv => Cardinality({w \in Workers : task[w] = "starting"}) <= Limit
<1> SUFFICES ASSUME IInv PROVE Cardinality({w \in Workers : task[w] = "starting"}) <= Limit
  OBVIOUS
<1> DEFINE S == {w \in Workers : task[w] = "starting"}
<1>1. S \subseteq Holders /\ IsFiniteSet(Holders) /\ Cardinality(Holders) \in Nat
  BY LimitFacts DEF Holders, Holding
<1>2. Cardinality(S) \in Nat /\ Cardinality(S) <= Cardinality(Holders)
  BY <1>1, FS_Subset, FS_CardinalityType
<1>3. permits \in Nat /\ permits + Cardinality(Holders) = Limit
  BY LimitFacts DEF IInv, TypeOK, QueueInv, PermitsConserved, Holders
<1> QED BY <1>1, <1>2, <1>3

(* No more backends than the limit load Mathlib at the same time.          *)
THEOREM ParallelismKept ==
  Spec => [](Cardinality({w \in Workers : task[w] = "starting"}) <= Limit)
BY Inductive, StartingAtMostLimit, PTL

(* start() returns with every backend ready, or raises with nothing left   *)
(* of what it began: no task at work, no process alive that a close()      *)
(* could end; or a factory raised, and it began nothing.                   *)
THEOREM StartIsAllOrNothing == Spec => []AllOrNothing
<1>1. IInv => AllOrNothing
  BY DEF IInv, PhaseInv, FailureInv, AllOrNothing
<1> QED BY Inductive, <1>1, PTL

(* Once the first failure has been seen no backend of the pool is spawned. *)
THEOREM NothingSpawnedAfterFailure == Spec => NoSpawnAfterFailure
<1> DEFINE A == starter \notin {"idle", "gathering"} =>
                  \A w \in Workers : process'[w] = "live" => process[w] = "live"
<1>1. ASSUME IInv, [Next]_vars, starter \notin {"idle", "gathering"},
             NEW v \in Workers, process'[v] = "live"
      PROVE  process[v] = "live"
  <2>1. CASE \E w \in Workers : Enter(w) \/ Resumes(w)
    <3>1. PICK w \in Workers : task[w] \in {"created", "granted"} /\ ~cancelPending[w]
      BY <2>1 DEF Enter, Resumes
    <3>2. starter = "cancelling"
      BY <1>1, <3>1, Underway DEF Done
    <3> QED BY <1>1, <3>1, <3>2 DEF IInv, FailureInv
  <2>2. CASE \E w \in Workers : CloseRaises(w) \/ ProcessExits(w)
    BY <1>1, <2>2 DEF IInv, TypeOK, CloseRaises, ProcessExits
  <2>3. CASE process' = process
    BY <1>1, <2>3
  <2> QED
    BY <1>1, <2>1, <2>2, <2>3
    DEF Next, StarterStep, FactoryFails, Begin, Returns, FirstFailure, TasksGathered, Raises, Terminated,
        TaskStep, Waits, BackendStarts, SpawnFails, HandshakeFails, BackendFails,
        CancelUnstarted, CancelHolding, CancelStarting, vars
<1>2. IInv /\ [Next]_vars => [A]_vars
  BY <1>1
<1> QED BY Inductive, <1>2, PTL DEF Spec, NoSpawnAfterFailure
=============================================================================
