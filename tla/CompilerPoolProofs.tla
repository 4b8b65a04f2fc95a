------------------------- MODULE CompilerPoolProofs -------------------------
(***************************************************************************)
(* Safety of CompilerPool for any number of slots, requests, close() calls *)
(* and any queue capacity.                                                 *)
(*                                                                         *)
(* IInv is the inductive invariant.  Its parts are proved one at a time,   *)
(* each with one case per action, all of them from the whole of IInv.  The *)
(* invariants follow from it, and so does what a step may never do, and    *)
(* that every step is one of CompileService or invisible to it.            *)
(***************************************************************************)
EXTENDS CompilerPoolService, QueueLemmas, FiniteSetTheorems

(* Who holds the event loop, who can be cancelled, who sleeps on the event.*)
LoopInv ==
  /\ \A w \in Workers : pc[w] = "looping" <=> current = w
  /\ \A w \in Workers : cancelPending[w] => pc[w] \notin {"looping", "ended"}
  /\ \A w \in parked : pc[w] = "waiting"
  /\ NoLostWakeup

(* What a slot's task, its job and its process have to do with each other. *)
SlotInv ==
  /\ \A w \in Workers : job[w] # None <=> pc[w] = "compiling"
  /\ \A w \in Workers : pc[w] = "starting" => pipe[w] = "clean"
  /\ \A w \in Workers : pc[w] = "backoff" => process[w] # "live"
  /\ CleanPipe

(* What is left of the slots and the queue in each state of the pool.      *)
CloseInv ==
  /\ poolState = "running" =>
       /\ \A c \in Closers : closer[c] = "idle"
       /\ \A w \in Workers : ~cancelPending[w] /\ pc[w] \notin {"closingCancelled", "ended"}
  /\ poolState # "running" =>
       /\ queue = <<>>
       /\ \A w \in Workers :
            /\ pc[w] # "looping"
            /\ pc[w] \in {"created", "waiting", "compiling", "starting"} => cancelPending[w]
  /\ \A c \in Closers :
       /\ closer[c] = "waitBackends" => \A w \in Workers : pc[w] = "ended"
       /\ closer[c] = "returned" => poolState = "closed"
  /\ poolState = "closed" =>
       /\ readyWorkers = 0
       /\ \A w \in Workers : pc[w] = "ended" /\ process[w] # "live"

(* Where a job is, by what its fields say.                                 *)
JobInv ==
  /\ Distinct(queue) /\ Len(queue) <= QueueCapacity
  /\ \A r \in Requests : stage[r] = "new" <=> future[r] = "none"
  /\ \A r \in Requests : Contains(queue, r) => stage[r] = "queued" /\ answer[r] = "none"
  /\ \A w \in Workers : job[w] # None => stage[job[w]] = "executing"
  /\ \A v, w \in Workers : job[v] # None /\ job[v] = job[w] => v = w
  /\ \A r \in Requests : Pending(r) =>
       answer[r] = "none" /\ (Contains(queue, r) \/ \E w \in Workers : job[w] = r)

(* Where an outcome comes from.                                            *)
OutcomeInv ==
  /\ \A r \in Requests :
       /\ future[r] = "timeout" \/ "timer" \in interrupts[r] => expired[r]
       /\ future[r] \in {"result", "workerError"} => stage[r] = "executing"
       /\ future[r] = "closed" => poolState # "running"
  /\ AnswersJustified

Executed == {r \in Requests : stage[r] = "executing"}

CountInv ==
  /\ ActiveIsCompiling
  /\ poolState = "running" => readyWorkers = Cardinality(SlotsIn(Serving))
  /\ replacements + Cardinality(SlotsIn(Recovering)) + activeWorkers <= Cardinality(Executed)

IInv == TypeOK /\ LoopInv /\ SlotInv /\ CloseInv /\ JobInv /\ OutcomeInv /\ CountInv

-----------------------------------------------------------------------------
(* The counters.                                                           *)

LEMMA SlotCounts ==
  ASSUME NEW S
  PROVE  /\ IsFiniteSet(SlotsIn(S)) /\ Cardinality(SlotsIn(S)) \in Nat
         /\ \A w \in SlotsIn(S) : Cardinality(SlotsIn(S)) > 0
<1>1. SlotsIn(S) \subseteq Workers
  BY DEF SlotsIn
<1>2. IsFiniteSet(SlotsIn(S)) /\ Cardinality(SlotsIn(S)) \in Nat
  BY <1>1, PoolAssumption, FS_Subset, FS_CardinalityType
<1>3. ASSUME NEW w \in SlotsIn(S) PROVE Cardinality(SlotsIn(S)) # 0
  BY <1>2, <1>3, FS_EmptySet
<1> QED BY <1>2, <1>3

(* One slot's task moves from pc[w] to x.                                  *)
LEMMA SlotMoves ==
  ASSUME TypeOK, NEW w \in Workers, NEW x, pc' = [pc EXCEPT ![w] = x], NEW S
  PROVE  Cardinality(SlotsIn(S))' = Cardinality(SlotsIn(S))
           + (IF x \in S THEN 1 ELSE 0) - (IF pc[w] \in S THEN 1 ELSE 0)
<1> DEFINE A == SlotsIn(S)
           B == SlotsIn(S)'
<1>0. IsFiniteSet(A) /\ Cardinality(A) \in Nat
  BY SlotCounts
<1>1. B = {v \in Workers : pc'[v] \in S} /\ (w \in A <=> pc[w] \in S)
  BY DEF SlotsIn
<1>2. pc'[w] = x /\ \A v \in Workers : v # w => pc'[v] = pc[v]
  BY DEF TypeOK
<1>3. CASE x \in S /\ pc[w] \notin S
  <2>1. B = A \cup {w} /\ w \notin A
    BY <1>2, <1>3 DEF SlotsIn
  <2> QED BY <1>0, <1>3, <2>1, FS_AddElement
<1>4. CASE x \notin S /\ pc[w] \in S
  <2>1. B = A \ {w} /\ w \in A
    BY <1>2, <1>4 DEF SlotsIn
  <2>2. Cardinality(A \ {w}) = Cardinality(A) - 1
    BY <1>0, <2>1, FS_RemoveElement
  <2> HIDE DEF A, B
  <2> QED BY <1>0, <1>4, <2>1, <2>2 DEF A, B
<1>5. CASE x \in S <=> pc[w] \in S
  <2>1. B = A
    BY <1>2, <1>5 DEF SlotsIn
  <2> QED BY <1>0, <1>5, <2>1
<1> QED BY <1>3, <1>4, <1>5

In(x, S) == IF x \in S THEN 1 ELSE 0

LEMMA CountsMove ==
  ASSUME TypeOK, NEW w \in Workers, NEW x, pc' = [pc EXCEPT ![w] = x]
  PROVE  /\ \A S \in { {"compiling"}, Serving, Recovering} :
              /\ Cardinality(SlotsIn(S)) \in Nat /\ Cardinality(SlotsIn(S))' \in Nat
              /\ Cardinality(SlotsIn(S))' = Cardinality(SlotsIn(S)) + In(x, S) - In(pc[w], S)
<1>1. ASSUME NEW S PROVE Cardinality(SlotsIn(S)) \in Nat /\ Cardinality(SlotsIn(S))' \in Nat
  <2>1. SlotsIn(S)' \subseteq Workers
    BY DEF SlotsIn
  <2>2. Cardinality(SlotsIn(S)') \in Nat
    BY <2>1, PoolAssumption, FS_Subset, FS_CardinalityType
  <2> QED BY <2>2, SlotCounts
<1>2. ASSUME NEW S
      PROVE  Cardinality(SlotsIn(S))' = Cardinality(SlotsIn(S)) + In(x, S) - In(pc[w], S)
  BY SlotMoves DEF In
<1> QED BY <1>1, <1>2

LEMMA ExecutedCounts == IsFiniteSet(Executed) /\ Cardinality(Executed) \in Nat
BY PoolAssumption, FS_Subset, FS_CardinalityType DEF Executed

LEMMA ExecutedGrows ==
  ASSUME TypeOK, NEW r \in Requests, stage' = [stage EXCEPT ![r] = "executing"],
         stage[r] # "executing"
  PROVE  Cardinality(Executed)' = Cardinality(Executed) + 1
<1>1. Executed' = Executed \cup {r} /\ r \notin Executed
  BY DEF Executed, TypeOK
<1> QED BY <1>1, ExecutedCounts, FS_AddElement

LEMMA ReplacementBalance ==
  ASSUME NEW n \in Nat, NEW r \in Nat, NEW a \in Nat, NEW e \in Nat, NEW m \in Nat,
         NEW jx \in {0, 1}, NEW ix \in {0, 1}, NEW jp \in {0, 1}, NEW ip \in {0, 1},
         NEW g \in {0, 1}, n + r + a <= e, m + jx + ix <= n + jp + ip + g
  PROVE  m + (r + jx - jp) + (a + ix - ip) <= e + g
OBVIOUS

(* What the counters must do when one slot's task moves and g jobs begin.  *)
LEMMA MoveKeepsCounts ==
  ASSUME IInv, NEW w \in Workers, NEW x, pc' = [pc EXCEPT ![w] = x], poolState' = poolState,
         NEW g \in {0, 1}, Cardinality(Executed)' = Cardinality(Executed) + g,
         activeWorkers' = activeWorkers + In(x, {"compiling"}) - In(pc[w], {"compiling"}),
         poolState = "running" =>
           readyWorkers' = readyWorkers + In(x, Serving) - In(pc[w], Serving),
         replacements' \in Nat,
         replacements' + In(x, Recovering) + In(x, {"compiling"})
           <= replacements + In(pc[w], Recovering) + In(pc[w], {"compiling"}) + g
  PROVE  CountInv'
<1> DEFINE C == Cardinality(SlotsIn({"compiling"}))
           S == Cardinality(SlotsIn(Serving))
           R == Cardinality(SlotsIn(Recovering))
           E == Cardinality(Executed)
<1>1. /\ C \in Nat /\ S \in Nat /\ R \in Nat /\ C' \in Nat /\ S' \in Nat /\ R' \in Nat
      /\ C' = C + In(x, {"compiling"}) - In(pc[w], {"compiling"})
      /\ S' = S + In(x, Serving) - In(pc[w], Serving)
      /\ R' = R + In(x, Recovering) - In(pc[w], Recovering)
  BY CountsMove DEF IInv
<1>2. \A y, T : In(y, T) \in {0, 1}
  BY DEF In
<1>3. /\ activeWorkers = C
      /\ poolState = "running" => readyWorkers = S
      /\ replacements + R + activeWorkers <= E
      /\ activeWorkers \in Nat /\ replacements \in Nat /\ E \in Nat
  BY ExecutedCounts DEF IInv, TypeOK, CountInv, ActiveIsCompiling
<1>4. activeWorkers' = C' /\ (poolState = "running" => readyWorkers' = S')
  BY <1>1, <1>3
<1>5. replacements' + R' + activeWorkers' <= E + g
  BY <1>1, <1>2, <1>3, ReplacementBalance
<1>6. Cardinality(Executed)' = E + g
  OBVIOUS
<1> QED BY <1>4, <1>5, <1>6 DEF CountInv, ActiveIsCompiling

(* A slot that compiles is counted active and, while the pool runs, ready. *)
LEMMA CompilingIsCounted ==
  ASSUME IInv, NEW w \in Workers, pc[w] = "compiling"
  PROVE  /\ activeWorkers - 1 \in Nat
         /\ poolState = "running" => readyWorkers - 1 \in Nat
<1>1. w \in SlotsIn({"compiling"}) /\ w \in SlotsIn(Serving)
  BY DEF SlotsIn, Serving
<1>2. Cardinality(SlotsIn({"compiling"})) \in Nat /\ Cardinality(SlotsIn({"compiling"})) > 0
  BY <1>1, SlotCounts
<1>3. Cardinality(SlotsIn(Serving)) \in Nat /\ Cardinality(SlotsIn(Serving)) > 0
  BY <1>1, SlotCounts
<1> QED BY <1>2, <1>3 DEF IInv, CountInv, ActiveIsCompiling

-----------------------------------------------------------------------------
(* The steps.                                                              *)

(* Every step keeps the types; counters stay natural numbers because they *)
(* count slots.                                                            *)
LEMMA TypeStep == ASSUME IInv, [Next]_vars PROVE TypeOK'
<1>1. ASSUME NEW r \in Requests, CallerStep(r) \/ Expire(r) PROVE TypeOK'
  <2>1. CASE RefuseClosed(r)
    BY PoolAssumption, <2>1
      DEF IInv, TypeOK, Serving, Recovering, Outcome, RefuseClosed, LoopFree,
         reqVars, slotVars, countVars, loopVars
  <2>2. CASE RefuseOverloaded(r)
    BY PoolAssumption, <2>2
      DEF IInv, TypeOK, Serving, Recovering, Outcome, RefuseOverloaded, LoopFree,
         reqVars, slotVars, countVars, loopVars
  <2>3. CASE Accept(r)
    BY PoolAssumption, <2>3
      DEF IInv, TypeOK, Serving, Recovering, Outcome, Accept, LoopFree, EventSet,
         reqVars, slotVars, countVars, loopVars
  <2>4. CASE CallerTimer(r)
    BY PoolAssumption, <2>4
      DEF IInv, TypeOK, Serving, Recovering, Outcome, CallerTimer, Interrupt,
         Settle, Pending, LoopFree, reqVars, slotVars, countVars, loopVars
  <2>5. CASE CallerCancel(r)
    BY PoolAssumption, <2>5
      DEF IInv, TypeOK, Serving, Recovering, Outcome, CallerCancel, Interrupt,
         Settle, Pending, LoopFree, reqVars, slotVars, countVars, loopVars
  <2>6. CASE CallerWake(r)
    <3>1. /\ RemoveFirst(queue, r) \in Seq(Requests)
          /\ RemoveFirst(queue, r) # <<>> => queue # <<>>
      BY RemoveFirstFacts, EmptySeq, LenProperties DEF IInv, TypeOK, JobInv
    <3> QED
      BY <3>1, <2>6 DEF IInv, TypeOK, Outcome, CallerWake, LoopFree, Returned, slotVars, countVars
  <2>7. CASE Expire(r)
    BY PoolAssumption, <2>7
      DEF IInv, TypeOK, Serving, Recovering, Outcome, Expire, reqVars, slotVars,
         countVars, loopVars
  <2> QED BY <1>1, <2>1, <2>2, <2>3, <2>4, <2>5, <2>6, <2>7 DEF CallerStep
<1>2. ASSUME NEW w \in Workers,
             TaskStep(w) \/ ProcessReplies(w) \/ ProcessExits(w) \/ CloseRaises(w)
      PROVE  TypeOK'
  <2>1. CASE Resume(w)
    BY PoolAssumption, <2>1
      DEF IInv, TypeOK, Serving, Recovering, Outcome, Resume, LoopFree, reqVars,
         slotVars, countVars, loopVars
  <2>2. CASE Park(w)
    BY PoolAssumption, <2>2
      DEF IInv, TypeOK, Serving, Recovering, Outcome, Park, reqVars, slotVars,
         countVars, loopVars
  <2>3. CASE TakeSettled(w)
    BY PoolAssumption, <2>3
      DEF IInv, TypeOK, Serving, Recovering, Outcome, TakeSettled, Pending, reqVars,
         slotVars, countVars, loopVars
  <2>4. CASE TakeExpired(w)
    BY PoolAssumption, <2>4
      DEF IInv, TypeOK, Serving, Recovering, Outcome, TakeExpired, Pending, Settle,
         reqVars, slotVars, countVars, loopVars
  <2>5. CASE Dispatch(w)
    BY PoolAssumption, <2>5
      DEF IInv, TypeOK, Serving, Recovering, Outcome, Dispatch, Pending, Execute,
         reqVars, slotVars, countVars, loopVars
  <2>6. CASE CompileReturns(w)
    <3>1. /\ activeWorkers - 1 \in Nat
          /\ poolState = "running" => readyWorkers - 1 \in Nat
      BY <2>6, CompilingIsCounted DEF CompileReturns
    <3> QED
      BY PoolAssumption, <3>1, <2>6
        DEF IInv, TypeOK, Serving, Recovering, Outcome, CloseInv, CompileReturns,
           LoopFree, Settle, Pending, reqVars, slotVars, countVars, loopVars
  <2>7. CASE CompileFails(w)
    <3>1. /\ activeWorkers - 1 \in Nat
          /\ poolState = "running" => readyWorkers - 1 \in Nat
      BY <2>7, CompilingIsCounted DEF CompileFails
    <3> QED
      BY PoolAssumption, <3>1, <2>7
        DEF IInv, TypeOK, Serving, Recovering, Outcome, CloseInv, CompileFails,
           LoopFree, GiveUpBackend, Settle, Pending, reqVars, slotVars, countVars,
           loopVars
  <2>8. CASE CompileTimesOut(w)
    <3>1. /\ activeWorkers - 1 \in Nat
          /\ poolState = "running" => readyWorkers - 1 \in Nat
      BY <2>8, CompilingIsCounted DEF CompileTimesOut
    <3> QED
      BY PoolAssumption, <3>1, <2>8
        DEF IInv, TypeOK, Serving, Recovering, Outcome, CloseInv, CompileTimesOut,
           LoopFree, GiveUpBackend, Settle, Pending, reqVars, slotVars, countVars,
           loopVars
  <2>9. CASE StopReplacing(w)
    BY PoolAssumption, <2>9
      DEF IInv, TypeOK, Serving, Recovering, Outcome, StopReplacing, AtReplaceLoop,
         LoopFree, reqVars, slotVars, countVars, loopVars
  <2>10. CASE StartReplacement(w)
    BY PoolAssumption, <2>10
      DEF IInv, TypeOK, Serving, Recovering, Outcome, StartReplacement,
         AtReplaceLoop, LoopFree, Spawn, reqVars, slotVars, countVars, loopVars
  <2>11. CASE FactoryFails(w)
    BY PoolAssumption, <2>11
      DEF IInv, TypeOK, Serving, Recovering, Outcome, FactoryFails, AtReplaceLoop,
         LoopFree, reqVars, slotVars, countVars, loopVars
  <2>12. CASE StartSucceeds(w)
    BY PoolAssumption, <2>12
      DEF IInv, TypeOK, Serving, Recovering, Outcome, StartSucceeds, LoopFree,
         reqVars, slotVars, countVars, loopVars
  <2>13. CASE StartFails(w)
    BY PoolAssumption, <2>13
      DEF IInv, TypeOK, Serving, Recovering, Outcome, StartFails, LoopFree, reqVars,
         slotVars, countVars, loopVars
  <2>14. CASE CleanupDone(w)
    BY PoolAssumption, <2>14
      DEF IInv, TypeOK, Serving, Recovering, Outcome, CleanupDone, LoopFree,
         reqVars, slotVars, countVars, loopVars
  <2>15. CASE CancelledCleanupDone(w)
    BY PoolAssumption, <2>15
      DEF IInv, TypeOK, Serving, Recovering, Outcome, CancelledCleanupDone,
         LoopFree, reqVars, slotVars, countVars, loopVars
  <2>16. CASE CancelUnwinds(w)
    BY PoolAssumption, <2>16
      DEF IInv, TypeOK, Serving, Recovering, Outcome, CancelUnwinds, Deliver,
         LoopFree, reqVars, slotVars, countVars, loopVars
  <2>17. CASE CancelSwallowed(w)
    BY PoolAssumption, <2>17
      DEF IInv, TypeOK, Serving, Recovering, Outcome, CancelSwallowed, Deliver,
         LoopFree, reqVars, slotVars, countVars, loopVars
  <2>18. CASE CancelCompiling(w)
    <3>1. /\ activeWorkers - 1 \in Nat
          /\ poolState = "running" => readyWorkers - 1 \in Nat
      BY <2>18, CompilingIsCounted DEF CancelCompiling
    <3> QED
      BY PoolAssumption, <3>1, <2>18
        DEF IInv, TypeOK, Serving, Recovering, Outcome, CloseInv, CancelCompiling,
           Deliver, LoopFree, Settle, Pending, reqVars, slotVars, countVars,
           loopVars
  <2>19. CASE CancelStarting(w)
    BY PoolAssumption, <2>19
      DEF IInv, TypeOK, Serving, Recovering, Outcome, CancelStarting, Deliver,
         LoopFree, reqVars, slotVars, countVars, loopVars
  <2>20. CASE CancelLostInFailedStart(w)
    BY PoolAssumption, <2>20
      DEF IInv, TypeOK, Serving, Recovering, Outcome, CancelLostInFailedStart,
         Deliver, LoopFree, reqVars, slotVars, countVars, loopVars
  <2>21. CASE ProcessReplies(w)
    BY PoolAssumption, <2>21
      DEF IInv, TypeOK, Serving, Recovering, Outcome, ProcessReplies, reqVars,
         slotVars, countVars, loopVars
  <2>22. CASE ProcessExits(w) \/ CloseRaises(w)
    <3>1. process' \in [Workers -> {"live", "stray", "dead"}]
      BY <2>22 DEF IInv, TypeOK, ProcessExits, CloseRaises
    <3> QED
      BY <2>22, <3>1 DEF IInv, TypeOK, ProcessExits, CloseRaises, reqVars, slotVars,
         countVars, loopVars
  <2> QED BY <1>2, <2>1, <2>2, <2>3, <2>4, <2>5, <2>6, <2>7, <2>8, <2>9, <2>10, <2>11,
         <2>12, <2>13, <2>14, <2>15, <2>16, <2>17, <2>18, <2>19, <2>20, <2>21, <2>22
      DEF TaskStep
<1>3. ASSUME NEW c \in Closers, CloserStep(c) PROVE TypeOK'
  <2>1. CASE CloseBegins(c)
    BY PoolAssumption, <2>1
      DEF IInv, TypeOK, Serving, Recovering, Outcome, CloseBegins, LoopFree,
         Pending, reqVars, slotVars, countVars, loopVars
  <2>2. CASE CloseTasksGathered(c)
    BY PoolAssumption, <2>2
      DEF IInv, TypeOK, Serving, Recovering, Outcome, CloseTasksGathered, LoopFree,
         reqVars, slotVars, countVars, loopVars
  <2>3. CASE CloseFinishes(c)
    BY PoolAssumption, <2>3
      DEF IInv, TypeOK, Serving, Recovering, Outcome, CloseFinishes, LoopFree,
         reqVars, slotVars, countVars, loopVars
  <2>4. CASE CloseAgain(c)
    BY PoolAssumption, <2>4
      DEF IInv, TypeOK, Serving, Recovering, Outcome, CloseAgain, LoopFree, reqVars,
         slotVars, countVars, loopVars
  <2> QED BY <1>3, <2>1, <2>2, <2>3, <2>4 DEF CloserStep
<1>4. CASE Terminated \/ UNCHANGED vars
  BY PoolAssumption, <1>4
    DEF IInv, TypeOK, Serving, Recovering, Outcome, Terminated, vars, reqVars,
       slotVars, countVars, loopVars
<1> QED BY <1>1, <1>2, <1>3, <1>4 DEF Next

(* Every step keeps LoopInv. *)
LEMMA LoopStep == ASSUME IInv, [Next]_vars PROVE LoopInv'
<1>1. ASSUME NEW r \in Requests, CallerStep(r) \/ Expire(r) PROVE LoopInv'
  <2>1. CASE RefuseClosed(r)
    BY PoolAssumption, <2>1
      DEF IInv, TypeOK, LoopInv, CloseInv, NoLostWakeup, SlotInv, RefuseClosed,
         LoopFree, reqVars, slotVars, countVars, loopVars
  <2>2. CASE RefuseOverloaded(r)
    BY PoolAssumption, <2>2
      DEF IInv, TypeOK, LoopInv, CloseInv, NoLostWakeup, SlotInv, RefuseOverloaded,
         LoopFree, reqVars, slotVars, countVars, loopVars
  <2>3. CASE Accept(r)
    BY PoolAssumption, <2>3
      DEF IInv, TypeOK, LoopInv, CloseInv, NoLostWakeup, SlotInv, Accept, LoopFree,
         EventSet, reqVars, slotVars, countVars, loopVars
  <2>4. CASE CallerTimer(r)
    BY PoolAssumption, <2>4
      DEF IInv, TypeOK, LoopInv, CloseInv, NoLostWakeup, SlotInv, CallerTimer,
         Interrupt, Settle, Pending, LoopFree, reqVars, slotVars, countVars,
         loopVars
  <2>5. CASE CallerCancel(r)
    BY PoolAssumption, <2>5
      DEF IInv, TypeOK, LoopInv, CloseInv, NoLostWakeup, SlotInv, CallerCancel,
         Interrupt, Settle, Pending, LoopFree, reqVars, slotVars, countVars,
         loopVars
  <2>6. CASE CallerWake(r)
    <3>1. RemoveFirst(<<>>, r) = <<>>
      BY DEF RemoveFirst
    <3> QED
      BY <3>1, <2>6 DEF IInv, LoopInv, NoLostWakeup, CallerWake, slotVars
  <2>7. CASE Expire(r)
    BY PoolAssumption, <2>7
      DEF IInv, TypeOK, LoopInv, CloseInv, NoLostWakeup, SlotInv, Expire, reqVars,
         slotVars, countVars, loopVars
  <2> QED BY <1>1, <2>1, <2>2, <2>3, <2>4, <2>5, <2>6, <2>7 DEF CallerStep
<1>2. ASSUME NEW w \in Workers,
             TaskStep(w) \/ ProcessReplies(w) \/ ProcessExits(w) \/ CloseRaises(w)
      PROVE  LoopInv'
  <2>1. CASE Resume(w)
    BY PoolAssumption, <2>1
      DEF IInv, TypeOK, LoopInv, CloseInv, NoLostWakeup, SlotInv, Resume, LoopFree,
         reqVars, slotVars, countVars, loopVars
  <2>2. CASE Park(w)
    BY PoolAssumption, <2>2
      DEF IInv, TypeOK, LoopInv, CloseInv, NoLostWakeup, SlotInv, Park, reqVars,
         slotVars, countVars, loopVars
  <2>3. CASE TakeSettled(w)
    BY PoolAssumption, <2>3
      DEF IInv, TypeOK, LoopInv, CloseInv, NoLostWakeup, SlotInv, TakeSettled,
         Pending, reqVars, slotVars, countVars, loopVars
  <2>4. CASE TakeExpired(w)
    BY PoolAssumption, <2>4
      DEF IInv, TypeOK, LoopInv, CloseInv, NoLostWakeup, SlotInv, TakeExpired,
         Pending, Settle, reqVars, slotVars, countVars, loopVars
  <2>5. CASE Dispatch(w)
    BY PoolAssumption, <2>5
      DEF IInv, TypeOK, LoopInv, CloseInv, NoLostWakeup, SlotInv, Dispatch, Pending,
         Execute, reqVars, slotVars, countVars, loopVars
  <2>6. CASE CompileReturns(w)
    BY PoolAssumption, <2>6
      DEF IInv, TypeOK, LoopInv, CloseInv, NoLostWakeup, SlotInv, CompileReturns,
         LoopFree, Settle, Pending, reqVars, slotVars, countVars, loopVars
  <2>7. CASE CompileFails(w)
    BY PoolAssumption, <2>7
      DEF IInv, TypeOK, LoopInv, CloseInv, NoLostWakeup, SlotInv, CompileFails,
         LoopFree, GiveUpBackend, Settle, Pending, reqVars, slotVars, countVars,
         loopVars
  <2>8. CASE CompileTimesOut(w)
    BY PoolAssumption, <2>8
      DEF IInv, TypeOK, LoopInv, CloseInv, NoLostWakeup, SlotInv, CompileTimesOut,
         LoopFree, GiveUpBackend, Settle, Pending, reqVars, slotVars, countVars,
         loopVars
  <2>9. CASE StopReplacing(w)
    BY PoolAssumption, <2>9
      DEF IInv, TypeOK, LoopInv, CloseInv, NoLostWakeup, SlotInv, StopReplacing,
         AtReplaceLoop, LoopFree, reqVars, slotVars, countVars, loopVars
  <2>10. CASE StartReplacement(w)
    BY PoolAssumption, <2>10
      DEF IInv, TypeOK, LoopInv, CloseInv, NoLostWakeup, SlotInv, StartReplacement,
         AtReplaceLoop, LoopFree, Spawn, reqVars, slotVars, countVars, loopVars
  <2>11. CASE FactoryFails(w)
    BY PoolAssumption, <2>11
      DEF IInv, TypeOK, LoopInv, CloseInv, NoLostWakeup, SlotInv, FactoryFails,
         AtReplaceLoop, LoopFree, reqVars, slotVars, countVars, loopVars
  <2>12. CASE StartSucceeds(w)
    BY PoolAssumption, <2>12
      DEF IInv, TypeOK, LoopInv, CloseInv, NoLostWakeup, SlotInv, StartSucceeds,
         LoopFree, reqVars, slotVars, countVars, loopVars
  <2>13. CASE StartFails(w)
    BY PoolAssumption, <2>13
      DEF IInv, TypeOK, LoopInv, CloseInv, NoLostWakeup, SlotInv, StartFails,
         LoopFree, reqVars, slotVars, countVars, loopVars
  <2>14. CASE CleanupDone(w)
    BY PoolAssumption, <2>14
      DEF IInv, TypeOK, LoopInv, CloseInv, NoLostWakeup, SlotInv, CleanupDone,
         LoopFree, reqVars, slotVars, countVars, loopVars
  <2>15. CASE CancelledCleanupDone(w)
    BY PoolAssumption, <2>15
      DEF IInv, TypeOK, LoopInv, CloseInv, NoLostWakeup, SlotInv,
         CancelledCleanupDone, LoopFree, reqVars, slotVars, countVars, loopVars
  <2>16. CASE CancelUnwinds(w)
    BY PoolAssumption, <2>16
      DEF IInv, TypeOK, LoopInv, CloseInv, NoLostWakeup, SlotInv, CancelUnwinds,
         Deliver, LoopFree, reqVars, slotVars, countVars, loopVars
  <2>17. CASE CancelSwallowed(w)
    BY PoolAssumption, <2>17
      DEF IInv, TypeOK, LoopInv, CloseInv, NoLostWakeup, SlotInv, CancelSwallowed,
         Deliver, LoopFree, reqVars, slotVars, countVars, loopVars
  <2>18. CASE CancelCompiling(w)
    BY PoolAssumption, <2>18
      DEF IInv, TypeOK, LoopInv, CloseInv, NoLostWakeup, SlotInv, CancelCompiling,
         Deliver, LoopFree, Settle, Pending, reqVars, slotVars, countVars, loopVars
  <2>19. CASE CancelStarting(w)
    BY PoolAssumption, <2>19
      DEF IInv, TypeOK, LoopInv, CloseInv, NoLostWakeup, SlotInv, CancelStarting,
         Deliver, LoopFree, reqVars, slotVars, countVars, loopVars
  <2>20. CASE CancelLostInFailedStart(w)
    BY PoolAssumption, <2>20
      DEF IInv, TypeOK, LoopInv, CloseInv, NoLostWakeup, SlotInv,
         CancelLostInFailedStart, Deliver, LoopFree, reqVars, slotVars, countVars,
         loopVars
  <2>21. CASE ProcessReplies(w)
    BY PoolAssumption, <2>21
      DEF IInv, TypeOK, LoopInv, CloseInv, NoLostWakeup, SlotInv, ProcessReplies,
         reqVars, slotVars, countVars, loopVars
  <2>22. CASE ProcessExits(w) \/ CloseRaises(w)
    BY PoolAssumption, <2>22
      DEF IInv, TypeOK, LoopInv, CloseInv, NoLostWakeup, SlotInv, ProcessExits, CloseRaises,
         reqVars, slotVars, countVars, loopVars
  <2> QED BY <1>2, <2>1, <2>2, <2>3, <2>4, <2>5, <2>6, <2>7, <2>8, <2>9, <2>10, <2>11,
         <2>12, <2>13, <2>14, <2>15, <2>16, <2>17, <2>18, <2>19, <2>20, <2>21, <2>22
      DEF TaskStep
<1>3. ASSUME NEW c \in Closers, CloserStep(c) PROVE LoopInv'
  <2>1. CASE CloseBegins(c)
    BY PoolAssumption, <2>1
      DEF IInv, TypeOK, LoopInv, CloseInv, NoLostWakeup, SlotInv, CloseBegins,
         LoopFree, Pending, reqVars, slotVars, countVars, loopVars
  <2>2. CASE CloseTasksGathered(c)
    BY PoolAssumption, <2>2
      DEF IInv, TypeOK, LoopInv, CloseInv, NoLostWakeup, SlotInv,
         CloseTasksGathered, LoopFree, reqVars, slotVars, countVars, loopVars
  <2>3. CASE CloseFinishes(c)
    BY PoolAssumption, <2>3
      DEF IInv, TypeOK, LoopInv, CloseInv, NoLostWakeup, SlotInv, CloseFinishes,
         LoopFree, reqVars, slotVars, countVars, loopVars
  <2>4. CASE CloseAgain(c)
    BY PoolAssumption, <2>4
      DEF IInv, TypeOK, LoopInv, CloseInv, NoLostWakeup, SlotInv, CloseAgain,
         LoopFree, reqVars, slotVars, countVars, loopVars
  <2> QED BY <1>3, <2>1, <2>2, <2>3, <2>4 DEF CloserStep
<1>4. CASE Terminated \/ UNCHANGED vars
  BY PoolAssumption, <1>4
    DEF IInv, TypeOK, LoopInv, CloseInv, NoLostWakeup, SlotInv, Terminated, vars,
       reqVars, slotVars, countVars, loopVars
<1> QED BY <1>1, <1>2, <1>3, <1>4 DEF Next

(* Every step keeps SlotInv. *)
LEMMA SlotStep == ASSUME IInv, [Next]_vars PROVE SlotInv'
<1>1. ASSUME NEW r \in Requests, CallerStep(r) \/ Expire(r) PROVE SlotInv'
  <2>1. CASE RefuseClosed(r)
    BY PoolAssumption, <2>1
      DEF IInv, TypeOK, LoopInv, SlotInv, CleanPipe, RefuseClosed, LoopFree,
         reqVars, slotVars, countVars, loopVars
  <2>2. CASE RefuseOverloaded(r)
    BY PoolAssumption, <2>2
      DEF IInv, TypeOK, LoopInv, SlotInv, CleanPipe, RefuseOverloaded, LoopFree,
         reqVars, slotVars, countVars, loopVars
  <2>3. CASE Accept(r)
    BY PoolAssumption, <2>3
      DEF IInv, TypeOK, LoopInv, SlotInv, CleanPipe, Accept, LoopFree, EventSet,
         reqVars, slotVars, countVars, loopVars
  <2>4. CASE CallerTimer(r)
    BY PoolAssumption, <2>4
      DEF IInv, TypeOK, LoopInv, SlotInv, CleanPipe, CallerTimer, Interrupt, Settle,
         Pending, LoopFree, reqVars, slotVars, countVars, loopVars
  <2>5. CASE CallerCancel(r)
    BY PoolAssumption, <2>5
      DEF IInv, TypeOK, LoopInv, SlotInv, CleanPipe, CallerCancel, Interrupt,
         Settle, Pending, LoopFree, reqVars, slotVars, countVars, loopVars
  <2>6. CASE CallerWake(r)
    BY PoolAssumption, <2>6
      DEF IInv, TypeOK, LoopInv, SlotInv, CleanPipe, CallerWake, LoopFree, Returned,
         reqVars, slotVars, countVars, loopVars
  <2>7. CASE Expire(r)
    BY PoolAssumption, <2>7
      DEF IInv, TypeOK, LoopInv, SlotInv, CleanPipe, Expire, reqVars, slotVars,
         countVars, loopVars
  <2> QED BY <1>1, <2>1, <2>2, <2>3, <2>4, <2>5, <2>6, <2>7 DEF CallerStep
<1>2. ASSUME NEW w \in Workers,
             TaskStep(w) \/ ProcessReplies(w) \/ ProcessExits(w) \/ CloseRaises(w)
      PROVE  SlotInv'
  <2>1. CASE Resume(w)
    BY PoolAssumption, <2>1
      DEF IInv, TypeOK, LoopInv, SlotInv, CleanPipe, Resume, LoopFree, reqVars,
         slotVars, countVars, loopVars
  <2>2. CASE Park(w)
    BY PoolAssumption, <2>2
      DEF IInv, TypeOK, LoopInv, SlotInv, CleanPipe, Park, reqVars, slotVars,
         countVars, loopVars
  <2>3. CASE TakeSettled(w)
    BY PoolAssumption, <2>3
      DEF IInv, TypeOK, LoopInv, SlotInv, CleanPipe, TakeSettled, Pending, reqVars,
         slotVars, countVars, loopVars
  <2>4. CASE TakeExpired(w)
    BY PoolAssumption, <2>4
      DEF IInv, TypeOK, LoopInv, SlotInv, CleanPipe, TakeExpired, Pending, Settle,
         reqVars, slotVars, countVars, loopVars
  <2>5. CASE Dispatch(w)
    BY PoolAssumption, <2>5
      DEF IInv, TypeOK, LoopInv, SlotInv, CleanPipe, Dispatch, Pending, Execute,
         reqVars, slotVars, countVars, loopVars
  <2>6. CASE CompileReturns(w)
    BY PoolAssumption, <2>6
      DEF IInv, TypeOK, LoopInv, SlotInv, CleanPipe, CompileReturns, LoopFree,
         Settle, Pending, reqVars, slotVars, countVars, loopVars
  <2>7. CASE CompileFails(w)
    BY PoolAssumption, <2>7
      DEF IInv, TypeOK, LoopInv, SlotInv, CleanPipe, CompileFails, LoopFree,
         GiveUpBackend, Settle, Pending, reqVars, slotVars, countVars, loopVars
  <2>8. CASE CompileTimesOut(w)
    BY PoolAssumption, <2>8
      DEF IInv, TypeOK, LoopInv, SlotInv, CleanPipe, CompileTimesOut, LoopFree,
         GiveUpBackend, Settle, Pending, reqVars, slotVars, countVars, loopVars
  <2>9. CASE StopReplacing(w)
    BY PoolAssumption, <2>9
      DEF IInv, TypeOK, LoopInv, SlotInv, CleanPipe, StopReplacing, AtReplaceLoop,
         LoopFree, reqVars, slotVars, countVars, loopVars
  <2>10. CASE StartReplacement(w)
    BY PoolAssumption, <2>10
      DEF IInv, TypeOK, LoopInv, SlotInv, CleanPipe, StartReplacement,
         AtReplaceLoop, LoopFree, Spawn, reqVars, slotVars, countVars, loopVars
  <2>11. CASE FactoryFails(w)
    BY PoolAssumption, <2>11
      DEF IInv, TypeOK, LoopInv, SlotInv, CleanPipe, FactoryFails, AtReplaceLoop,
         LoopFree, reqVars, slotVars, countVars, loopVars
  <2>12. CASE StartSucceeds(w)
    BY PoolAssumption, <2>12
      DEF IInv, TypeOK, LoopInv, SlotInv, CleanPipe, StartSucceeds, LoopFree,
         reqVars, slotVars, countVars, loopVars
  <2>13. CASE StartFails(w)
    BY PoolAssumption, <2>13
      DEF IInv, TypeOK, LoopInv, SlotInv, CleanPipe, StartFails, LoopFree, reqVars,
         slotVars, countVars, loopVars
  <2>14. CASE CleanupDone(w)
    BY PoolAssumption, <2>14
      DEF IInv, TypeOK, LoopInv, SlotInv, CleanPipe, CleanupDone, LoopFree, reqVars,
         slotVars, countVars, loopVars
  <2>15. CASE CancelledCleanupDone(w)
    BY PoolAssumption, <2>15
      DEF IInv, TypeOK, LoopInv, SlotInv, CleanPipe, CancelledCleanupDone, LoopFree,
         reqVars, slotVars, countVars, loopVars
  <2>16. CASE CancelUnwinds(w)
    BY PoolAssumption, <2>16
      DEF IInv, TypeOK, LoopInv, SlotInv, CleanPipe, CancelUnwinds, Deliver,
         LoopFree, reqVars, slotVars, countVars, loopVars
  <2>17. CASE CancelSwallowed(w)
    BY PoolAssumption, <2>17
      DEF IInv, TypeOK, LoopInv, SlotInv, CleanPipe, CancelSwallowed, Deliver,
         LoopFree, reqVars, slotVars, countVars, loopVars
  <2>18. CASE CancelCompiling(w)
    BY PoolAssumption, <2>18
      DEF IInv, TypeOK, LoopInv, SlotInv, CleanPipe, CancelCompiling, Deliver,
         LoopFree, Settle, Pending, reqVars, slotVars, countVars, loopVars
  <2>19. CASE CancelStarting(w)
    BY PoolAssumption, <2>19
      DEF IInv, TypeOK, LoopInv, SlotInv, CleanPipe, CancelStarting, Deliver,
         LoopFree, reqVars, slotVars, countVars, loopVars
  <2>20. CASE CancelLostInFailedStart(w)
    BY PoolAssumption, <2>20
      DEF IInv, TypeOK, LoopInv, SlotInv, CleanPipe, CancelLostInFailedStart,
         Deliver, LoopFree, reqVars, slotVars, countVars, loopVars
  <2>21. CASE ProcessReplies(w)
    BY PoolAssumption, <2>21
      DEF IInv, TypeOK, LoopInv, SlotInv, CleanPipe, ProcessReplies, reqVars,
         slotVars, countVars, loopVars
  <2>22. CASE ProcessExits(w) \/ CloseRaises(w)
    BY PoolAssumption, <2>22
      DEF IInv, TypeOK, LoopInv, SlotInv, CleanPipe, ProcessExits, CloseRaises, reqVars,
         slotVars, countVars, loopVars
  <2> QED BY <1>2, <2>1, <2>2, <2>3, <2>4, <2>5, <2>6, <2>7, <2>8, <2>9, <2>10, <2>11,
         <2>12, <2>13, <2>14, <2>15, <2>16, <2>17, <2>18, <2>19, <2>20, <2>21, <2>22
      DEF TaskStep
<1>3. ASSUME NEW c \in Closers, CloserStep(c) PROVE SlotInv'
  <2>1. CASE CloseBegins(c)
    BY PoolAssumption, <2>1
      DEF IInv, TypeOK, LoopInv, SlotInv, CleanPipe, CloseBegins, LoopFree, Pending,
         reqVars, slotVars, countVars, loopVars
  <2>2. CASE CloseTasksGathered(c)
    BY PoolAssumption, <2>2
      DEF IInv, TypeOK, LoopInv, SlotInv, CleanPipe, CloseTasksGathered, LoopFree,
         reqVars, slotVars, countVars, loopVars
  <2>3. CASE CloseFinishes(c)
    BY PoolAssumption, <2>3
      DEF IInv, TypeOK, LoopInv, SlotInv, CleanPipe, CloseFinishes, LoopFree,
         reqVars, slotVars, countVars, loopVars
  <2>4. CASE CloseAgain(c)
    BY PoolAssumption, <2>4
      DEF IInv, TypeOK, LoopInv, SlotInv, CleanPipe, CloseAgain, LoopFree, reqVars,
         slotVars, countVars, loopVars
  <2> QED BY <1>3, <2>1, <2>2, <2>3, <2>4 DEF CloserStep
<1>4. CASE Terminated \/ UNCHANGED vars
  BY PoolAssumption, <1>4
    DEF IInv, TypeOK, LoopInv, SlotInv, CleanPipe, Terminated, vars, reqVars,
       slotVars, countVars, loopVars
<1> QED BY <1>1, <1>2, <1>3, <1>4 DEF Next

(* Every step keeps CloseInv. *)
LEMMA CloseStep == ASSUME IInv, [Next]_vars PROVE CloseInv'
<1>1. ASSUME NEW r \in Requests, CallerStep(r) \/ Expire(r) PROVE CloseInv'
  <2>1. CASE RefuseClosed(r)
    BY PoolAssumption, <2>1
      DEF IInv, TypeOK, LoopInv, SlotInv, CloseInv, RefuseClosed, LoopFree, reqVars,
         slotVars, countVars, loopVars
  <2>2. CASE RefuseOverloaded(r)
    BY PoolAssumption, <2>2
      DEF IInv, TypeOK, LoopInv, SlotInv, CloseInv, RefuseOverloaded, LoopFree,
         reqVars, slotVars, countVars, loopVars
  <2>3. CASE Accept(r)
    BY PoolAssumption, <2>3
      DEF IInv, TypeOK, LoopInv, SlotInv, CloseInv, Accept, LoopFree, EventSet,
         reqVars, slotVars, countVars, loopVars
  <2>4. CASE CallerTimer(r)
    BY PoolAssumption, <2>4
      DEF IInv, TypeOK, LoopInv, SlotInv, CloseInv, CallerTimer, Interrupt, Settle,
         Pending, LoopFree, reqVars, slotVars, countVars, loopVars
  <2>5. CASE CallerCancel(r)
    BY PoolAssumption, <2>5
      DEF IInv, TypeOK, LoopInv, SlotInv, CloseInv, CallerCancel, Interrupt, Settle,
         Pending, LoopFree, reqVars, slotVars, countVars, loopVars
  <2>6. CASE CallerWake(r)
    <3>1. RemoveFirst(<<>>, r) = <<>>
      BY DEF RemoveFirst
    <3> QED
      BY <3>1, <2>6 DEF IInv, CloseInv, CallerWake, slotVars, countVars
  <2>7. CASE Expire(r)
    BY PoolAssumption, <2>7
      DEF IInv, TypeOK, LoopInv, SlotInv, CloseInv, Expire, reqVars, slotVars,
         countVars, loopVars
  <2> QED BY <1>1, <2>1, <2>2, <2>3, <2>4, <2>5, <2>6, <2>7 DEF CallerStep
<1>2. ASSUME NEW w \in Workers,
             TaskStep(w) \/ ProcessReplies(w) \/ ProcessExits(w) \/ CloseRaises(w)
      PROVE  CloseInv'
  <2>1. CASE Resume(w)
    BY PoolAssumption, <2>1
      DEF IInv, TypeOK, LoopInv, SlotInv, CloseInv, Resume, LoopFree, reqVars,
         slotVars, countVars, loopVars
  <2>2. CASE Park(w)
    BY PoolAssumption, <2>2
      DEF IInv, TypeOK, LoopInv, SlotInv, CloseInv, Park, reqVars, slotVars,
         countVars, loopVars
  <2>3. CASE TakeSettled(w)
    BY PoolAssumption, <2>3
      DEF IInv, TypeOK, LoopInv, SlotInv, CloseInv, TakeSettled, Pending, reqVars,
         slotVars, countVars, loopVars
  <2>4. CASE TakeExpired(w)
    BY PoolAssumption, <2>4
      DEF IInv, TypeOK, LoopInv, SlotInv, CloseInv, TakeExpired, Pending, Settle,
         reqVars, slotVars, countVars, loopVars
  <2>5. CASE Dispatch(w)
    BY PoolAssumption, <2>5
      DEF IInv, TypeOK, LoopInv, SlotInv, CloseInv, Dispatch, Pending, Execute,
         reqVars, slotVars, countVars, loopVars
  <2>6. CASE CompileReturns(w)
    BY PoolAssumption, <2>6
      DEF IInv, TypeOK, LoopInv, SlotInv, CloseInv, CompileReturns, LoopFree,
         Settle, Pending, reqVars, slotVars, countVars, loopVars
  <2>7. CASE CompileFails(w)
    BY PoolAssumption, <2>7
      DEF IInv, TypeOK, LoopInv, SlotInv, CloseInv, CompileFails, LoopFree,
         GiveUpBackend, Settle, Pending, reqVars, slotVars, countVars, loopVars
  <2>8. CASE CompileTimesOut(w)
    BY PoolAssumption, <2>8
      DEF IInv, TypeOK, LoopInv, SlotInv, CloseInv, CompileTimesOut, LoopFree,
         GiveUpBackend, Settle, Pending, reqVars, slotVars, countVars, loopVars
  <2>9. CASE StopReplacing(w)
    BY PoolAssumption, <2>9
      DEF IInv, TypeOK, LoopInv, SlotInv, CloseInv, StopReplacing, AtReplaceLoop,
         LoopFree, reqVars, slotVars, countVars, loopVars
  <2>10. CASE StartReplacement(w)
    BY PoolAssumption, <2>10
      DEF IInv, TypeOK, LoopInv, SlotInv, CloseInv, StartReplacement, AtReplaceLoop,
         LoopFree, Spawn, reqVars, slotVars, countVars, loopVars
  <2>11. CASE FactoryFails(w)
    BY PoolAssumption, <2>11
      DEF IInv, TypeOK, LoopInv, SlotInv, CloseInv, FactoryFails, AtReplaceLoop,
         LoopFree, reqVars, slotVars, countVars, loopVars
  <2>12. CASE StartSucceeds(w)
    BY PoolAssumption, <2>12
      DEF IInv, TypeOK, LoopInv, SlotInv, CloseInv, StartSucceeds, LoopFree,
         reqVars, slotVars, countVars, loopVars
  <2>13. CASE StartFails(w)
    BY PoolAssumption, <2>13
      DEF IInv, TypeOK, LoopInv, SlotInv, CloseInv, StartFails, LoopFree, reqVars,
         slotVars, countVars, loopVars
  <2>14. CASE CleanupDone(w)
    BY PoolAssumption, <2>14
      DEF IInv, TypeOK, LoopInv, SlotInv, CloseInv, CleanupDone, LoopFree, reqVars,
         slotVars, countVars, loopVars
  <2>15. CASE CancelledCleanupDone(w)
    BY PoolAssumption, <2>15
      DEF IInv, TypeOK, LoopInv, SlotInv, CloseInv, CancelledCleanupDone, LoopFree,
         reqVars, slotVars, countVars, loopVars
  <2>16. CASE CancelUnwinds(w)
    BY PoolAssumption, <2>16
      DEF IInv, TypeOK, LoopInv, SlotInv, CloseInv, CancelUnwinds, Deliver,
         LoopFree, reqVars, slotVars, countVars, loopVars
  <2>17. CASE CancelSwallowed(w)
    BY PoolAssumption, <2>17
      DEF IInv, TypeOK, LoopInv, SlotInv, CloseInv, CancelSwallowed, Deliver,
         LoopFree, reqVars, slotVars, countVars, loopVars
  <2>18. CASE CancelCompiling(w)
    BY PoolAssumption, <2>18
      DEF IInv, TypeOK, LoopInv, SlotInv, CloseInv, CancelCompiling, Deliver,
         LoopFree, Settle, Pending, reqVars, slotVars, countVars, loopVars
  <2>19. CASE CancelStarting(w)
    BY PoolAssumption, <2>19
      DEF IInv, TypeOK, LoopInv, SlotInv, CloseInv, CancelStarting, Deliver,
         LoopFree, reqVars, slotVars, countVars, loopVars
  <2>20. CASE CancelLostInFailedStart(w)
    BY PoolAssumption, <2>20
      DEF IInv, TypeOK, LoopInv, SlotInv, CloseInv, CancelLostInFailedStart,
         Deliver, LoopFree, reqVars, slotVars, countVars, loopVars
  <2>21. CASE ProcessReplies(w)
    BY PoolAssumption, <2>21
      DEF IInv, TypeOK, LoopInv, SlotInv, CloseInv, ProcessReplies, reqVars,
         slotVars, countVars, loopVars
  <2>22. CASE ProcessExits(w) \/ CloseRaises(w)
    BY PoolAssumption, <2>22
      DEF IInv, TypeOK, LoopInv, SlotInv, CloseInv, ProcessExits, CloseRaises, reqVars, slotVars,
         countVars, loopVars
  <2> QED BY <1>2, <2>1, <2>2, <2>3, <2>4, <2>5, <2>6, <2>7, <2>8, <2>9, <2>10, <2>11,
         <2>12, <2>13, <2>14, <2>15, <2>16, <2>17, <2>18, <2>19, <2>20, <2>21, <2>22
      DEF TaskStep
<1>3. ASSUME NEW c \in Closers, CloserStep(c) PROVE CloseInv'
  <2>1. CASE CloseBegins(c)
    <3>1. /\ current = None /\ closer[c] = "idle" /\ poolState # "closed"
          /\ poolState' = "closing" /\ queue' = <<>> /\ pc' = pc
          /\ cancelPending' = [w \in Workers |-> pc[w] # "ended"]
          /\ closer' = [closer EXCEPT ![c] = "waitTasks"]
      BY <2>1 DEF CloseBegins, LoopFree
    <3>2. \A w \in Workers : pc[w] # "looping"
      BY <3>1, PoolAssumption DEF IInv, LoopInv
    <3>3. \A w \in Workers : pc[w] # "ended" => cancelPending'[w]
      BY <3>1
    <3>4. \A d \in Closers : closer'[d] \in {"waitBackends", "returned"} => closer'[d] = closer[d]
      BY <3>1 DEF IInv, TypeOK
    <3> QED
      BY <3>1, <3>2, <3>3, <3>4 DEF IInv, CloseInv
  <2>2. CASE CloseTasksGathered(c)
    BY PoolAssumption, <2>2
      DEF IInv, TypeOK, LoopInv, SlotInv, CloseInv, CloseTasksGathered, LoopFree,
         reqVars, slotVars, countVars, loopVars
  <2>3. CASE CloseFinishes(c)
    BY PoolAssumption, <2>3
      DEF IInv, TypeOK, LoopInv, SlotInv, CloseInv, CloseFinishes, LoopFree,
         reqVars, slotVars, countVars, loopVars
  <2>4. CASE CloseAgain(c)
    BY PoolAssumption, <2>4
      DEF IInv, TypeOK, LoopInv, SlotInv, CloseInv, CloseAgain, LoopFree, reqVars,
         slotVars, countVars, loopVars
  <2> QED BY <1>3, <2>1, <2>2, <2>3, <2>4 DEF CloserStep
<1>4. CASE Terminated \/ UNCHANGED vars
  BY PoolAssumption, <1>4
    DEF IInv, TypeOK, LoopInv, SlotInv, CloseInv, Terminated, vars, reqVars,
       slotVars, countVars, loopVars
<1> QED BY <1>1, <1>2, <1>3, <1>4 DEF Next

(* Every step keeps JobInv. *)
LEMMA JobStep == ASSUME IInv, [Next]_vars PROVE JobInv'
<1>1. ASSUME NEW r \in Requests, CallerStep(r) \/ Expire(r) PROVE JobInv'
  <2>1. CASE RefuseClosed(r)
    BY PoolAssumption, <2>1
      DEF IInv, TypeOK, LoopInv, SlotInv, CloseInv, JobInv, Pending, RefuseClosed,
         LoopFree, reqVars, slotVars, countVars, loopVars
  <2>2. CASE RefuseOverloaded(r)
    BY PoolAssumption, <2>2
      DEF IInv, TypeOK, LoopInv, SlotInv, CloseInv, JobInv, Pending,
         RefuseOverloaded, LoopFree, reqVars, slotVars, countVars, loopVars
  <2>3. CASE Accept(r)
    <3>1. /\ \A y : Contains(queue', y) <=> Contains(queue, y) \/ y = r
          /\ ~Contains(queue, r) => Distinct(queue')
          /\ Len(queue') = Len(queue) + 1 /\ Len(queue) \in Nat
      BY <2>3, AppendFacts, LenProperties DEF IInv, TypeOK, JobInv, Accept
    <3>2. stage[r] = "new" /\ ~Contains(queue, r) /\ \A w \in Workers : job[w] # r
      BY <2>3, PoolAssumption DEF IInv, JobInv, Accept
    <3> QED
      BY <3>1, <3>2, <2>3, PoolAssumption
      DEF IInv, TypeOK, JobInv, Accept, Pending, slotVars
  <2>4. CASE CallerTimer(r)
    BY PoolAssumption, <2>4
      DEF IInv, TypeOK, LoopInv, SlotInv, CloseInv, JobInv, Pending, CallerTimer,
         Interrupt, Settle, LoopFree, reqVars, slotVars, countVars, loopVars
  <2>5. CASE CallerCancel(r)
    BY PoolAssumption, <2>5
      DEF IInv, TypeOK, LoopInv, SlotInv, CloseInv, JobInv, Pending, CallerCancel,
         Interrupt, Settle, LoopFree, reqVars, slotVars, countVars, loopVars
  <2>6. CASE CallerWake(r)
    <3>1. /\ \A y : Contains(RemoveFirst(queue, r), y) <=> Contains(queue, y) /\ y # r
          /\ Distinct(RemoveFirst(queue, r))
          /\ Len(RemoveFirst(queue, r)) <= Len(queue)
          /\ Len(RemoveFirst(queue, r)) \in Nat /\ Len(queue) \in Nat
      BY RemoveFirstFacts, LenProperties DEF IInv, TypeOK, JobInv
    <3>2. stage[r] # "queued" => ~Contains(queue, r)
      BY DEF IInv, JobInv
    <3> QED
      BY <3>1, <3>2, <2>6, PoolAssumption
      DEF IInv, TypeOK, JobInv, CallerWake, Pending, slotVars
  <2>7. CASE Expire(r)
    BY PoolAssumption, <2>7
      DEF IInv, TypeOK, LoopInv, SlotInv, CloseInv, JobInv, Pending, Expire,
         reqVars, slotVars, countVars, loopVars
  <2> QED BY <1>1, <2>1, <2>2, <2>3, <2>4, <2>5, <2>6, <2>7 DEF CallerStep
<1>2. ASSUME NEW w \in Workers,
             TaskStep(w) \/ ProcessReplies(w) \/ ProcessExits(w) \/ CloseRaises(w)
      PROVE  JobInv'
  <2>1. CASE Resume(w)
    BY PoolAssumption, <2>1
      DEF IInv, TypeOK, LoopInv, SlotInv, CloseInv, JobInv, Pending, Resume,
         LoopFree, reqVars, slotVars, countVars, loopVars
  <2>2. CASE Park(w)
    BY PoolAssumption, <2>2
      DEF IInv, TypeOK, LoopInv, SlotInv, CloseInv, JobInv, Pending, Park, reqVars,
         slotVars, countVars, loopVars
  <2>3. CASE TakeSettled(w)
    <3> DEFINE h == Head(queue)
    <3>1. /\ h \in Requests /\ Contains(queue, h)
          /\ \A y : Contains(Tail(queue), y) <=> Contains(queue, y) /\ y # h
          /\ Distinct(Tail(queue)) /\ Len(Tail(queue)) = Len(queue) - 1
          /\ Len(queue) \in Nat
      BY <2>3, TailFacts, LenProperties DEF IInv, TypeOK, JobInv, TakeSettled
    <3>2. stage[h] = "queued" /\ answer[h] = "none" /\ \A v \in Workers : job[v] # h
      BY <3>1, PoolAssumption DEF IInv, JobInv
    <3> QED
      BY <3>1, <3>2, <2>3, PoolAssumption
        DEF IInv, TypeOK, JobInv, TakeSettled, Pending, slotVars
  <2>4. CASE TakeExpired(w)
    <3> DEFINE h == Head(queue)
    <3>1. /\ h \in Requests /\ Contains(queue, h)
          /\ \A y : Contains(Tail(queue), y) <=> Contains(queue, y) /\ y # h
          /\ Distinct(Tail(queue)) /\ Len(Tail(queue)) = Len(queue) - 1
          /\ Len(queue) \in Nat
      BY <2>4, TailFacts, LenProperties DEF IInv, TypeOK, JobInv, TakeExpired
    <3>2. stage[h] = "queued" /\ answer[h] = "none" /\ \A v \in Workers : job[v] # h
      BY <3>1, PoolAssumption DEF IInv, JobInv
    <3> QED
      BY <3>1, <3>2, <2>4, PoolAssumption
        DEF IInv, TypeOK, JobInv, TakeExpired, Pending, Settle, slotVars
  <2>5. CASE Dispatch(w)
    <3> DEFINE h == Head(queue)
    <3>1. /\ h \in Requests /\ Contains(queue, h)
          /\ \A y : Contains(Tail(queue), y) <=> Contains(queue, y) /\ y # h
          /\ Distinct(Tail(queue)) /\ Len(Tail(queue)) = Len(queue) - 1
          /\ Len(queue) \in Nat
      BY <2>5, TailFacts, LenProperties DEF IInv, TypeOK, JobInv, Dispatch
    <3>2. stage[h] = "queued" /\ answer[h] = "none" /\ \A v \in Workers : job[v] # h
      BY <3>1, PoolAssumption DEF IInv, JobInv
    <3> QED
      BY <3>1, <3>2, <2>5, PoolAssumption
        DEF IInv, TypeOK, JobInv, Dispatch, Pending, Execute, slotVars, LoopInv,
           SlotInv
  <2>6. CASE CompileReturns(w)
    BY PoolAssumption, <2>6
      DEF IInv, TypeOK, LoopInv, SlotInv, CloseInv, JobInv, Pending, CompileReturns,
         LoopFree, Settle, reqVars, slotVars, countVars, loopVars
  <2>7. CASE CompileFails(w)
    BY PoolAssumption, <2>7
      DEF IInv, TypeOK, LoopInv, SlotInv, CloseInv, JobInv, Pending, CompileFails,
         LoopFree, GiveUpBackend, Settle, reqVars, slotVars, countVars, loopVars
  <2>8. CASE CompileTimesOut(w)
    BY PoolAssumption, <2>8
      DEF IInv, TypeOK, LoopInv, SlotInv, CloseInv, JobInv, Pending,
         CompileTimesOut, LoopFree, GiveUpBackend, Settle, reqVars, slotVars,
         countVars, loopVars
  <2>9. CASE StopReplacing(w)
    BY PoolAssumption, <2>9
      DEF IInv, TypeOK, LoopInv, SlotInv, CloseInv, JobInv, Pending, StopReplacing,
         AtReplaceLoop, LoopFree, reqVars, slotVars, countVars, loopVars
  <2>10. CASE StartReplacement(w)
    BY PoolAssumption, <2>10
      DEF IInv, TypeOK, LoopInv, SlotInv, CloseInv, JobInv, Pending,
         StartReplacement, AtReplaceLoop, LoopFree, Spawn, reqVars, slotVars,
         countVars, loopVars
  <2>11. CASE FactoryFails(w)
    BY PoolAssumption, <2>11
      DEF IInv, TypeOK, LoopInv, SlotInv, CloseInv, JobInv, Pending, FactoryFails,
         AtReplaceLoop, LoopFree, reqVars, slotVars, countVars, loopVars
  <2>12. CASE StartSucceeds(w)
    BY PoolAssumption, <2>12
      DEF IInv, TypeOK, LoopInv, SlotInv, CloseInv, JobInv, Pending, StartSucceeds,
         LoopFree, reqVars, slotVars, countVars, loopVars
  <2>13. CASE StartFails(w)
    BY PoolAssumption, <2>13
      DEF IInv, TypeOK, LoopInv, SlotInv, CloseInv, JobInv, Pending, StartFails,
         LoopFree, reqVars, slotVars, countVars, loopVars
  <2>14. CASE CleanupDone(w)
    BY PoolAssumption, <2>14
      DEF IInv, TypeOK, LoopInv, SlotInv, CloseInv, JobInv, Pending, CleanupDone,
         LoopFree, reqVars, slotVars, countVars, loopVars
  <2>15. CASE CancelledCleanupDone(w)
    BY PoolAssumption, <2>15
      DEF IInv, TypeOK, LoopInv, SlotInv, CloseInv, JobInv, Pending,
         CancelledCleanupDone, LoopFree, reqVars, slotVars, countVars, loopVars
  <2>16. CASE CancelUnwinds(w)
    BY PoolAssumption, <2>16
      DEF IInv, TypeOK, LoopInv, SlotInv, CloseInv, JobInv, Pending, CancelUnwinds,
         Deliver, LoopFree, reqVars, slotVars, countVars, loopVars
  <2>17. CASE CancelSwallowed(w)
    BY PoolAssumption, <2>17
      DEF IInv, TypeOK, LoopInv, SlotInv, CloseInv, JobInv, Pending,
         CancelSwallowed, Deliver, LoopFree, reqVars, slotVars, countVars, loopVars
  <2>18. CASE CancelCompiling(w)
    BY PoolAssumption, <2>18
      DEF IInv, TypeOK, LoopInv, SlotInv, CloseInv, JobInv, Pending,
         CancelCompiling, Deliver, LoopFree, Settle, reqVars, slotVars, countVars,
         loopVars
  <2>19. CASE CancelStarting(w)
    BY PoolAssumption, <2>19
      DEF IInv, TypeOK, LoopInv, SlotInv, CloseInv, JobInv, Pending, CancelStarting,
         Deliver, LoopFree, reqVars, slotVars, countVars, loopVars
  <2>20. CASE CancelLostInFailedStart(w)
    BY PoolAssumption, <2>20
      DEF IInv, TypeOK, LoopInv, SlotInv, CloseInv, JobInv, Pending,
         CancelLostInFailedStart, Deliver, LoopFree, reqVars, slotVars, countVars,
         loopVars
  <2>21. CASE ProcessReplies(w)
    BY PoolAssumption, <2>21
      DEF IInv, TypeOK, LoopInv, SlotInv, CloseInv, JobInv, Pending, ProcessReplies,
         reqVars, slotVars, countVars, loopVars
  <2>22. CASE ProcessExits(w) \/ CloseRaises(w)
    BY PoolAssumption, <2>22
      DEF IInv, TypeOK, LoopInv, SlotInv, CloseInv, JobInv, Pending, ProcessExits, CloseRaises,
         reqVars, slotVars, countVars, loopVars
  <2> QED BY <1>2, <2>1, <2>2, <2>3, <2>4, <2>5, <2>6, <2>7, <2>8, <2>9, <2>10, <2>11,
         <2>12, <2>13, <2>14, <2>15, <2>16, <2>17, <2>18, <2>19, <2>20, <2>21, <2>22
      DEF TaskStep
<1>3. ASSUME NEW c \in Closers, CloserStep(c) PROVE JobInv'
  <2>1. CASE CloseBegins(c)
    <3>1. Distinct(<<>>) /\ Len(<<>>) = 0 /\ \A y : ~Contains(<<>>, y)
      BY DEF Distinct, Contains
    <3> QED
      BY <3>1, <2>1, PoolAssumption
      DEF IInv, TypeOK, JobInv, CloseBegins, Pending
  <2>2. CASE CloseTasksGathered(c)
    BY PoolAssumption, <2>2
      DEF IInv, TypeOK, LoopInv, SlotInv, CloseInv, JobInv, Pending,
         CloseTasksGathered, LoopFree, reqVars, slotVars, countVars, loopVars
  <2>3. CASE CloseFinishes(c)
    BY PoolAssumption, <2>3
      DEF IInv, TypeOK, LoopInv, SlotInv, CloseInv, JobInv, Pending, CloseFinishes,
         LoopFree, reqVars, slotVars, countVars, loopVars
  <2>4. CASE CloseAgain(c)
    BY PoolAssumption, <2>4
      DEF IInv, TypeOK, LoopInv, SlotInv, CloseInv, JobInv, Pending, CloseAgain,
         LoopFree, reqVars, slotVars, countVars, loopVars
  <2> QED BY <1>3, <2>1, <2>2, <2>3, <2>4 DEF CloserStep
<1>4. CASE Terminated \/ UNCHANGED vars
  BY PoolAssumption, <1>4
    DEF IInv, TypeOK, LoopInv, SlotInv, CloseInv, JobInv, Pending, Terminated, vars,
       reqVars, slotVars, countVars, loopVars
<1> QED BY <1>1, <1>2, <1>3, <1>4 DEF Next

(* Every step keeps OutcomeInv. *)
LEMMA OutcomeStep == ASSUME IInv, [Next]_vars PROVE OutcomeInv'
<1>1. ASSUME NEW r \in Requests, CallerStep(r) \/ Expire(r) PROVE OutcomeInv'
  <2>1. CASE RefuseClosed(r)
    BY PoolAssumption, <2>1
      DEF IInv, TypeOK, LoopInv, SlotInv, CloseInv, JobInv, OutcomeInv,
         AnswersJustified, RefuseClosed, LoopFree, reqVars, slotVars, countVars,
         loopVars
  <2>2. CASE RefuseOverloaded(r)
    BY PoolAssumption, <2>2
      DEF IInv, TypeOK, LoopInv, SlotInv, CloseInv, JobInv, OutcomeInv,
         AnswersJustified, RefuseOverloaded, LoopFree, reqVars, slotVars, countVars,
         loopVars
  <2>3. CASE Accept(r)
    BY PoolAssumption, <2>3
      DEF IInv, TypeOK, LoopInv, SlotInv, CloseInv, JobInv, OutcomeInv,
         AnswersJustified, Accept, LoopFree, EventSet, reqVars, slotVars, countVars,
         loopVars
  <2>4. CASE CallerTimer(r)
    BY PoolAssumption, <2>4
      DEF IInv, TypeOK, LoopInv, SlotInv, CloseInv, JobInv, OutcomeInv,
         AnswersJustified, CallerTimer, Interrupt, Settle, Pending, LoopFree,
         reqVars, slotVars, countVars, loopVars
  <2>5. CASE CallerCancel(r)
    BY PoolAssumption, <2>5
      DEF IInv, TypeOK, LoopInv, SlotInv, CloseInv, JobInv, OutcomeInv,
         AnswersJustified, CallerCancel, Interrupt, Settle, Pending, LoopFree,
         reqVars, slotVars, countVars, loopVars
  <2>6. CASE CallerWake(r)
    BY PoolAssumption, <2>6
      DEF IInv, TypeOK, LoopInv, SlotInv, CloseInv, JobInv, OutcomeInv,
         AnswersJustified, CallerWake, LoopFree, Returned, reqVars, slotVars,
         countVars, loopVars
  <2>7. CASE Expire(r)
    BY PoolAssumption, <2>7
      DEF IInv, TypeOK, LoopInv, SlotInv, CloseInv, JobInv, OutcomeInv,
         AnswersJustified, Expire, reqVars, slotVars, countVars, loopVars
  <2> QED BY <1>1, <2>1, <2>2, <2>3, <2>4, <2>5, <2>6, <2>7 DEF CallerStep
<1>2. ASSUME NEW w \in Workers,
             TaskStep(w) \/ ProcessReplies(w) \/ ProcessExits(w) \/ CloseRaises(w)
      PROVE  OutcomeInv'
  <2>1. CASE Resume(w)
    BY PoolAssumption, <2>1
      DEF IInv, TypeOK, LoopInv, SlotInv, CloseInv, JobInv, OutcomeInv,
         AnswersJustified, Resume, LoopFree, reqVars, slotVars, countVars, loopVars
  <2>2. CASE Park(w)
    BY PoolAssumption, <2>2
      DEF IInv, TypeOK, LoopInv, SlotInv, CloseInv, JobInv, OutcomeInv,
         AnswersJustified, Park, reqVars, slotVars, countVars, loopVars
  <2>3. CASE TakeSettled(w)
    <3>1. /\ Head(queue) \in Requests
          /\ stage[Head(queue)] = "queued" /\ answer[Head(queue)] = "none"
      BY <2>3, TailFacts DEF IInv, TypeOK, JobInv, TakeSettled
    <3> QED
      BY <3>1, <2>3
        DEF IInv, TypeOK, OutcomeInv, AnswersJustified, TakeSettled, Pending,
           slotVars, loopVars
  <2>4. CASE TakeExpired(w)
    <3>1. /\ Head(queue) \in Requests
          /\ stage[Head(queue)] = "queued" /\ answer[Head(queue)] = "none"
      BY <2>4, TailFacts DEF IInv, TypeOK, JobInv, TakeExpired
    <3> QED
      BY <3>1, <2>4
        DEF IInv, TypeOK, OutcomeInv, AnswersJustified, TakeExpired, Pending,
           Settle, slotVars, loopVars
  <2>5. CASE Dispatch(w)
    <3>1. /\ Head(queue) \in Requests
          /\ stage[Head(queue)] = "queued" /\ answer[Head(queue)] = "none"
      BY <2>5, TailFacts DEF IInv, TypeOK, JobInv, Dispatch
    <3> QED
      BY <3>1, <2>5
        DEF IInv, TypeOK, OutcomeInv, AnswersJustified, Dispatch, Pending, Execute,
           slotVars, loopVars
  <2>6. CASE CompileReturns(w)
    BY PoolAssumption, <2>6
      DEF IInv, TypeOK, LoopInv, SlotInv, CloseInv, JobInv, OutcomeInv,
         AnswersJustified, CompileReturns, LoopFree, Settle, Pending, reqVars,
         slotVars, countVars, loopVars
  <2>7. CASE CompileFails(w)
    BY PoolAssumption, <2>7
      DEF IInv, TypeOK, LoopInv, SlotInv, CloseInv, JobInv, OutcomeInv,
         AnswersJustified, CompileFails, LoopFree, GiveUpBackend, Settle, Pending,
         reqVars, slotVars, countVars, loopVars
  <2>8. CASE CompileTimesOut(w)
    BY PoolAssumption, <2>8
      DEF IInv, TypeOK, LoopInv, SlotInv, CloseInv, JobInv, OutcomeInv,
         AnswersJustified, CompileTimesOut, LoopFree, GiveUpBackend, Settle,
         Pending, reqVars, slotVars, countVars, loopVars
  <2>9. CASE StopReplacing(w)
    BY PoolAssumption, <2>9
      DEF IInv, TypeOK, LoopInv, SlotInv, CloseInv, JobInv, OutcomeInv,
         AnswersJustified, StopReplacing, AtReplaceLoop, LoopFree, reqVars,
         slotVars, countVars, loopVars
  <2>10. CASE StartReplacement(w)
    BY PoolAssumption, <2>10
      DEF IInv, TypeOK, LoopInv, SlotInv, CloseInv, JobInv, OutcomeInv,
         AnswersJustified, StartReplacement, AtReplaceLoop, LoopFree, Spawn,
         reqVars, slotVars, countVars, loopVars
  <2>11. CASE FactoryFails(w)
    BY PoolAssumption, <2>11
      DEF IInv, TypeOK, LoopInv, SlotInv, CloseInv, JobInv, OutcomeInv,
         AnswersJustified, FactoryFails, AtReplaceLoop, LoopFree, reqVars, slotVars,
         countVars, loopVars
  <2>12. CASE StartSucceeds(w)
    BY PoolAssumption, <2>12
      DEF IInv, TypeOK, LoopInv, SlotInv, CloseInv, JobInv, OutcomeInv,
         AnswersJustified, StartSucceeds, LoopFree, reqVars, slotVars, countVars,
         loopVars
  <2>13. CASE StartFails(w)
    BY PoolAssumption, <2>13
      DEF IInv, TypeOK, LoopInv, SlotInv, CloseInv, JobInv, OutcomeInv,
         AnswersJustified, StartFails, LoopFree, reqVars, slotVars, countVars,
         loopVars
  <2>14. CASE CleanupDone(w)
    BY PoolAssumption, <2>14
      DEF IInv, TypeOK, LoopInv, SlotInv, CloseInv, JobInv, OutcomeInv,
         AnswersJustified, CleanupDone, LoopFree, reqVars, slotVars, countVars,
         loopVars
  <2>15. CASE CancelledCleanupDone(w)
    BY PoolAssumption, <2>15
      DEF IInv, TypeOK, LoopInv, SlotInv, CloseInv, JobInv, OutcomeInv,
         AnswersJustified, CancelledCleanupDone, LoopFree, reqVars, slotVars,
         countVars, loopVars
  <2>16. CASE CancelUnwinds(w)
    BY PoolAssumption, <2>16
      DEF IInv, TypeOK, LoopInv, SlotInv, CloseInv, JobInv, OutcomeInv,
         AnswersJustified, CancelUnwinds, Deliver, LoopFree, reqVars, slotVars,
         countVars, loopVars
  <2>17. CASE CancelSwallowed(w)
    BY PoolAssumption, <2>17
      DEF IInv, TypeOK, LoopInv, SlotInv, CloseInv, JobInv, OutcomeInv,
         AnswersJustified, CancelSwallowed, Deliver, LoopFree, reqVars, slotVars,
         countVars, loopVars
  <2>18. CASE CancelCompiling(w)
    BY PoolAssumption, <2>18
      DEF IInv, TypeOK, LoopInv, SlotInv, CloseInv, JobInv, OutcomeInv,
         AnswersJustified, CancelCompiling, Deliver, LoopFree, Settle, Pending,
         reqVars, slotVars, countVars, loopVars
  <2>19. CASE CancelStarting(w)
    BY PoolAssumption, <2>19
      DEF IInv, TypeOK, LoopInv, SlotInv, CloseInv, JobInv, OutcomeInv,
         AnswersJustified, CancelStarting, Deliver, LoopFree, reqVars, slotVars,
         countVars, loopVars
  <2>20. CASE CancelLostInFailedStart(w)
    BY PoolAssumption, <2>20
      DEF IInv, TypeOK, LoopInv, SlotInv, CloseInv, JobInv, OutcomeInv,
         AnswersJustified, CancelLostInFailedStart, Deliver, LoopFree, reqVars,
         slotVars, countVars, loopVars
  <2>21. CASE ProcessReplies(w)
    BY PoolAssumption, <2>21
      DEF IInv, TypeOK, LoopInv, SlotInv, CloseInv, JobInv, OutcomeInv,
         AnswersJustified, ProcessReplies, reqVars, slotVars, countVars, loopVars
  <2>22. CASE ProcessExits(w) \/ CloseRaises(w)
    BY PoolAssumption, <2>22
      DEF IInv, TypeOK, LoopInv, SlotInv, CloseInv, JobInv, OutcomeInv,
         AnswersJustified, ProcessExits, CloseRaises, reqVars, slotVars, countVars, loopVars
  <2> QED BY <1>2, <2>1, <2>2, <2>3, <2>4, <2>5, <2>6, <2>7, <2>8, <2>9, <2>10, <2>11,
         <2>12, <2>13, <2>14, <2>15, <2>16, <2>17, <2>18, <2>19, <2>20, <2>21, <2>22
      DEF TaskStep
<1>3. ASSUME NEW c \in Closers, CloserStep(c) PROVE OutcomeInv'
  <2>1. CASE CloseBegins(c)
    BY PoolAssumption, <2>1
      DEF IInv, TypeOK, LoopInv, SlotInv, CloseInv, JobInv, OutcomeInv,
         AnswersJustified, CloseBegins, LoopFree, Pending, reqVars, slotVars,
         countVars, loopVars
  <2>2. CASE CloseTasksGathered(c)
    BY PoolAssumption, <2>2
      DEF IInv, TypeOK, LoopInv, SlotInv, CloseInv, JobInv, OutcomeInv,
         AnswersJustified, CloseTasksGathered, LoopFree, reqVars, slotVars,
         countVars, loopVars
  <2>3. CASE CloseFinishes(c)
    BY PoolAssumption, <2>3
      DEF IInv, TypeOK, LoopInv, SlotInv, CloseInv, JobInv, OutcomeInv,
         AnswersJustified, CloseFinishes, LoopFree, reqVars, slotVars, countVars,
         loopVars
  <2>4. CASE CloseAgain(c)
    BY PoolAssumption, <2>4
      DEF IInv, TypeOK, LoopInv, SlotInv, CloseInv, JobInv, OutcomeInv,
         AnswersJustified, CloseAgain, LoopFree, reqVars, slotVars, countVars,
         loopVars
  <2> QED BY <1>3, <2>1, <2>2, <2>3, <2>4 DEF CloserStep
<1>4. CASE Terminated \/ UNCHANGED vars
  BY PoolAssumption, <1>4
    DEF IInv, TypeOK, LoopInv, SlotInv, CloseInv, JobInv, OutcomeInv,
       AnswersJustified, Terminated, vars, reqVars, slotVars, countVars, loopVars
<1> QED BY <1>1, <1>2, <1>3, <1>4 DEF Next

(* Giving a backend up moves one slot from active and ready to recovering.  *)
LEMMA GiveUpCounts ==
  ASSUME IInv, NEW w \in Workers, NEW outcome, pc[w] = "compiling",
         GiveUpBackend(w, outcome)
  PROVE  CountInv'
<1>1. /\ pc' = [pc EXCEPT ![w] = "closingOld"] /\ stage' = stage
      /\ activeWorkers' = activeWorkers - 1 /\ readyWorkers' = readyWorkers - 1
      /\ replacements' = replacements /\ poolState' = poolState
  BY DEF GiveUpBackend
<1>2. Cardinality(Executed)' = Cardinality(Executed) + 0
  BY <1>1, ExecutedCounts DEF Executed
<1>3. /\ In("closingOld", {"compiling"}) = 0 /\ In(pc[w], {"compiling"}) = 1
      /\ In("closingOld", Serving) = 0 /\ In(pc[w], Serving) = 1
      /\ In("closingOld", Recovering) = 1 /\ In(pc[w], Recovering) = 0
  BY DEF In, Serving, Recovering
<1>4. activeWorkers \in Nat /\ readyWorkers \in Nat /\ replacements \in Nat
  BY DEF IInv, TypeOK
<1>5. /\ activeWorkers' = activeWorkers + In("closingOld", {"compiling"}) - In(pc[w], {"compiling"})
      /\ readyWorkers' = readyWorkers + In("closingOld", Serving) - In(pc[w], Serving)
      /\ replacements' \in Nat
      /\ replacements' + In("closingOld", Recovering) + In("closingOld", {"compiling"})
           <= replacements + In(pc[w], Recovering) + In(pc[w], {"compiling"}) + 0
  BY <1>1, <1>3, <1>4
<1> QED BY <1>1, <1>2, <1>5, MoveKeepsCounts


(* Every step keeps CountInv.                                              *)
LEMMA CountStep == ASSUME IInv, [Next]_vars PROVE CountInv'
<1>1. ASSUME NEW r \in Requests, CallerStep(r) \/ Expire(r) PROVE CountInv'
  <2>1. CASE RefuseClosed(r)
    <3>1. Executed' = Executed /\ \A S : SlotsIn(S)' = SlotsIn(S)
      BY <2>1 DEF Executed, SlotsIn, RefuseClosed, slotVars, reqVars
    <3> QED
      BY <3>1, <2>1 DEF IInv, CountInv, ActiveIsCompiling, RefuseClosed, countVars
  <2>2. CASE RefuseOverloaded(r)
    <3>1. Executed' = Executed /\ \A S : SlotsIn(S)' = SlotsIn(S)
      BY <2>2 DEF Executed, SlotsIn, RefuseOverloaded, slotVars, reqVars
    <3> QED
      BY <3>1, <2>2
        DEF IInv, CountInv, ActiveIsCompiling, RefuseOverloaded, countVars
  <2>3. CASE Accept(r)
    <3>1. r \in Requests /\ stage[r] # "executing"
      BY <2>3, <1>1 DEF IInv, TypeOK, JobInv, Accept
    <3>2. stage' = [stage EXCEPT ![r] = "queued"]
      BY <2>3 DEF Accept
    <3>3. Executed' = Executed /\ \A S : SlotsIn(S)' = SlotsIn(S)
      BY <3>1, <3>2, <2>3 DEF IInv, TypeOK, Executed, SlotsIn, Accept, slotVars
    <3> QED
      BY <3>3, <2>3 DEF IInv, CountInv, ActiveIsCompiling, Accept, countVars
  <2>4. CASE CallerTimer(r)
    <3>1. Executed' = Executed /\ \A S : SlotsIn(S)' = SlotsIn(S)
      BY <2>4 DEF Executed, SlotsIn, CallerTimer, Interrupt, slotVars, reqVars
    <3> QED
      BY <3>1, <2>4
        DEF IInv, CountInv, ActiveIsCompiling, CallerTimer, Interrupt, countVars
  <2>5. CASE CallerCancel(r)
    <3>1. Executed' = Executed /\ \A S : SlotsIn(S)' = SlotsIn(S)
      BY <2>5 DEF Executed, SlotsIn, CallerCancel, Interrupt, slotVars, reqVars
    <3> QED
      BY <3>1, <2>5
        DEF IInv, CountInv, ActiveIsCompiling, CallerCancel, Interrupt, countVars
  <2>6. CASE CallerWake(r)
    <3>1. Executed' = Executed /\ \A S : SlotsIn(S)' = SlotsIn(S)
      BY <2>6 DEF Executed, SlotsIn, CallerWake, slotVars, reqVars
    <3> QED
      BY <3>1, <2>6 DEF IInv, CountInv, ActiveIsCompiling, CallerWake, countVars
  <2>7. CASE Expire(r)
    <3>1. Executed' = Executed /\ \A S : SlotsIn(S)' = SlotsIn(S)
      BY <2>7 DEF Executed, SlotsIn, Expire, slotVars, reqVars
    <3> QED
      BY <3>1, <2>7 DEF IInv, CountInv, ActiveIsCompiling, Expire, countVars
  <2> QED BY <1>1, <2>1, <2>2, <2>3, <2>4, <2>5, <2>6, <2>7 DEF CallerStep
<1>2. ASSUME NEW w \in Workers,
             TaskStep(w) \/ ProcessReplies(w) \/ ProcessExits(w) \/ CloseRaises(w)
      PROVE  CountInv'
  <2>1. CASE Resume(w)
    <3>1. /\ pc' = [pc EXCEPT ![w] = "looping"]
          /\ pc[w] \in {"created", "waiting"}
      BY <2>1 DEF IInv, TypeOK, Resume, slotVars
    <3>2. Cardinality(Executed)' = Cardinality(Executed) + 0
      BY <2>1, ExecutedCounts DEF Executed, Resume, reqVars
    <3>3. /\ activeWorkers' = activeWorkers + In("looping", {"compiling"}) - In(pc[w], {"compiling"})
          /\ poolState = "running" =>
               readyWorkers' = readyWorkers + In("looping", Serving) - In(pc[w], Serving)
          /\ replacements' \in Nat /\ poolState' = poolState
          /\ replacements' + In("looping", Recovering) + In("looping", {"compiling"})
               <= replacements + In(pc[w], Recovering) + In(pc[w], {"compiling"}) + 0
      BY <3>1, <2>1 DEF In, IInv, TypeOK, Serving, Recovering, Resume, countVars
    <3> QED BY <1>2, <3>1, <3>2, <3>3, MoveKeepsCounts
  <2>2. CASE Park(w)
    <3>1. /\ pc' = [pc EXCEPT ![w] = "waiting"]
          /\ pc[w] = "looping"
      BY <2>2 DEF IInv, TypeOK, LoopInv, Park, slotVars
    <3>2. Cardinality(Executed)' = Cardinality(Executed) + 0
      BY <2>2, ExecutedCounts DEF Executed, Park, reqVars
    <3>3. /\ activeWorkers' = activeWorkers + In("waiting", {"compiling"}) - In(pc[w], {"compiling"})
          /\ poolState = "running" =>
               readyWorkers' = readyWorkers + In("waiting", Serving) - In(pc[w], Serving)
          /\ replacements' \in Nat /\ poolState' = poolState
          /\ replacements' + In("waiting", Recovering) + In("waiting", {"compiling"})
               <= replacements + In(pc[w], Recovering) + In(pc[w], {"compiling"}) + 0
      BY <3>1, <2>2 DEF In, IInv, TypeOK, Serving, Recovering, Park, countVars
    <3> QED BY <1>2, <3>1, <3>2, <3>3, MoveKeepsCounts
  <2>3. CASE TakeSettled(w)
    <3>1. Head(queue) \in Requests /\ stage[Head(queue)] # "executing"
      BY <2>3, TailFacts DEF IInv, TypeOK, JobInv, TakeSettled
    <3>2. stage' = [stage EXCEPT ![Head(queue)] = "taken"]
      BY <2>3 DEF TakeSettled
    <3>3. Executed' = Executed /\ \A S : SlotsIn(S)' = SlotsIn(S)
      BY <3>1, <3>2, <2>3 DEF IInv, TypeOK, Executed, SlotsIn, TakeSettled, slotVars
    <3> QED
      BY <3>3, <2>3 DEF IInv, CountInv, ActiveIsCompiling, TakeSettled, countVars
  <2>4. CASE TakeExpired(w)
    <3>1. Head(queue) \in Requests /\ stage[Head(queue)] # "executing"
      BY <2>4, TailFacts DEF IInv, TypeOK, JobInv, TakeExpired
    <3>2. stage' = [stage EXCEPT ![Head(queue)] = "taken"]
      BY <2>4 DEF TakeExpired
    <3>3. Executed' = Executed /\ \A S : SlotsIn(S)' = SlotsIn(S)
      BY <3>1, <3>2, <2>4 DEF IInv, TypeOK, Executed, SlotsIn, TakeExpired, slotVars
    <3> QED
      BY <3>3, <2>4 DEF IInv, CountInv, ActiveIsCompiling, TakeExpired, countVars
  <2>5. CASE Dispatch(w)
    <3>1. /\ pc' = [pc EXCEPT ![w] = "compiling"]
          /\ pc[w] = "looping"
      BY <2>5 DEF IInv, TypeOK, LoopInv, Dispatch, Execute, slotVars
    <3>2. Cardinality(Executed)' = Cardinality(Executed) + 1
      <4>1. Head(queue) \in Requests /\ stage[Head(queue)] = "queued"
        BY <2>5, TailFacts DEF IInv, TypeOK, JobInv, Dispatch
      <4> QED BY <4>1, <2>5, ExecutedGrows DEF IInv, Dispatch, Execute
    <3>3. /\ activeWorkers' = activeWorkers + In("compiling", {"compiling"}) - In(pc[w], {"compiling"})
          /\ poolState = "running" =>
               readyWorkers' = readyWorkers + In("compiling", Serving) - In(pc[w], Serving)
          /\ replacements' \in Nat /\ poolState' = poolState
          /\ replacements' + In("compiling", Recovering) + In("compiling", {"compiling"})
               <= replacements + In(pc[w], Recovering) + In(pc[w], {"compiling"}) + 1
      BY <3>1, <2>5
        DEF In, IInv, TypeOK, Serving, Recovering, Dispatch, Execute, countVars
    <3> QED BY <1>2, <3>1, <3>2, <3>3, MoveKeepsCounts
  <2>6. CASE CompileReturns(w)
    <3>1. /\ pc' = [pc EXCEPT ![w] = "looping"]
          /\ pc[w] = "compiling"
      BY <2>6 DEF IInv, TypeOK, CompileReturns, slotVars
    <3>2. Cardinality(Executed)' = Cardinality(Executed) + 0
      BY <2>6, ExecutedCounts DEF Executed, CompileReturns, reqVars
    <3>3. /\ activeWorkers' = activeWorkers + In("looping", {"compiling"}) - In(pc[w], {"compiling"})
          /\ poolState = "running" =>
               readyWorkers' = readyWorkers + In("looping", Serving) - In(pc[w], Serving)
          /\ replacements' \in Nat /\ poolState' = poolState
          /\ replacements' + In("looping", Recovering) + In("looping", {"compiling"})
               <= replacements + In(pc[w], Recovering) + In(pc[w], {"compiling"}) + 0
      BY <3>1, <2>6
        DEF In, IInv, TypeOK, Serving, Recovering, CompileReturns, countVars
    <3> QED BY <1>2, <3>1, <3>2, <3>3, MoveKeepsCounts
  <2>7. CASE CompileFails(w)
    BY <1>2, <2>7, GiveUpCounts DEF CompileFails
  <2>8. CASE CompileTimesOut(w)
    BY <1>2, <2>8, GiveUpCounts DEF CompileTimesOut
  <2>9. CASE StopReplacing(w)
    <3>1. /\ pc' = [pc EXCEPT ![w] = "ended"]
          /\ pc[w] \in {"closingOld", "backoff"}
      BY <2>9 DEF IInv, TypeOK, StopReplacing, AtReplaceLoop, slotVars
    <3>2. Cardinality(Executed)' = Cardinality(Executed) + 0
      BY <2>9, ExecutedCounts DEF Executed, StopReplacing, AtReplaceLoop, reqVars
    <3>3. /\ activeWorkers' = activeWorkers + In("ended", {"compiling"}) - In(pc[w], {"compiling"})
          /\ poolState = "running" =>
               readyWorkers' = readyWorkers + In("ended", Serving) - In(pc[w], Serving)
          /\ replacements' \in Nat /\ poolState' = poolState
          /\ replacements' + In("ended", Recovering) + In("ended", {"compiling"})
               <= replacements + In(pc[w], Recovering) + In(pc[w], {"compiling"}) + 0
      BY <3>1, <2>9
        DEF In, IInv, TypeOK, Serving, Recovering, StopReplacing, AtReplaceLoop,
           countVars
    <3> QED BY <1>2, <3>1, <3>2, <3>3, MoveKeepsCounts
  <2>10. CASE StartReplacement(w)
    <3>1. /\ pc' = [pc EXCEPT ![w] = "starting"]
          /\ pc[w] \in {"closingOld", "backoff"}
      BY <2>10 DEF IInv, TypeOK, StartReplacement, AtReplaceLoop, Spawn, slotVars
    <3>2. Cardinality(Executed)' = Cardinality(Executed) + 0
      BY <2>10, ExecutedCounts
        DEF Executed, StartReplacement, AtReplaceLoop, Spawn, reqVars
    <3>3. /\ activeWorkers' = activeWorkers + In("starting", {"compiling"}) - In(pc[w], {"compiling"})
          /\ poolState = "running" =>
               readyWorkers' = readyWorkers + In("starting", Serving) - In(pc[w], Serving)
          /\ replacements' \in Nat /\ poolState' = poolState
          /\ replacements' + In("starting", Recovering) + In("starting", {"compiling"})
               <= replacements + In(pc[w], Recovering) + In(pc[w], {"compiling"}) + 0
      BY <3>1, <2>10
        DEF In, IInv, TypeOK, Serving, Recovering, StartReplacement, AtReplaceLoop,
           Spawn, countVars
    <3> QED BY <1>2, <3>1, <3>2, <3>3, MoveKeepsCounts
  <2>11. CASE FactoryFails(w)
    <3>1. /\ pc' = [pc EXCEPT ![w] = "closingFailed"]
          /\ pc[w] \in {"closingOld", "backoff"}
      BY <2>11 DEF IInv, TypeOK, FactoryFails, AtReplaceLoop, slotVars
    <3>2. Cardinality(Executed)' = Cardinality(Executed) + 0
      BY <2>11, ExecutedCounts DEF Executed, FactoryFails, AtReplaceLoop, reqVars
    <3>3. /\ activeWorkers' = activeWorkers + In("closingFailed", {"compiling"}) - In(pc[w], {"compiling"})
          /\ poolState = "running" =>
               readyWorkers' = readyWorkers + In("closingFailed", Serving) - In(pc[w], Serving)
          /\ replacements' \in Nat /\ poolState' = poolState
          /\ replacements' + In("closingFailed", Recovering) + In("closingFailed", {"compiling"})
               <= replacements + In(pc[w], Recovering) + In(pc[w], {"compiling"}) + 0
      BY <3>1, <2>11
        DEF In, IInv, TypeOK, Serving, Recovering, FactoryFails, AtReplaceLoop,
           countVars
    <3> QED BY <1>2, <3>1, <3>2, <3>3, MoveKeepsCounts
  <2>12. CASE StartSucceeds(w)
    <3>1. /\ pc' = [pc EXCEPT ![w] = "looping"]
          /\ pc[w] = "starting"
      BY <2>12 DEF IInv, TypeOK, StartSucceeds, slotVars
    <3>2. Cardinality(Executed)' = Cardinality(Executed) + 0
      BY <2>12, ExecutedCounts DEF Executed, StartSucceeds, reqVars
    <3>3. /\ activeWorkers' = activeWorkers + In("looping", {"compiling"}) - In(pc[w], {"compiling"})
          /\ poolState = "running" =>
               readyWorkers' = readyWorkers + In("looping", Serving) - In(pc[w], Serving)
          /\ replacements' \in Nat /\ poolState' = poolState
          /\ replacements' + In("looping", Recovering) + In("looping", {"compiling"})
               <= replacements + In(pc[w], Recovering) + In(pc[w], {"compiling"}) + 0
      BY <3>1, <2>12
        DEF In, IInv, TypeOK, Serving, Recovering, StartSucceeds, countVars
    <3> QED BY <1>2, <3>1, <3>2, <3>3, MoveKeepsCounts
  <2>13. CASE StartFails(w)
    <3>1. /\ pc' = [pc EXCEPT ![w] = "closingFailed"]
          /\ pc[w] = "starting"
      BY <2>13 DEF IInv, TypeOK, StartFails, slotVars
    <3>2. Cardinality(Executed)' = Cardinality(Executed) + 0
      BY <2>13, ExecutedCounts DEF Executed, StartFails, reqVars
    <3>3. /\ activeWorkers' = activeWorkers + In("closingFailed", {"compiling"}) - In(pc[w], {"compiling"})
          /\ poolState = "running" =>
               readyWorkers' = readyWorkers + In("closingFailed", Serving) - In(pc[w], Serving)
          /\ replacements' \in Nat /\ poolState' = poolState
          /\ replacements' + In("closingFailed", Recovering) + In("closingFailed", {"compiling"})
               <= replacements + In(pc[w], Recovering) + In(pc[w], {"compiling"}) + 0
      BY <3>1, <2>13 DEF In, IInv, TypeOK, Serving, Recovering, StartFails, countVars
    <3> QED BY <1>2, <3>1, <3>2, <3>3, MoveKeepsCounts
  <2>14. CASE CleanupDone(w)
    <3>1. /\ pc' = [pc EXCEPT ![w] = "backoff"]
          /\ pc[w] = "closingFailed"
      BY <2>14 DEF IInv, TypeOK, CleanupDone, slotVars
    <3>2. Cardinality(Executed)' = Cardinality(Executed) + 0
      BY <2>14, ExecutedCounts DEF Executed, CleanupDone, reqVars
    <3>3. /\ activeWorkers' = activeWorkers + In("backoff", {"compiling"}) - In(pc[w], {"compiling"})
          /\ poolState = "running" =>
               readyWorkers' = readyWorkers + In("backoff", Serving) - In(pc[w], Serving)
          /\ replacements' \in Nat /\ poolState' = poolState
          /\ replacements' + In("backoff", Recovering) + In("backoff", {"compiling"})
               <= replacements + In(pc[w], Recovering) + In(pc[w], {"compiling"}) + 0
      BY <3>1, <2>14 DEF In, IInv, TypeOK, Serving, Recovering, CleanupDone, countVars
    <3> QED BY <1>2, <3>1, <3>2, <3>3, MoveKeepsCounts
  <2>15. CASE CancelledCleanupDone(w)
    <3>1. /\ pc' = [pc EXCEPT ![w] = "ended"]
          /\ pc[w] = "closingCancelled"
      BY <2>15 DEF IInv, TypeOK, CancelledCleanupDone, slotVars
    <3>2. Cardinality(Executed)' = Cardinality(Executed) + 0
      BY <2>15, ExecutedCounts DEF Executed, CancelledCleanupDone, reqVars
    <3>3. /\ activeWorkers' = activeWorkers + In("ended", {"compiling"}) - In(pc[w], {"compiling"})
          /\ poolState = "running" =>
               readyWorkers' = readyWorkers + In("ended", Serving) - In(pc[w], Serving)
          /\ replacements' \in Nat /\ poolState' = poolState
          /\ replacements' + In("ended", Recovering) + In("ended", {"compiling"})
               <= replacements + In(pc[w], Recovering) + In(pc[w], {"compiling"}) + 0
      BY <3>1, <2>15
        DEF In, IInv, TypeOK, Serving, Recovering, CancelledCleanupDone, countVars
    <3> QED BY <1>2, <3>1, <3>2, <3>3, MoveKeepsCounts
  <2>16. CASE CancelUnwinds(w)
    <3>1. /\ pc' = [pc EXCEPT ![w] = "ended"]
          /\ pc[w] # "compiling" /\ poolState # "running"
      BY <2>16 DEF IInv, TypeOK, CloseInv, CancelUnwinds, Deliver, slotVars
    <3>2. Cardinality(Executed)' = Cardinality(Executed) + 0
      BY <2>16, ExecutedCounts DEF Executed, CancelUnwinds, Deliver, reqVars
    <3>3. /\ activeWorkers' = activeWorkers + In("ended", {"compiling"}) - In(pc[w], {"compiling"})
          /\ poolState = "running" =>
               readyWorkers' = readyWorkers + In("ended", Serving) - In(pc[w], Serving)
          /\ replacements' \in Nat /\ poolState' = poolState
          /\ replacements' + In("ended", Recovering) + In("ended", {"compiling"})
               <= replacements + In(pc[w], Recovering) + In(pc[w], {"compiling"}) + 0
      BY <3>1, <2>16
        DEF In, IInv, TypeOK, Serving, Recovering, CancelUnwinds, Deliver, countVars
    <3> QED BY <1>2, <3>1, <3>2, <3>3, MoveKeepsCounts
  <2>17. CASE CancelSwallowed(w)
    <3>1. /\ pc' = [pc EXCEPT ![w] = pc[w]]
          /\ poolState # "running"
      BY <2>17 DEF IInv, TypeOK, CloseInv, CancelSwallowed, Deliver, slotVars
    <3>2. Cardinality(Executed)' = Cardinality(Executed) + 0
      BY <2>17, ExecutedCounts DEF Executed, CancelSwallowed, Deliver, reqVars
    <3>3. /\ activeWorkers' = activeWorkers + In(pc[w], {"compiling"}) - In(pc[w], {"compiling"})
          /\ poolState = "running" =>
               readyWorkers' = readyWorkers + In(pc[w], Serving) - In(pc[w], Serving)
          /\ replacements' \in Nat /\ poolState' = poolState
          /\ replacements' + In(pc[w], Recovering) + In(pc[w], {"compiling"})
               <= replacements + In(pc[w], Recovering) + In(pc[w], {"compiling"}) + 0
      BY <3>1, <2>17
        DEF In, IInv, TypeOK, Serving, Recovering, CancelSwallowed, Deliver,
           countVars
    <3> QED BY <1>2, <3>1, <3>2, <3>3, MoveKeepsCounts
  <2>18. CASE CancelCompiling(w)
    <3>1. /\ pc' = [pc EXCEPT ![w] = "ended"]
          /\ pc[w] = "compiling" /\ poolState # "running"
      BY <2>18 DEF IInv, TypeOK, CloseInv, CancelCompiling, Deliver, slotVars
    <3>2. Cardinality(Executed)' = Cardinality(Executed) + 0
      BY <2>18, ExecutedCounts DEF Executed, CancelCompiling, Deliver, reqVars
    <3>3. /\ activeWorkers' = activeWorkers + In("ended", {"compiling"}) - In(pc[w], {"compiling"})
          /\ poolState = "running" =>
               readyWorkers' = readyWorkers + In("ended", Serving) - In(pc[w], Serving)
          /\ replacements' \in Nat /\ poolState' = poolState
          /\ replacements' + In("ended", Recovering) + In("ended", {"compiling"})
               <= replacements + In(pc[w], Recovering) + In(pc[w], {"compiling"}) + 0
      BY <3>1, <2>18
        DEF In, IInv, TypeOK, Serving, Recovering, CancelCompiling, Deliver,
           countVars
    <3> QED BY <1>2, <3>1, <3>2, <3>3, MoveKeepsCounts
  <2>19. CASE CancelStarting(w)
    <3>1. /\ pc' = [pc EXCEPT ![w] = "closingCancelled"]
          /\ pc[w] = "starting" /\ poolState # "running"
      BY <2>19 DEF IInv, TypeOK, CloseInv, CancelStarting, Deliver, slotVars
    <3>2. Cardinality(Executed)' = Cardinality(Executed) + 0
      BY <2>19, ExecutedCounts DEF Executed, CancelStarting, Deliver, reqVars
    <3>3. /\ activeWorkers' = activeWorkers + In("closingCancelled", {"compiling"}) - In(pc[w], {"compiling"})
          /\ poolState = "running" =>
               readyWorkers' = readyWorkers + In("closingCancelled", Serving) - In(pc[w], Serving)
          /\ replacements' \in Nat /\ poolState' = poolState
          /\ replacements' + In("closingCancelled", Recovering) + In("closingCancelled", {"compiling"})
               <= replacements + In(pc[w], Recovering) + In(pc[w], {"compiling"}) + 0
      BY <3>1, <2>19
        DEF In, IInv, TypeOK, Serving, Recovering, CancelStarting, Deliver,
           countVars
    <3> QED BY <1>2, <3>1, <3>2, <3>3, MoveKeepsCounts
  <2>20. CASE CancelLostInFailedStart(w)
    <3>1. /\ pc' = [pc EXCEPT ![w] = "closingFailed"]
          /\ pc[w] = "starting" /\ poolState # "running"
      BY <2>20 DEF IInv, TypeOK, CloseInv, CancelLostInFailedStart, Deliver, slotVars
    <3>2. Cardinality(Executed)' = Cardinality(Executed) + 0
      BY <2>20, ExecutedCounts DEF Executed, CancelLostInFailedStart, Deliver, reqVars
    <3>3. /\ activeWorkers' = activeWorkers + In("closingFailed", {"compiling"}) - In(pc[w], {"compiling"})
          /\ poolState = "running" =>
               readyWorkers' = readyWorkers + In("closingFailed", Serving) - In(pc[w], Serving)
          /\ replacements' \in Nat /\ poolState' = poolState
          /\ replacements' + In("closingFailed", Recovering) + In("closingFailed", {"compiling"})
               <= replacements + In(pc[w], Recovering) + In(pc[w], {"compiling"}) + 0
      BY <3>1, <2>20
        DEF In, IInv, TypeOK, Serving, Recovering, CancelLostInFailedStart, Deliver,
           countVars
    <3> QED BY <1>2, <3>1, <3>2, <3>3, MoveKeepsCounts
  <2>21. CASE ProcessReplies(w)
    <3>1. Executed' = Executed /\ \A S : SlotsIn(S)' = SlotsIn(S)
      BY <2>21 DEF Executed, SlotsIn, ProcessReplies, slotVars, reqVars
    <3> QED
      BY <3>1, <2>21 DEF IInv, CountInv, ActiveIsCompiling, ProcessReplies, countVars
  <2>22. CASE ProcessExits(w) \/ CloseRaises(w)
    <3>1. Executed' = Executed /\ \A S : SlotsIn(S)' = SlotsIn(S)
      BY <2>22 DEF Executed, SlotsIn, ProcessExits, CloseRaises, slotVars, reqVars
    <3> QED
      BY <3>1, <2>22 DEF IInv, CountInv, ActiveIsCompiling, ProcessExits, CloseRaises, countVars
  <2> QED BY <1>2, <2>1, <2>2, <2>3, <2>4, <2>5, <2>6, <2>7, <2>8, <2>9, <2>10, <2>11,
         <2>12, <2>13, <2>14, <2>15, <2>16, <2>17, <2>18, <2>19, <2>20, <2>21, <2>22
      DEF TaskStep
<1>3. ASSUME NEW c \in Closers, CloserStep(c) PROVE CountInv'
  <2>1. CASE CloseBegins(c)
    <3>1. Executed' = Executed /\ \A S : SlotsIn(S)' = SlotsIn(S)
      BY <2>1 DEF Executed, SlotsIn, CloseBegins, slotVars, reqVars
    <3> QED
      BY <3>1, <2>1 DEF IInv, CountInv, ActiveIsCompiling, CloseBegins, countVars
  <2>2. CASE CloseTasksGathered(c)
    <3>1. Executed' = Executed /\ \A S : SlotsIn(S)' = SlotsIn(S)
      BY <2>2 DEF Executed, SlotsIn, CloseTasksGathered, slotVars, reqVars
    <3> QED
      BY <3>1, <2>2
        DEF IInv, CountInv, ActiveIsCompiling, CloseTasksGathered, countVars
  <2>3. CASE CloseFinishes(c)
    <3>1. Executed' = Executed /\ \A S : SlotsIn(S)' = SlotsIn(S)
      BY <2>3 DEF Executed, SlotsIn, CloseFinishes, slotVars, reqVars
    <3> QED
      BY <3>1, <2>3 DEF IInv, CountInv, ActiveIsCompiling, CloseFinishes, countVars
  <2>4. CASE CloseAgain(c)
    <3>1. Executed' = Executed /\ \A S : SlotsIn(S)' = SlotsIn(S)
      BY <2>4 DEF Executed, SlotsIn, CloseAgain, slotVars, reqVars
    <3> QED
      BY <3>1, <2>4 DEF IInv, CountInv, ActiveIsCompiling, CloseAgain, countVars
  <2> QED BY <1>3, <2>1, <2>2, <2>3, <2>4 DEF CloserStep
<1>4. CASE Terminated \/ UNCHANGED vars
  BY PoolAssumption, <1>4
    DEF IInv, CountInv, ActiveIsCompiling, SlotsIn, Executed, Terminated, vars,
       reqVars, slotVars, countVars, loopVars
<1> QED BY <1>1, <1>2, <1>3, <1>4 DEF Next

-----------------------------------------------------------------------------
(* The theorems.                                                           *)

LEMMA InitInv == Init => IInv
<1> SUFFICES ASSUME Init PROVE IInv
  OBVIOUS
<1>1. TypeOK
  <2>1. Cardinality(Workers) \in Nat
    BY PoolAssumption, FS_CardinalityType
  <2>2. /\ pc \in [Workers -> Serving] /\ job \in [Workers -> {None}]
        /\ cancelPending \in [Workers -> BOOLEAN] /\ process \in [Workers -> {"live"}]
        /\ pipe \in [Workers -> {"clean"}] /\ closer \in [Closers -> {"idle"}]
    BY DEF Init, Serving
  <2>3. /\ future \in [Requests -> {"none"}] /\ stage \in [Requests -> {"new"}]
        /\ expired \in [Requests -> BOOLEAN] /\ answer \in [Requests -> {"none"}]
        /\ interrupts \in [Requests -> SUBSET {"timer", "cancel"}]
    BY DEF Init
  <2>4. /\ queue \in Seq(Requests) /\ parked \in SUBSET Workers
        /\ poolState = "running" /\ eventSet = FALSE /\ current = None
        /\ activeWorkers = 0 /\ replacements = 0 /\ readyWorkers \in Nat
    BY <2>1 DEF Init
  <2>5. /\ pc \in [Workers -> Serving \cup Recovering \cup {"closingCancelled", "ended"}]
        /\ job \in [Workers -> Requests \cup {None}]
        /\ process \in [Workers -> {"live", "stray", "dead"}]
        /\ pipe \in [Workers -> {"clean", "busy", "reply"}]
        /\ closer \in [Closers -> {"idle", "waitTasks", "waitBackends", "returned"}]
    BY <2>2
  <2>6. /\ future \in [Requests -> {"none", "pending", "cancelled"} \cup Outcome]
        /\ stage \in [Requests -> {"new", "queued", "taken", "executing"}]
        /\ answer \in [Requests -> {"none", "overloaded", "cancelled"} \cup Outcome]
    BY <2>3
  <2> QED BY <2>2, <2>3, <2>4, <2>5, <2>6 DEF TypeOK
<1>2. LoopInv /\ SlotInv /\ CloseInv
  BY PoolAssumption DEF Init, LoopInv, SlotInv, CloseInv, NoLostWakeup, CleanPipe
<1>3. OutcomeInv
  BY DEF Init, OutcomeInv, AnswersJustified
<1>4. JobInv
  BY PoolAssumption DEF Init, JobInv, Distinct, Contains, Pending
<1>5. CountInv
  <2>1. /\ SlotsIn({"compiling"}) = {} /\ SlotsIn(Recovering) = {}
        /\ SlotsIn(Serving) = Workers /\ Executed = {}
    BY DEF Init, SlotsIn, Serving, Recovering, Executed
  <2>2. Cardinality({}) = 0
    BY FS_EmptySet
  <2>3. /\ activeWorkers = 0 /\ replacements = 0 /\ readyWorkers = Cardinality(Workers)
    BY DEF Init
  <2>4. replacements + Cardinality(SlotsIn(Recovering)) + activeWorkers <= Cardinality(Executed)
    BY <2>1, <2>2, <2>3
  <2> QED BY <2>1, <2>2, <2>3, <2>4 DEF CountInv, ActiveIsCompiling
<1> QED BY <1>1, <1>2, <1>3, <1>4, <1>5 DEF IInv

(* IInv holds in every state of every behaviour of the pool.               *)
THEOREM Invariance == Spec => []IInv
<1>1. IInv /\ [Next]_vars => IInv'
  BY TypeStep, LoopStep, SlotStep, CloseStep, JobStep, OutcomeStep, CountStep DEF IInv
<1> QED BY InitInv, <1>1, PTL DEF Spec

(* The pool's variables keep their types; in particular the counters that  *)
(* pool.py increments and decrements by hand never become negative.        *)
THEOREM TypeCorrect == Spec => []TypeOK
<1>1. IInv => TypeOK
  BY DEF IInv
<1> QED BY Invariance, <1>1, PTL

(* No wake-up of the asyncio event is lost.                                *)
THEOREM WakeupsSafe == Spec => []NoLostWakeup
<1>1. IInv => NoLostWakeup
  BY DEF IInv, LoopInv
<1> QED BY Invariance, <1>1, PTL

(* active_workers and ready_workers report what the slots are doing.       *)
THEOREM ActiveCorrect == Spec => []ActiveIsCompiling
<1>1. IInv => ActiveIsCompiling
  BY DEF IInv, CountInv
<1> QED BY Invariance, <1>1, PTL

(* ready_workers is the number of serving slots while the pool runs, and 0 *)
(* once it is closed.                                                      *)
THEOREM ReadyCorrect == Spec => []ReadyIsServing
<1>1. IInv => ReadyIsServing
  BY DEF IInv, CountInv, CloseInv, ReadyIsServing
<1> QED BY Invariance, <1>1, PTL

(* There are never more replacements than executed jobs.                   *)
THEOREM ReplacementsBounded == Spec => []ReplacementsAccounted
<1>1. IInv => ReplacementsAccounted
  <2>1. ASSUME IInv PROVE ReplacementsAccounted
    <3>1. /\ activeWorkers \in Nat /\ replacements \in Nat
          /\ Cardinality(SlotsIn(Recovering)) \in Nat /\ Cardinality(Executed) \in Nat
      BY <2>1, SlotCounts, ExecutedCounts DEF IInv, TypeOK
    <3> QED BY <2>1, <3>1 DEF IInv, CountInv, ReplacementsAccounted, Executed
  <2> QED BY <2>1
<1> QED BY Invariance, <1>1, PTL

(* The three together.                                                     *)
THEOREM CountersCorrect == Spec => []CountersAgree
BY ActiveCorrect, ReadyCorrect, ReplacementsBounded, PTL DEF CountersAgree

(* An unsettled job is in exactly one place.                               *)
THEOREM JobsSafe == Spec => []NoLostJob
<1>1. ASSUME IInv, NEW r \in Requests, Pending(r)
      PROVE  \E p \in Places(r) : Places(r) = {p}
  <2>0. r # None
    BY PoolAssumption
  <2>1. CASE Contains(queue, r)
    <3>1. PICK i \in 1..Len(queue) : queue[i] = r
      BY <2>1 DEF Contains
    <3>2. \A w \in Workers : job[w] # r
      BY <1>1, <2>0, <2>1 DEF IInv, JobInv
    <3>3. {j \in 1..Len(queue) : queue[j] = r} = {i}
      BY <1>1, <3>1 DEF IInv, JobInv, Distinct
    <3>4. Places(r) = {<<"queue", i>>}
      BY <3>2, <3>3 DEF Places
    <3> QED BY <3>4
  <2>2. CASE ~Contains(queue, r)
    <3>1. PICK w \in Workers : job[w] = r
      BY <1>1, <2>2 DEF IInv, JobInv
    <3>2. {v \in Workers : job[v] = r} = {w}
      BY <1>1, <2>0, <3>1 DEF IInv, JobInv
    <3>3. {i \in 1..Len(queue) : queue[i] = r} = {}
      BY <2>2 DEF Contains
    <3>4. Places(r) = {<<"worker", w>>}
      BY <3>2, <3>3 DEF Places
    <3> QED BY <3>4
  <2> QED BY <2>1, <2>2
<1>2. IInv => NoLostJob
  BY <1>1 DEF NoLostJob
<1> QED BY Invariance, <1>2, PTL

(* The queue holds no more than its capacity, and only callers that still  *)
(* wait.                                                                   *)
THEOREM QueueCorrect == Spec => []QueueHoldsOnlyUnanswered
<1>1. IInv => QueueHoldsOnlyUnanswered
  <2>1. IInv => \A r : Contains(queue, r) => r \in Requests
    BY ElementOfSeq DEF IInv, TypeOK, Contains
  <2> QED BY <2>1 DEF IInv, JobInv, QueueHoldsOnlyUnanswered
<1> QED BY Invariance, <1>1, PTL

(* A slot never takes a job while its process owes a line.                 *)
THEOREM PipesClean == Spec => []CleanPipe
<1>1. IInv => CleanPipe
  BY DEF IInv, SlotInv
<1> QED BY Invariance, <1>1, PTL

(* No slot's task ends while the pool runs.                                *)
THEOREM SlotsKept == Spec => []NoSlotLost
<1>1. IInv => NoSlotLost
  BY DEF IInv, CloseInv, NoSlotLost
<1> QED BY Invariance, <1>1, PTL

(* What close() promises when it returns: no task, no unsettled future and *)
(* no process but one whose own backend.close() raised.                    *)
THEOREM CloseComplete == Spec => []NothingLeftBehind
<1>1. ASSUME IInv, NEW c \in Closers, closer[c] = "returned"
      PROVE  /\ poolState = "closed" /\ queue = <<>>
             /\ \A w \in Workers : pc[w] = "ended" /\ process[w] # "live"
             /\ \A r \in Requests : ~Pending(r)
  <2>1. /\ poolState = "closed" /\ queue = <<>>
        /\ \A w \in Workers : pc[w] = "ended" /\ process[w] # "live"
    BY <1>1 DEF IInv, CloseInv
  <2>2. \A w \in Workers : job[w] = None
    BY <1>1, <2>1 DEF IInv, SlotInv
  <2>3. \A r \in Requests : ~Contains(queue, r)
    BY <2>1 DEF Contains
  <2> QED BY <1>1, <2>1, <2>2, <2>3, PoolAssumption DEF IInv, JobInv
<1>2. IInv => NothingLeftBehind
  BY <1>1 DEF NothingLeftBehind
<1> QED BY Invariance, <1>2, PTL

(* How compile() ends is justified by what happened to the job.            *)
THEOREM AnswersCorrect == Spec => []AnswersJustified
<1>1. IInv => AnswersJustified
  BY DEF IInv, OutcomeInv
<1> QED BY Invariance, <1>1, PTL

-----------------------------------------------------------------------------
(* What the steps do to the part of the state a caller could notice.       *)

visible == <<poolState, queue, job, stage, future, answer>>

Takes(w) == TakeSettled(w) \/ TakeExpired(w) \/ Dispatch(w)

Finishes(w) == CompileReturns(w) \/ CompileFails(w) \/ CompileTimesOut(w) \/ CancelCompiling(w)

(* Most of a slot's steps concern its task and its process only.           *)
LEMMA StepKinds ==
  ASSUME [Next]_vars
  PROVE  \/ \E r \in Requests : CallerStep(r)
         \/ \E w \in Workers : Takes(w) \/ Finishes(w)
         \/ \E c \in Closers : CloseBegins(c) \/ CloseFinishes(c)
         \/ UNCHANGED visible
<1>1. ASSUME NEW w \in Workers,
             \/ Resume(w) \/ Park(w) \/ StopReplacing(w) \/ StartReplacement(w)
             \/ FactoryFails(w) \/ StartSucceeds(w) \/ StartFails(w)
             \/ CleanupDone(w) \/ CancelledCleanupDone(w)
      PROVE  UNCHANGED visible
  BY <1>1 DEF visible, Resume, Park, StopReplacing, StartReplacement, Spawn, FactoryFails,
       StartSucceeds, StartFails, CleanupDone, CancelledCleanupDone, loopVars, reqVars
<1>2. ASSUME NEW w \in Workers,
             \/ CancelUnwinds(w) \/ CancelSwallowed(w)
             \/ CancelStarting(w) \/ CancelLostInFailedStart(w)
      PROVE  UNCHANGED visible
  BY <1>2 DEF visible, CancelUnwinds, CancelSwallowed, CancelStarting,
       CancelLostInFailedStart, Deliver
<1>3. ASSUME NEW w \in Workers, ProcessReplies(w) \/ ProcessExits(w) \/ CloseRaises(w)
      PROVE  UNCHANGED visible
  BY <1>3 DEF visible, ProcessReplies, ProcessExits, CloseRaises, loopVars, reqVars
<1>4. ASSUME NEW c \in Closers, CloseTasksGathered(c) \/ CloseAgain(c)
      PROVE  UNCHANGED visible
  BY <1>4 DEF visible, CloseTasksGathered, CloseAgain, loopVars, slotVars, reqVars
<1>5. ASSUME NEW r \in Requests, Expire(r)
      PROVE  UNCHANGED visible
  BY <1>5 DEF visible, Expire, loopVars, slotVars
<1>6. CASE Terminated \/ UNCHANGED vars
  BY <1>6 DEF visible, Terminated, vars, loopVars, slotVars, reqVars
<1>7. CASE \E r \in Requests : CallerStep(r) \/ Expire(r)
  BY <1>5, <1>7
<1>8. CASE \E w \in Workers :
              TaskStep(w) \/ ProcessReplies(w) \/ ProcessExits(w) \/ CloseRaises(w)
  BY <1>1, <1>2, <1>3, <1>8 DEF TaskStep, Takes, Finishes
<1>9. CASE \E c \in Closers : CloserStep(c)
  BY <1>4, <1>9 DEF CloserStep
<1> QED BY <1>6, <1>7, <1>8, <1>9 DEF Next

-----------------------------------------------------------------------------
(* Action properties.                                                      *)

(* The job at the head of the queue, seen by the task that holds the loop. *)
LEMMA HeadOfQueue ==
  ASSUME IInv, NEW w \in Workers, Takes(w)
  PROVE  /\ poolState = "running" /\ job[w] = None
         /\ queue # <<>> /\ Head(queue) \in Requests
         /\ answer[Head(queue)] = "none" /\ stage[Head(queue)] = "queued"
<1>1. current = w /\ queue # <<>>
  BY DEF Takes, TakeSettled, TakeExpired, Dispatch
<1>2. pc[w] = "looping" /\ poolState = "running" /\ job[w] = None
  BY <1>1 DEF IInv, LoopInv, CloseInv, SlotInv
<1>3. Head(queue) \in Requests /\ Contains(queue, Head(queue))
  BY <1>1, TailFacts DEF IInv, TypeOK
<1> QED BY <1>1, <1>2, <1>3 DEF IInv, JobInv

(* A job is started only while its caller waits, its budget lasts and the  *)
(* pool runs.                                                              *)
THEOREM LiveJobsOnly == Spec => OnlyLiveJobsExecuted
<1> DEFINE Live == \A r \in Requests : stage'[r] = "executing" /\ stage[r] # "executing" =>
                     Pending(r) /\ ~expired[r] /\ answer[r] = "none" /\ poolState = "running"
<1>1. ASSUME IInv, [Next]_vars PROVE Live
  <2> SUFFICES ASSUME NEW r \in Requests, stage'[r] = "executing", stage[r] # "executing"
               PROVE  Pending(r) /\ ~expired[r] /\ answer[r] = "none" /\ poolState = "running"
    OBVIOUS
  <2>1. ASSUME NEW q \in Requests, CallerStep(q) PROVE FALSE
    <3>1. stage' = stage \/ stage' = [stage EXCEPT ![q] = "queued"]
      BY <2>1 DEF CallerStep, RefuseClosed, RefuseOverloaded, Accept, CallerTimer,
           CallerCancel, Interrupt, CallerWake
    <3> QED BY <1>1, <3>1 DEF IInv, TypeOK
  <2>2. ASSUME NEW w \in Workers, TakeSettled(w) \/ TakeExpired(w) PROVE FALSE
    <3>1. stage' = [stage EXCEPT ![Head(queue)] = "taken"]
      BY <2>2 DEF TakeSettled, TakeExpired
    <3> QED BY <1>1, <3>1 DEF IInv, TypeOK
  <2>3. ASSUME NEW w \in Workers, Dispatch(w)
        PROVE  Pending(r) /\ ~expired[r] /\ answer[r] = "none" /\ poolState = "running"
    <3>1. r = Head(queue)
      BY <1>1, <2>3 DEF IInv, TypeOK, Dispatch, Execute
    <3> QED BY <1>1, <2>3, <3>1, HeadOfQueue DEF Takes, Dispatch
  <2>4. ASSUME NEW w \in Workers, Finishes(w) PROVE FALSE
    BY <2>4 DEF Finishes, CompileReturns, CompileFails, CompileTimesOut, GiveUpBackend,
         CancelCompiling, Deliver
  <2>5. ASSUME NEW c \in Closers, CloseBegins(c) \/ CloseFinishes(c) PROVE FALSE
    BY <2>5 DEF CloseBegins, CloseFinishes, reqVars
  <2>6. CASE UNCHANGED visible
    BY <2>6 DEF visible
  <2> QED BY <2>1, <2>2, <2>3, <2>4, <2>5, <2>6, <1>1, StepKinds DEF Takes
<1>2. IInv /\ [Next]_vars => [Live]_vars
  BY <1>1
<1> QED BY Invariance, <1>2, PTL DEF Spec, OnlyLiveJobsExecuted

(* What a caller was told, and what its future held, stays.                *)
THEOREM Settled == Spec => SettledForGood
<1> DEFINE Stays == \A r \in Requests :
                      /\ answer[r] # "none" => answer'[r] = answer[r]
                      /\ future[r] \notin {"none", "pending"} => future'[r] = future[r]
<1>1. ASSUME IInv, [Next]_vars PROVE Stays
  <2> USE DEF Settle, Pending
  <2>1. ASSUME NEW q \in Requests, CallerStep(q) PROVE Stays
    BY <1>1, <2>1 DEF IInv, TypeOK, CallerStep, RefuseClosed, RefuseOverloaded, Accept, CallerTimer,
         CallerCancel, Interrupt, CallerWake
  <2>2. ASSUME NEW w \in Workers, Takes(w) PROVE Stays
    BY <1>1, <2>2, HeadOfQueue DEF IInv, TypeOK, Takes, TakeSettled, TakeExpired, Dispatch, Execute
  <2>3. ASSUME NEW w \in Workers, Finishes(w) PROVE Stays
    BY <1>1, <2>3 DEF IInv, TypeOK, Finishes, CompileReturns, CompileFails, CompileTimesOut,
         GiveUpBackend, CancelCompiling, Deliver
  <2>4. ASSUME NEW c \in Closers, CloseBegins(c) \/ CloseFinishes(c) PROVE Stays
    BY <1>1, <2>4 DEF IInv, TypeOK, CloseBegins, CloseFinishes, reqVars
  <2>5. CASE UNCHANGED visible
    BY <2>5 DEF visible
  <2> QED BY <2>1, <2>2, <2>3, <2>4, <2>5, <1>1, StepKinds
<1>2. IInv /\ [Next]_vars => [Stays]_vars
  BY <1>1
<1> QED BY Invariance, <1>2, PTL DEF Spec, SettledForGood

(* A slot spawns a process only after the previous one has gone, or its    *)
(* backend.close() has raised, and only while the pool runs.               *)
THEOREM SpawnsSafe == Spec => SpawnsAreSafe
<1> DEFINE Safe == \A w \in Workers : pc[w] # "starting" /\ pc'[w] = "starting" =>
                     process[w] # "live" /\ poolState = "running"
<1>1. ASSUME IInv, [Next]_vars PROVE Safe
  <2> SUFFICES ASSUME NEW w \in Workers, pc[w] # "starting", pc'[w] = "starting"
               PROVE  process[w] # "live" /\ poolState = "running"
    OBVIOUS
  <2>1. pc \in [Workers -> Serving \cup Recovering \cup {"closingCancelled", "ended"}]
    BY <1>1 DEF IInv, TypeOK
  <2>2. ASSUME NEW v \in Workers, TaskStep(v) PROVE StartReplacement(w)
    <3>1. CASE StartReplacement(v)
      BY <2>1, <3>1 DEF StartReplacement, Spawn
    <3>2. CASE \/ CancelUnwinds(v) \/ CancelSwallowed(v) \/ CancelCompiling(v)
               \/ CancelStarting(v) \/ CancelLostInFailedStart(v)
      BY <2>1, <3>2 DEF CancelUnwinds, CancelSwallowed, CancelCompiling, CancelStarting,
           CancelLostInFailedStart, Deliver
    <3>3. CASE Resume(v) \/ Park(v) \/ Takes(v)
      BY <2>1, <3>3 DEF Resume, Park, Takes, TakeSettled, TakeExpired, Dispatch, Execute,
           slotVars
    <3>4. CASE CompileReturns(v) \/ CompileFails(v) \/ CompileTimesOut(v)
      BY <2>1, <3>4 DEF CompileReturns, CompileFails, CompileTimesOut, GiveUpBackend
    <3>5. CASE \/ StopReplacing(v) \/ FactoryFails(v) \/ StartSucceeds(v) \/ StartFails(v)
               \/ CleanupDone(v) \/ CancelledCleanupDone(v)
      BY <2>1, <3>5 DEF StopReplacing, FactoryFails, StartSucceeds, StartFails, CleanupDone,
           CancelledCleanupDone
    <3> QED BY <2>2, <3>1, <3>2, <3>3, <3>4, <3>5 DEF TaskStep, Takes
  <2>3. ASSUME \/ \E r \in Requests : CallerStep(r) \/ Expire(r)
               \/ \E v \in Workers : ProcessReplies(v) \/ ProcessExits(v) \/ CloseRaises(v)
               \/ \E c \in Closers : CloserStep(c)
               \/ Terminated \/ UNCHANGED vars
        PROVE  pc' = pc
    BY <2>3 DEF CallerStep, RefuseClosed, RefuseOverloaded, Accept, CallerTimer, CallerCancel,
         Interrupt, CallerWake, Expire, ProcessReplies, ProcessExits, CloseRaises, CloserStep,
         CloseBegins, CloseTasksGathered, CloseFinishes, CloseAgain, Terminated, vars, slotVars
  <2>4. StartReplacement(w)
    BY <1>1, <2>2, <2>3 DEF Next
  <2> QED BY <1>1, <2>4 DEF IInv, SlotInv, StartReplacement, AtReplaceLoop
<1>2. IInv /\ [Next]_vars => [Safe]_vars
  BY <1>1
<1> QED BY Invariance, <1>2, PTL DEF Spec, SpawnsAreSafe

-----------------------------------------------------------------------------
(* The refinement.                                                         *)

(* The future of a job that is being compiled can only have been cancelled *)
(* by its caller: nobody else settles it before the slot does.             *)
HeldInv ==
  \A w \in Workers : job[w] # None => future[job[w]] \in {"pending", "cancelled"}

LEMMA HeldStep == ASSUME IInv, HeldInv, [Next]_vars PROVE HeldInv'
<1> USE PoolAssumption DEF Settle, Pending
<1>1. \A w \in Workers : job[w] # None => job[w] \in Requests /\ stage[job[w]] = "executing"
  BY DEF IInv, TypeOK, JobInv
<1>2. ASSUME NEW r \in Requests, CallerStep(r) PROVE HeldInv'
  BY <1>1, <1>2 DEF IInv, TypeOK, JobInv, HeldInv, CallerStep, RefuseClosed, RefuseOverloaded,
       Accept, CallerTimer, CallerCancel, Interrupt, CallerWake, slotVars
<1>3. ASSUME NEW w \in Workers, Takes(w) PROVE HeldInv'
  <2>1. /\ Head(queue) \in Requests /\ stage[Head(queue)] = "queued"
        /\ \A v \in Workers : job[v] # None => job[v] # Head(queue)
    BY <1>1, <1>3, HeadOfQueue
  <2>2. CASE TakeSettled(w)
    BY <2>2 DEF HeldInv, TakeSettled, slotVars
  <2>3. CASE TakeExpired(w)
    BY <1>1, <2>1, <2>3 DEF IInv, TypeOK, HeldInv, TakeExpired, slotVars
  <2>4. CASE Dispatch(w)
    BY <2>1, <2>4 DEF IInv, TypeOK, HeldInv, Dispatch, Execute
  <2> QED BY <1>3, <2>2, <2>3, <2>4 DEF Takes
<1>4. ASSUME NEW w \in Workers, Finishes(w) PROVE HeldInv'
  <2>1. \A v \in Workers : job[v] # None /\ job[v] = job[w] => v = w
    BY DEF IInv, JobInv
  <2> QED
    BY <1>1, <1>4, <2>1 DEF IInv, TypeOK, HeldInv, Finishes, CompileReturns, CompileFails,
         CompileTimesOut, GiveUpBackend, CancelCompiling, Deliver
<1>5. ASSUME NEW c \in Closers, CloseBegins(c) \/ CloseFinishes(c) PROVE HeldInv'
  BY <1>1, <1>5 DEF IInv, TypeOK, JobInv, HeldInv, CloseBegins, CloseFinishes, slotVars, reqVars
<1>6. CASE UNCHANGED visible
  BY <1>6 DEF HeldInv, visible
<1> QED BY <1>2, <1>3, <1>4, <1>5, <1>6, StepKinds

LEMMA HeldAlways == Spec => [](IInv /\ HeldInv)
<1>1. Init => HeldInv
  BY DEF Init, HeldInv
<1>2. IInv /\ HeldInv /\ [Next]_vars => HeldInv'
  BY HeldStep
<1> QED BY Invariance, <1>1, <1>2, PTL DEF Spec

(* The initial states.                                                     *)
LEMMA ServiceInit == Init => Service!Init
BY DEF Init, Service!Init, Progress

(* What the steps do to the service's view of a request.                   *)
LEMMA ServiceStep == ASSUME IInv, HeldInv, [Next]_vars PROVE [Service!Next]_(Service!vars)
<1> USE DEF Settle, Pending
<1>1. \A r \in Requests :
        /\ future[r] = "none" <=> Progress[r] = "new"
        /\ stage[r] = "executing" <=> Progress[r] = "run"
        /\ stage[r] \in {"queued", "taken"} <=> Progress[r] = "admitted"
  BY DEF IInv, TypeOK, JobInv, Progress
<1>2. ASSUME NEW r \in Requests, CallerStep(r) PROVE [Service!Next]_(Service!vars)
  <2>1. CASE RefuseClosed(r) \/ RefuseOverloaded(r)
    <3>1. Service!Refuse(r)
      <4>1. Len(queue) >= QueueCapacity => Len(queue) = QueueCapacity
        BY PoolAssumption, LenProperties DEF IInv, TypeOK, JobInv
      <4>2. Progress' = Progress
        BY <2>1 DEF RefuseClosed, RefuseOverloaded, Progress
      <4> QED
        BY <1>1, <2>1, <4>1, <4>2 DEF Service!Refuse, RefuseClosed, RefuseOverloaded,
             loopVars, slotVars
    <3> QED BY <3>1 DEF Service!Next
  <2>2. CASE Accept(r)
    <3>1. Progress' = [Progress EXCEPT ![r] = "admitted"]
      BY <2>2 DEF Accept, Progress, IInv, TypeOK
    <3>2. Service!Admit(r)
      BY <1>1, <2>2, <3>1 DEF Service!Admit, Accept, slotVars
    <3> QED BY <3>2 DEF Service!Next
  <2>3. CASE CallerTimer(r) \/ CallerCancel(r)
    BY <2>3 DEF CallerTimer, CallerCancel, Interrupt, Progress, Service!vars, loopVars, slotVars
  <2>4. CASE CallerWake(r)
    <3>1. /\ future[r] \in {"cancelled"} \cup Outcome /\ answer[r] = "none"
          /\ Returned(r) \in Service!Answers
      BY <2>4 DEF CallerWake, Returned, IInv, TypeOK, Outcome, Service!Answers
    <3>2. Returned(r) \in {"result", "workerError"} =>
            Progress[r] = "run" /\ \A w \in Workers : job[w] # r
      BY <1>1, PoolAssumption DEF Returned, IInv, OutcomeInv, HeldInv
    <3>3. Returned(r) = "closed" => poolState # "running"
      BY DEF Returned, IInv, OutcomeInv
    <3>4. stage[r] # "queued" => RemoveFirst(queue, r) = queue
      BY DEF IInv, JobInv, Contains, RemoveFirst
    <3>5. queue' = RemoveFirst(queue, r) /\ Progress' = Progress
      BY <2>4, <3>4 DEF CallerWake, Progress
    <3>6. Service!RemoveFirst(queue, r) = RemoveFirst(queue, r)
      BY DEF Service!RemoveFirst, Service!RemoveAt, Service!SelectInSeq, Service!Min,
           RemoveFirst, RemoveAt, SelectInSeq, Min
    <3>7. Service!Answer(r, Returned(r))
      BY <1>1, <2>4, <3>1, <3>2, <3>3, <3>5, <3>6 DEF Service!Answer, CallerWake, slotVars
    <3> QED BY <3>1, <3>7 DEF Service!Next
  <2> QED BY <1>2, <2>1, <2>2, <2>3, <2>4 DEF CallerStep
<1>3. ASSUME NEW w \in Workers, Takes(w) PROVE [Service!Next]_(Service!vars)
  <2>1. CASE TakeSettled(w) \/ TakeExpired(w)
    <3>1. Progress' = Progress
      BY <1>3, <2>1, HeadOfQueue DEF TakeSettled, TakeExpired, Progress, IInv, TypeOK
    <3>2. Service!PassOver
      BY <2>1, <3>1 DEF Service!PassOver, TakeSettled, TakeExpired, slotVars
    <3> QED BY <3>2 DEF Service!Next
  <2>2. CASE Dispatch(w)
    <3>1. Progress' = [Progress EXCEPT ![Head(queue)] = "run"]
      BY <1>3, <2>2, HeadOfQueue DEF Dispatch, Execute, Progress, IInv, TypeOK
    <3>2. Service!Run(w)
      BY <1>1, <1>3, <2>2, <3>1, HeadOfQueue DEF Service!Run, Dispatch, Execute
    <3> QED BY <3>2 DEF Service!Next
  <2> QED BY <1>3, <2>1, <2>2 DEF Takes
<1>4. ASSUME NEW w \in Workers, Finishes(w) PROVE [Service!Next]_(Service!vars)
  <2>1. job' = [job EXCEPT ![w] = None] /\ UNCHANGED <<poolState, queue, stage, answer>>
    BY <1>4 DEF Finishes, CompileReturns, CompileFails, CompileTimesOut, GiveUpBackend,
         CancelCompiling, Deliver, loopVars
  <2>2. job[w] # None
    BY <1>4 DEF Finishes, CompileReturns, CompileFails, CompileTimesOut, CancelCompiling,
         IInv, SlotInv
  <2>3. Service!Finish(w)
    BY <2>1, <2>2 DEF Service!Finish, Progress
  <2> QED BY <2>3 DEF Service!Next
<1>5. ASSUME NEW c \in Closers, CloseBegins(c) PROVE [Service!Next]_(Service!vars)
  <2>1. Service!Close
    BY <1>5 DEF CloseBegins, Service!Close, Progress
  <2> QED BY <2>1 DEF Service!Next
<1>6. ASSUME NEW c \in Closers, CloseFinishes(c) PROVE [Service!Next]_(Service!vars)
  <2>1. poolState # "running"
    BY <1>6 DEF CloseFinishes, IInv, CloseInv
  <2> QED
    BY <1>6, <2>1 DEF CloseFinishes, Service!vars, Progress, loopVars, slotVars, reqVars
<1>7. CASE UNCHANGED visible
  BY <1>7 DEF visible, Service!vars, Progress
<1> QED BY <1>2, <1>3, <1>4, <1>5, <1>6, <1>7, StepKinds

(* The pool is a bounded first-in first-out service that runs a request at *)
(* most once and answers it once.                                          *)
THEOREM Refinement == Spec => ImplementsService
<1>1. IInv /\ HeldInv /\ [Next]_vars => [Service!Next]_(Service!vars)
  BY ServiceStep
<1> QED BY ServiceInit, HeldAlways, <1>1, PTL DEF Spec, ImplementsService, Service!Spec
=============================================================================
