--------------------------- MODULE HttpServerProofs ---------------------------
(***************************************************************************)
(* Safety of the server program for any number of connections.             *)
(*                                                                         *)
(* IInv is the inductive invariant.  The program's threads look at the     *)
(* event loop with no lock, so most of it says what each of them may take  *)
(* for granted: LoopInv ties the pool and the loop's flags to where the    *)
(* loop thread is, CallInv the callbacks in the loop to the calls that     *)
(* wait for them, CloseInv the pool's end to the main thread's call of     *)
(* pool.close().                                                           *)
(***************************************************************************)
EXTENDS HttpServer, QueueLemmas

(* The checks that were satisfied found what is wanted.                    *)
ChecksInv ==
  /\ \A i \in 1..checked : found[Checks[i]] \in Wanted(Checks[i])
  /\ report = "passed" <=> checked = Len(Checks)
  /\ boot \notin {"checks", "exited"} => report = "passed"
  /\ socket = "listening" => boot \notin {"checks", "exited"}

StartFails == thread \in {"raising", "failed"} \/ (thread = "ended" /\ startupError)

LoopInv ==
  /\ thread \in {"none", "born"} <=> poolState = "created"
  /\ thread = "starting" => poolState = "starting"
  /\ poolState = "starting" => thread = "starting" \/ StartFails
  /\ thread \in {"returning", "started"} => poolState \in {"running", "closing"}
  /\ thread \in {"raising", "failed"} => poolState \in {"starting", "closed"}
  /\ thread \in {"stopped", "ended"} =>
       poolState = "closed" \/ (poolState = "starting" /\ StartFails)
  /\ running <=> thread \in {"starting", "returning", "raising", "forever"}
  /\ thread \in {"none", "born", "starting", "started"} => ~stopping
  /\ thread \in {"returning", "raising"} => stopping
  /\ thread = "forever" /\ stopping => poolState = "closed"
  /\ thread \notin {"none", "born", "ended"} => loopRef
  /\ thread = "none" => ~loopRef
  /\ main = "create" <=> thread = "none"
  /\ readyEvent => thread \in {"started", "forever", "stopped", "failed", "ended"}
  /\ startupError => thread \in {"failed", "ended"}
  /\ readyEvent /\ thread = "failed" => startupError

Steps(t) == {<<"create", t>>, <<"step", t>>, <<"reply", t>>, <<"error", t>>}

(* A call has at most one callback in the loop, and only while it waits.   *)
CallInv ==
  \A t \in Threads :
    /\ AtMostOne(ready, Steps(t))
    /\ \A e \in Steps(t) : Contains(ready, e) => call[t] \in {"waiting", "ending"}

CloseInv ==
  /\ main \in {"create", "waitReady", "serving", "closing"} => call[Main] = "none"
  /\ call[Main] \notin {"pooled", "ending"}
  /\ poolState = "closed" /\ call[Main] \in {"none", "tested", "refused"} => StartFails
  /\ poolState = "closing" =>
       /\ call[Main] = "waiting"
       /\ \A e \in Steps(Main) : ~Contains(ready, e)
  /\ \/ call[Main] = "returned"
     \/ Contains(ready, <<"reply", Main>>) \/ Contains(ready, <<"stop", Main>>)
     => poolState = "closed"
  /\ main \in {"joining", "closed"} => call[Main] \in {"none", "returned"}
  /\ main = "serving" => readyEvent /\ poolState = "running"

RInv == RuntimeTypeOK /\ LoopInv /\ CallInv /\ CloseInv

IInv == TypeOK /\ ChecksInv /\ RInv
-----------------------------------------------------------------------------
(* The loop's callbacks.                                                   *)

LEMMA StepsApart ==
  ASSUME NEW t \in Threads, NEW u \in Threads, t # u, NEW e \in Steps(t)
  PROVE  e \notin Steps(u)
BY DEF Steps

LEMMA StopApart == ASSUME NEW t \in Threads PROVE <<"stop", Main>> \notin Steps(t)
BY DEF Steps

LEMMA StepsTyped == ASSUME NEW t \in Threads, NEW e \in Steps(t) PROVE e \in Callback
BY DEF Steps, Callback

(* The callback of t that runs next is the only one t has.                 *)
LEMMA HeadRuns ==
  ASSUME RInv, NEW t \in Threads, NEW kind \in {"create", "step", "reply", "error"},
         Runs(kind, t)
  PROVE  /\ running /\ <<kind, t>> \in Steps(t) /\ Contains(ready, <<kind, t>>)
         /\ call[t] \in {"waiting", "ending"}
         /\ Tail(ready) \in Seq(Callback)
         /\ \A y : Contains(Tail(ready), y) => Contains(ready, y)
         /\ \A e \in Steps(t) : ~Contains(Tail(ready), e)
         /\ \A u \in Threads : AtMostOne(Tail(ready), Steps(u))
<1>1. /\ ready \in Seq(Callback) /\ ready # <<>> /\ Head(ready) = <<kind, t>>
      /\ <<kind, t>> \in Steps(t)
  BY DEF RInv, RuntimeTypeOK, Runs, Steps
<1>2. /\ Contains(ready, <<kind, t>>) /\ Tail(ready) \in Seq(Callback)
      /\ \A y : Contains(Tail(ready), y) => Contains(ready, y)
  BY <1>1, TailFacts
<1>3. \A u \in Threads : AtMostOne(Tail(ready), Steps(u))
  BY <1>1, TailAtMostOne DEF RInv, CallInv
<1>4. \A e \in Steps(t) : ~Contains(Tail(ready), e)
  BY <1>1, TailAtMostOne DEF RInv, CallInv
<1> QED BY <1>1, <1>2, <1>3, <1>4 DEF RInv, CallInv, Runs

(* A call with no callback in the loop gets one.                           *)
LEMMA GetsCallback ==
  ASSUME NEW q \in Seq(Callback), NEW t \in Threads, NEW e \in Steps(t),
         \A u \in Threads : AtMostOne(q, Steps(u)),
         \A u \in Threads \ {t} : \A f \in Steps(u) : Contains(q, f) => Contains(ready, f),
         \A f \in Steps(t) : ~Contains(q, f),
         RInv, ready' = Append(q, e),
         \A u \in Threads \ {t} : call'[u] = call[u], call'[t] \in {"waiting", "ending"}
  PROVE  /\ CallInv' /\ ready' \in Seq(Callback)
         /\ \A y : Contains(ready', y) <=> Contains(q, y) \/ y = e
<1>1. e \in Callback
  BY StepsTyped
<1>2. ready' \in Seq(Callback) /\ \A y : Contains(ready', y) <=> Contains(q, y) \/ y = e
  BY <1>1, AppendFacts
<1>3. ASSUME NEW u \in Threads PROVE AtMostOne(ready', Steps(u))
  <2>1. e \in Steps(u) => u = t
    BY StepsApart
  <2>2. e \in Steps(u) => \A f \in Steps(u) : ~Contains(q, f)
    BY <2>1
  <2> QED BY <1>1, <2>2, AppendAtMostOne
<1>4. ASSUME NEW u \in Threads, NEW f \in Steps(u), Contains(ready', f)
      PROVE  call'[u] \in {"waiting", "ending"}
  <2>1. CASE u = t
    BY <2>1
  <2>2. CASE u # t
    <3>1. f # e
      BY <2>2, StepsApart
    <3>2. Contains(ready, f)
      BY <1>2, <1>4, <2>2, <3>1
    <3> QED BY <2>2, <3>2 DEF RInv, CallInv
  <2> QED BY <2>1, <2>2
<1> QED BY <1>2, <1>3, <1>4 DEF CallInv, Steps

(* The callback at the head ends, without a new one.                       *)
LEMMA EndsCallback ==
  ASSUME RInv, NEW t \in Threads, NEW kind \in {"create", "step", "reply", "error"},
         Runs(kind, t), ready' = Tail(ready),
         \A u \in Threads \ {t} : call'[u] = call[u]
  PROVE  CallInv' /\ ready' \in Seq(Callback)
<1>1. \A u \in Threads : AtMostOne(ready', Steps(u))
  BY HeadRuns
<1>2. ASSUME NEW u \in Threads, NEW f \in Steps(u), Contains(ready', f)
      PROVE  call'[u] \in {"waiting", "ending"}
  <2>1. Contains(ready, f) /\ u # t
    BY <1>2, HeadRuns
  <2> QED BY <2>1 DEF RInv, CallInv
<1> QED BY <1>1, <1>2, HeadRuns DEF CallInv, Steps

-----------------------------------------------------------------------------
(* The runtime, whoever acts.                                              *)

LEMMA SubmitKeeps ==
  ASSUME RInv, NEW t \in Threads, t = Main => main = "submitting",
         SubmitTests(t) \/ SubmitPuts(t)
  PROVE  RInv'
<1> USE DEF RInv
<1>1. CASE SubmitTests(t)
  <2> USE DEF SubmitTests, loopLife
  <2>1. RuntimeTypeOK' /\ LoopInv'
    BY <1>1 DEF RuntimeTypeOK, LoopInv, StartFails
  <2>2. CallInv'
    BY <1>1 DEF CallInv, RuntimeTypeOK, Steps
  <2>3. call'[Main] = call[Main] \/
          (main = "submitting" /\ call[Main] = "none" /\ call'[Main] \in {"tested", "refused"})
    BY <1>1 DEF RuntimeTypeOK, Threads
  <2>4. CloseInv'
    BY <1>1, <2>3 DEF CloseInv, Steps, StartFails
  <2> QED BY <2>1, <2>2, <2>4
<1>2. CASE SubmitPuts(t) /\ thread = "ended"
  <2> USE DEF SubmitPuts, loopLife
  <2>1. RuntimeTypeOK' /\ LoopInv'
    BY <1>2 DEF RuntimeTypeOK, LoopInv, StartFails
  <2>2. CallInv'
    BY <1>2 DEF CallInv, RuntimeTypeOK, Steps
  <2>3. call'[Main] = call[Main] \/
          (main = "submitting" /\ call[Main] = "tested" /\ call'[Main] = "refused")
    BY <1>2 DEF RuntimeTypeOK, Threads
  <2>4. CloseInv'
    BY <1>2, <2>3 DEF CloseInv, Steps, StartFails
  <2> QED BY <2>1, <2>2, <2>4
<1>3. CASE SubmitPuts(t) /\ thread # "ended"
  <2> USE DEF SubmitPuts, loopLife
  <2>0. PICK e \in Steps(t) : e = <<"create", t>>
    BY DEF Steps
  <2>1. /\ ready \in Seq(Callback)
        /\ \A u \in Threads : AtMostOne(ready, Steps(u))
        /\ \A f \in Steps(t) : ~Contains(ready, f)
    BY <1>3 DEF RuntimeTypeOK, CallInv, Steps
  <2>2. /\ ready' = Append(ready, e) /\ call'[t] = "waiting"
        /\ \A u \in Threads \ {t} : call'[u] = call[u]
    BY <1>3, <2>0 DEF RuntimeTypeOK
  <2>3. /\ CallInv' /\ ready' \in Seq(Callback)
        /\ \A y : Contains(ready', y) <=> Contains(ready, y) \/ y = e
    <3> HIDE DEF SubmitPuts, loopLife
    <3> QED BY <2>1, <2>2, GetsCallback
  <2>4. RuntimeTypeOK' /\ LoopInv'
    BY <1>3, <2>3 DEF RuntimeTypeOK, LoopInv, StartFails
  <2>5. poolState # "closing" \/ t # Main
    BY <1>3 DEF CloseInv
  <2>6. \A f \in Steps(Main) \cup {<<"stop", Main>>} :
           Contains(ready', f) => Contains(ready, f) \/ (t = Main /\ f = <<"create", Main>>)
    BY <2>0, <2>3 DEF Steps
  <2>7. CloseInv'
    BY <1>3, <2>2, <2>5, <2>6 DEF CloseInv, Steps, StartFails, Threads
  <2> QED BY <2>3, <2>4, <2>7
<1> QED BY <1>1, <1>2, <1>3
(* The main thread; its call of pool.close() is SubmitKeeps.               *)
LEMMA MainKeeps ==
  ASSUME RInv,
         \/ StartThread \/ StartReturns \/ Interrupted
         \/ CloseReturnsEarly \/ CloseTestsLoop \/ CloseRaises \/ CloseJoins
  PROVE  RInv'
<1> USE DEF RInv
<1>1. CASE StartThread
  <2>1. RuntimeTypeOK' /\ LoopInv' /\ CallInv'
    BY <1>1 DEF StartThread, RuntimeTypeOK, LoopInv, StartFails, CallInv, Steps
  <2>2. CloseInv'
    BY <1>1 DEF StartThread, CloseInv, StartFails, LoopInv, Steps
  <2> QED BY <2>1, <2>2
<1>2. CASE StartReturns
  <2>1. RuntimeTypeOK' /\ LoopInv' /\ CallInv'
    BY <1>2 DEF StartReturns, loopLife, RuntimeTypeOK, LoopInv, StartFails, CallInv, Steps
  <2>2. ~startupError => poolState = "running"
    BY <1>2 DEF StartReturns, RuntimeTypeOK, LoopInv, CloseInv, StartFails
  <2>3. CloseInv'
    BY <1>2, <2>2 DEF StartReturns, loopLife, CloseInv, StartFails, Steps
  <2> QED BY <2>1, <2>3
<1>3. CASE Interrupted
  BY <1>3 DEF Interrupted, loopLife, RuntimeTypeOK, LoopInv, CallInv, CloseInv, StartFails, Steps
<1>4. CASE CloseReturnsEarly
  BY <1>4 DEF CloseReturnsEarly, loopLife, RuntimeTypeOK, LoopInv, StartFails, CallInv, CloseInv,
              StartFails, Steps
<1>5. CASE CloseTestsLoop
  BY <1>5 DEF CloseTestsLoop, loopLife, RuntimeTypeOK, LoopInv, StartFails, CallInv, CloseInv,
              StartFails, Steps
<1>6. CASE CloseRaises
  BY <1>6 DEF CloseRaises, loopLife, RuntimeTypeOK, LoopInv, StartFails, CallInv, CloseInv,
              StartFails, Steps
<1>7. CASE CloseJoins
  BY <1>7 DEF CloseJoins, RuntimeTypeOK, LoopInv, CallInv, CloseInv, StartFails, Steps
<1> QED BY <1>1, <1>2, <1>3, <1>4, <1>5, <1>6, <1>7

LEMMA CloseStopsKeeps ==
  ASSUME RInv, CloseStops
  PROVE  RInv'
<1> USE DEF RInv, CloseStops, loopLife
<1>1. /\ ready \in Seq(Callback) /\ <<"stop", Main>> \in Callback
      /\ poolState = "closed"
  BY DEF RuntimeTypeOK, Callback, CloseInv
<1>2. /\ ready' \in Seq(Callback)
      /\ \A y : Contains(ready', y) <=> Contains(ready, y) \/ y = <<"stop", Main>>
  BY <1>1, AppendFacts
<1>3. RuntimeTypeOK' /\ LoopInv'
  BY <1>2 DEF RuntimeTypeOK, LoopInv, StartFails
<1>4. CallInv'
  <2>1. ASSUME NEW t \in Threads PROVE AtMostOne(ready', Steps(t))
    <3>1. <<"stop", Main>> \notin Steps(t) /\ AtMostOne(ready, Steps(t))
      BY StopApart DEF CallInv
    <3> QED BY <1>1, <3>1, AppendAtMostOne
  <2>2. ASSUME NEW t \in Threads, NEW e \in Steps(t), Contains(ready', e)
        PROVE  call'[t] \in {"waiting", "ending"}
    <3>1. Contains(ready, e)
      BY <1>2, <2>2, StopApart
    <3> QED BY <3>1 DEF CallInv
  <2> QED BY <2>1, <2>2 DEF CallInv, Steps
<1>5. CloseInv'
  BY <1>1, <1>2 DEF CloseInv, StartFails, Steps
<1> QED BY <1>3, <1>4, <1>5

(* The loop thread.                                                        *)
LEMMA LoopThreadKeeps ==
  ASSUME RInv, LoopThreadStep
  PROVE  RInv'
<1> USE DEF RInv
<1>1. CASE NewLoop
  BY <1>1 DEF NewLoop, RuntimeTypeOK, LoopInv, CallInv, CloseInv, StartFails, Steps
<1>2. CASE RunStart
  <2>1. RuntimeTypeOK' /\ LoopInv' /\ CallInv'
    <3>1. CASE thread' = "starting" /\ UNCHANGED stopping
      BY <1>2, <3>1 DEF RunStart, RuntimeTypeOK, LoopInv, StartFails, CallInv, Steps
    <3>2. CASE thread' = "raising" /\ stopping'
      BY <1>2, <3>2 DEF RunStart, RuntimeTypeOK, LoopInv, StartFails, CallInv, Steps
    <3> QED BY <1>2, <3>1, <3>2 DEF RunStart, FirstStepOfStart
  <2>2. CloseInv'
    BY <1>2 DEF RunStart, FirstStepOfStart, LoopInv, CloseInv, StartFails, Steps
  <2> QED BY <2>1, <2>2
<1>3. CASE PoolStarts
  <2>1. RuntimeTypeOK' /\ CallInv'
    BY <1>3 DEF PoolStarts, RuntimeTypeOK, CallInv, Steps
  <2>2. LoopInv'
    BY <1>3 DEF PoolStarts, RuntimeTypeOK, LoopInv, StartFails
  <2>3. CloseInv'
    BY <1>3 DEF PoolStarts, LoopInv, CloseInv, StartFails, Steps
  <2> QED BY <2>1, <2>2, <2>3
<1>4. CASE LoopPauses
  <2>1. RuntimeTypeOK' /\ CallInv'
    BY <1>4 DEF LoopPauses, PauseLoop, RuntimeTypeOK, CallInv, Steps
  <2>2. LoopInv' /\ CloseInv'
    BY <1>4 DEF LoopPauses, PauseLoop, RuntimeTypeOK, LoopInv, CloseInv, StartFails, Steps
  <2> QED BY <2>1, <2>2
<1>5. CASE StartFailed
  <2>1. RuntimeTypeOK' /\ CallInv'
    BY <1>5 DEF StartFailed, RuntimeTypeOK, CallInv, Steps
  <2>2. LoopInv' /\ CloseInv'
    BY <1>5 DEF StartFailed, RuntimeTypeOK, LoopInv, CloseInv, StartFails, Steps
  <2> QED BY <2>1, <2>2
<1>6. CASE AnnounceReady
  <2>1. RuntimeTypeOK' /\ CallInv'
    BY <1>6 DEF AnnounceReady, RuntimeTypeOK, CallInv, Steps
  <2>2. LoopInv' /\ CloseInv'
    BY <1>6 DEF AnnounceReady, RuntimeTypeOK, LoopInv, CloseInv, StartFails, Steps
  <2> QED BY <2>1, <2>2
<1>7. CASE RunForever
  <2>1. RuntimeTypeOK' /\ CallInv'
    BY <1>7 DEF RunForever, RuntimeTypeOK, CallInv, Steps
  <2>2. LoopInv' /\ CloseInv'
    BY <1>7 DEF RunForever, RuntimeTypeOK, LoopInv, CloseInv, StartFails, Steps
  <2> QED BY <2>1, <2>2
<1>8. CASE LoopStops
  <2>1. RuntimeTypeOK' /\ CallInv'
    BY <1>8 DEF LoopStops, RuntimeTypeOK, CallInv, Steps
  <2>2. LoopInv' /\ CloseInv'
    BY <1>8 DEF LoopStops, RuntimeTypeOK, LoopInv, CloseInv, StartFails, Steps
  <2> QED BY <2>1, <2>2
<1>9. CASE LoopCloses
  <2>1. \A y : ~Contains(ready', y)
    BY <1>9 DEF LoopCloses, Contains
  <2>2. RuntimeTypeOK' /\ CallInv'
    BY <1>9, <2>1 DEF LoopCloses, RuntimeTypeOK, CallInv, AtMostOne, Steps
  <2>3. LoopInv' /\ CloseInv'
    BY <1>9, <2>1 DEF LoopCloses, RuntimeTypeOK, LoopInv, CloseInv, StartFails, Steps
  <2> QED BY <2>2, <2>3
<1> QED BY <1>1, <1>2, <1>3, <1>4, <1>5, <1>6, <1>7, <1>8, <1>9 DEF LoopThreadStep

(* A coroutine's callback is followed by another: t's in place of t's.     *)
LEMMA NextCallback ==
  ASSUME RInv, NEW t \in Threads, NEW kind \in {"create", "step", "reply", "error"},
         Runs(kind, t), NEW e \in Steps(t), e = <<"reply", Main>> => poolState = "closed",
         ready' = Append(Tail(ready), e), UNCHANGED <<main, loopLife, poolState, call>>
  PROVE  RInv'
<1> USE DEF RInv, loopLife
<1>0. /\ Tail(ready) \in Seq(Callback)
      /\ \A u \in Threads : AtMostOne(Tail(ready), Steps(u))
      /\ \A y : Contains(Tail(ready), y) => Contains(ready, y)
      /\ \A f \in Steps(t) : ~Contains(Tail(ready), f)
      /\ call'[t] \in {"waiting", "ending"} /\ \A u \in Threads : call'[u] = call[u]
  BY HeadRuns
<1> HIDE DEF RInv
<1>1. /\ CallInv' /\ ready' \in Seq(Callback)
      /\ \A y : Contains(ready', y) <=> Contains(Tail(ready), y) \/ y = e
  BY <1>0, GetsCallback
<1> USE DEF RInv
<1>2. RuntimeTypeOK' /\ LoopInv'
  BY <1>1 DEF RuntimeTypeOK, LoopInv, StartFails
<1>3. \A y : Contains(ready', y) => Contains(ready, y) \/ y = e
  BY <1>1, HeadRuns
<1>4. ASSUME t = Main PROVE poolState # "closing"
  BY <1>4, HeadRuns DEF CloseInv
<1>5. ASSUME poolState = "closing", NEW f \in Steps(Main), Contains(ready', f) PROVE FALSE
  <2>1. f # e
    BY <1>4, <1>5, StepsApart DEF Threads
  <2> QED BY <1>3, <1>5, <2>1 DEF CloseInv
<1>6. e # <<"stop", Main>>
  BY StopApart
<1>7. CloseInv'
  BY <1>3, <1>5, <1>6 DEF CloseInv, StartFails, Steps
<1> QED BY <1>1, <1>2, <1>7

LEMMA CallbackKeeps ==
  ASSUME RInv, CallbackStep
  PROVE  RInv'
<1> USE DEF RInv, loopLife
<1>0. Main \in Threads
  BY DEF Threads
<1>1. ASSUME NEW t \in Threads, CreateTask(t) PROVE RInv'
  <2>1. Runs("create", t) /\ <<"step", t>> \in Steps(t) /\ <<"step", t>> # <<"reply", Main>>
    BY <1>1 DEF CreateTask, Steps
  <2> QED BY <1>1, <2>1, NextCallback DEF CreateTask
<1>2. ASSUME NEW t \in Threads, SetFuture(t) PROVE RInv'
  <2> USE DEF SetFuture
  <2>1. PICK kind \in {"reply", "error"} : Runs(kind, t)
    BY <1>2
  <2>2. /\ ready' = Tail(ready) /\ \A u \in Threads \ {t} : call'[u] = call[u]
        /\ call'[t] = IF kind = "reply" THEN "returned" ELSE "raised"
    BY <1>2, <2>1 DEF RuntimeTypeOK, Runs
  <2>3. CallInv' /\ ready' \in Seq(Callback)
    BY <2>1, <2>2, EndsCallback
  <2>4. RuntimeTypeOK' /\ LoopInv'
    BY <1>2, <2>3 DEF RuntimeTypeOK, LoopInv, StartFails
  <2>5. /\ \A y : Contains(ready', y) => Contains(ready, y)
        /\ Contains(ready, <<kind, t>>) /\ call[t] \in {"waiting", "ending"}
        /\ <<kind, t>> \in Steps(t)
    BY <2>1, <2>2, HeadRuns
  <2>6. CASE t = Main
    <3>1. poolState # "closing" /\ main \notin {"create", "waitReady", "serving", "closing"}
      BY <2>5, <2>6 DEF CloseInv
    <3>2. call'[Main] = "returned" => poolState = "closed"
      BY <2>2, <2>5, <2>6 DEF CloseInv
    <3> QED BY <1>2, <2>2, <2>3, <2>4, <2>5, <2>6, <3>1, <3>2 DEF CloseInv, StartFails, Steps
  <2>7. CASE t # Main
    <3>1. call'[Main] = call[Main]
      BY <1>0, <2>2, <2>7
    <3> QED BY <1>2, <2>3, <2>4, <2>5, <3>1 DEF CloseInv, StartFails, Steps
  <2> QED BY <2>6, <2>7
<1>3. ASSUME NEW h \in Handlers, PoolAnswers(h) PROVE RInv'
  <2> USE DEF PoolAnswers
  <2>1. /\ h \in Threads /\ h # Main /\ ready \in Seq(Callback) /\ <<"reply", h>> \in Steps(h)
        /\ <<"reply", h>> # <<"reply", Main>> /\ <<"reply", h>> # <<"stop", Main>>
    BY RuntimeAssumption DEF Threads, RuntimeTypeOK, Steps
  <2>2. /\ \A u \in Threads : AtMostOne(ready, Steps(u))
        /\ \A f \in Steps(h) : ~Contains(ready, f)
        /\ call'[h] = "ending" /\ \A u \in Threads \ {h} : call'[u] = call[u]
    BY <1>3, <2>1 DEF CallInv, RuntimeTypeOK
  <2>3. /\ CallInv' /\ ready' \in Seq(Callback)
        /\ \A y : Contains(ready', y) <=> Contains(ready, y) \/ y = <<"reply", h>>
    BY <1>3, <2>1, <2>2, GetsCallback
  <2>4. RuntimeTypeOK' /\ LoopInv'
    BY <1>3, <2>3 DEF RuntimeTypeOK, LoopInv, StartFails
  <2>5. \A f \in Steps(Main) : f # <<"reply", h>>
    BY <1>0, <2>1, StepsApart
  <2>6. call'[Main] = call[Main]
    BY <1>0, <2>1, <2>2
  <2>7. CloseInv'
    BY <1>3, <2>1, <2>3, <2>5, <2>6 DEF CloseInv, StartFails, Steps
  <2> QED BY <2>3, <2>4, <2>7
<1>4. CASE StepClose
  <2> USE DEF StepClose
  <2>1. Runs("step", Main) /\ poolState \in {"starting", "running", "closed"}
    <3>1. Runs("step", Main) /\ running
      BY <1>4 DEF Runs
    <3>2. poolState # "closing"
      BY <1>0, <3>1, HeadRuns DEF CloseInv
    <3> QED BY <3>1, <3>2 DEF RuntimeTypeOK, LoopInv, StartFails
  <2>2. CASE poolState = "starting"
    <3>1. ready' = Append(Tail(ready), <<"error", Main>>) /\ poolState' = poolState
      BY <1>4, <2>2
    <3>2. <<"error", Main>> \in Steps(Main) /\ <<"error", Main>> # <<"reply", Main>>
      BY DEF Steps
    <3> QED BY <1>0, <1>4, <2>1, <3>1, <3>2, NextCallback
  <2>3. CASE poolState = "closed"
    <3>1. ready' = Append(Tail(ready), <<"reply", Main>>) /\ poolState' = poolState
      BY <1>4, <2>3
    <3>2. <<"reply", Main>> \in Steps(Main)
      BY DEF Steps
    <3> QED BY <1>0, <1>4, <2>1, <2>3, <3>1, <3>2, NextCallback
  <2>4. CASE poolState = "running"
    <3>1. ready' = Tail(ready) /\ poolState' = "closing" /\ UNCHANGED <<main, loopLife, call>>
      BY <1>4, <2>4
    <3>2. CallInv' /\ ready' \in Seq(Callback)
      BY <1>0, <2>1, <3>1, EndsCallback
    <3>3. /\ \A e \in Steps(Main) : ~Contains(ready', e)
          /\ \A y : Contains(ready', y) => Contains(ready, y)
          /\ call[Main] \in {"waiting", "ending"}
      BY <1>0, <2>1, <3>1, HeadRuns
    <3>4. call[Main] = "waiting"
      BY <3>3 DEF CloseInv
    <3>5. RuntimeTypeOK' /\ LoopInv'
      BY <2>4, <3>1, <3>2 DEF RuntimeTypeOK, LoopInv, StartFails
    <3>6. CloseInv'
      BY <2>4, <3>1, <3>3, <3>4 DEF CloseInv, StartFails, Steps
    <3> QED BY <3>2, <3>5, <3>6
  <2> QED BY <2>1, <2>2, <2>3, <2>4
<1>5. CASE PoolCloses
  <2> USE DEF PoolCloses
  <2> DEFINE e == <<"reply", Main>>
  <2>1. /\ ready \in Seq(Callback) /\ e \in Steps(Main)
        /\ \A u \in Threads : AtMostOne(ready, Steps(u))
        /\ \A f \in Steps(Main) : ~Contains(ready, f)
        /\ call[Main] = "waiting"
    BY <1>5 DEF RuntimeTypeOK, Steps, CallInv, CloseInv
  <2>2. /\ CallInv' /\ ready' \in Seq(Callback)
        /\ \A y : Contains(ready', y) <=> Contains(ready, y) \/ y = e
    BY <1>0, <1>5, <2>1, GetsCallback
  <2>3. RuntimeTypeOK' /\ LoopInv'
    BY <1>5, <2>2 DEF RuntimeTypeOK, LoopInv, StartFails
  <2>4. CloseInv'
    BY <1>5, <2>1, <2>2 DEF CloseInv, StartFails, Steps
  <2> QED BY <2>2, <2>3, <2>4
<1>6. CASE StopCallback
  <2> USE DEF StopCallback, Runs
  <2>1. /\ Contains(ready, <<"stop", Main>>) /\ Tail(ready) \in Seq(Callback)
        /\ \A y : Contains(Tail(ready), y) => Contains(ready, y)
        /\ \A u \in Threads : AtMostOne(Tail(ready), Steps(u))
    BY <1>6, TailFacts, TailAtMostOne DEF RuntimeTypeOK, CallInv
  <2>2. poolState = "closed"
    BY <2>1 DEF CloseInv
  <2>3. RuntimeTypeOK' /\ CallInv'
    BY <1>6, <2>1 DEF RuntimeTypeOK, CallInv, Steps
  <2>4. LoopInv' /\ CloseInv'
    BY <1>6, <2>1, <2>2 DEF LoopInv, CloseInv, StartFails, Steps
  <2> QED BY <2>3, <2>4
<1> QED BY <1>1, <1>2, <1>3, <1>4, <1>5, <1>6 DEF CallbackStep

(* The coroutines of the handlers.                                         *)
LEMMA CoroutineKeeps ==
  ASSUME RInv, NEW h \in Handlers, StepCompile(h) \/ StepSnapshot(h)
  PROVE  RInv'
<1> USE DEF RInv, loopLife
<1>1. /\ h \in Threads /\ h # Main /\ Main \in Threads /\ Runs("step", h)
      /\ {<<"reply", h>>, <<"error", h>>} \subseteq Steps(h)
      /\ <<"reply", h>> # <<"reply", Main>> /\ <<"error", h>> # <<"reply", Main>>
  BY RuntimeAssumption DEF Threads, StepCompile, StepSnapshot, Steps
<1>2. CASE ready' = Append(Tail(ready), <<"error", h>>) /\ UNCHANGED call
  <2>1. UNCHANGED <<main, loopLife, poolState, call>>
    BY <1>2 DEF StepCompile, StepSnapshot
  <2> QED BY <1>1, <1>2, <2>1, NextCallback
<1>3. CASE StepSnapshot(h)
  BY <1>1, <1>3, NextCallback DEF StepSnapshot
<1>4. CASE /\ poolState = "running" /\ call' = [call EXCEPT ![h] = "pooled"]
           /\ ready' = Tail(ready) /\ UNCHANGED <<main, loopLife, poolState>>
  <2>1. \A u \in Threads \ {h} : call'[u] = call[u]
    BY <1>4 DEF RuntimeTypeOK
  <2>2. CallInv' /\ ready' \in Seq(Callback)
    BY <1>1, <1>4, <2>1, EndsCallback
  <2>3. \A y : Contains(ready', y) => Contains(ready, y)
    BY <1>1, <1>4, HeadRuns
  <2>4. RuntimeTypeOK' /\ LoopInv'
    BY <1>4, <2>2 DEF RuntimeTypeOK, LoopInv, StartFails
  <2>5. CloseInv'
    BY <1>1, <1>4, <2>1, <2>3 DEF CloseInv, StartFails, Steps
  <2> QED BY <2>2, <2>4, <2>5
<1> QED BY <1>2, <1>3, <1>4 DEF StepCompile

LEMMA RuntimeStutters == RInv /\ UNCHANGED runtimeVars => RInv'
<1> SUFFICES ASSUME RInv, UNCHANGED runtimeVars PROVE RInv'
  OBVIOUS
<1> USE DEF RInv, runtimeVars
<1>1. RuntimeTypeOK' /\ LoopInv'
  BY DEF RuntimeTypeOK, LoopInv, StartFails
<1>2. CallInv'
  BY DEF CallInv, Steps
<1>3. CloseInv'
  BY DEF CloseInv, StartFails, Steps
<1> QED BY <1>1, <1>2, <1>3
-----------------------------------------------------------------------------
(* The start-up checks.                                                    *)

LEMMA ChecksFacts ==
  /\ Len(Checks) = 7 /\ ToSet(Checks) = {Checks[i] : i \in 1..7}
  /\ \A i, j \in 1..7 : Checks[i] = Checks[j] => i = j
<1>1. Len(Checks) = 7 /\ DOMAIN Checks = 1..7
  BY DEF Checks
<1>2. \A i, j \in 1..7 : Checks[i] = Checks[j] => i = j
  BY DEF Checks
<1> QED BY <1>1, <1>2 DEF ToSet

LEMMA RunCheckKeeps ==
  ASSUME PreflightTypeOK, ChecksInv, boot = "checks", RunCheck, UNCHANGED httpVars
  PROVE  PreflightTypeOK' /\ ChecksInv'
<1> DEFINE c == Checks[checked + 1]
<1>1. checked \in 0..6 /\ c \in ToSet(Checks)
  BY ChecksFacts DEF RunCheck, PreflightTypeOK, ChecksInv
<1> HIDE DEF c
<1>2. PICK outcome \in Outcomes(c) :
        /\ found' = [found EXCEPT ![c] = outcome]
        /\ CheckPasses(c, outcome) \/ CheckFails(c, outcome)
  BY DEF RunCheck, c
<1>3. /\ found' \in [ToSet(Checks) -> {"unseen"} \cup UNION {Outcomes(d) : d \in ToSet(Checks)}]
      /\ found'[c] = outcome /\ \A d \in ToSet(Checks) \ {c} : found'[d] = found[d]
  BY <1>1, <1>2 DEF PreflightTypeOK
<1>4. \A i \in 1..checked : Checks[i] \in ToSet(Checks) \ {c}
  BY <1>1, ChecksFacts DEF c
<1>5. \A i \in 1..checked : found'[Checks[i]] \in Wanted(Checks[i])
  BY <1>3, <1>4 DEF ChecksInv
<1>6. CASE CheckPasses(c, outcome)
  <2>1. found'[Checks[checked + 1]] \in Wanted(Checks[checked + 1])
    BY <1>3, <1>6 DEF CheckPasses, c
  <2>2. checked' = checked + 1 /\ (report' = "passed" <=> checked' = 7)
        /\ report' \in {"none", "passed"}
    BY <1>6, ChecksFacts DEF CheckPasses
  <2>3. \A i \in 1..checked' : i \in 1..checked \/ i = checked + 1
    BY <1>1, <2>2
  <2>4. PreflightTypeOK'
    BY <1>1, <1>3, <2>2, ChecksFacts DEF PreflightTypeOK
  <2> QED BY <1>5, <2>1, <2>2, <2>3, <2>4, ChecksFacts DEF ChecksInv, httpVars
<1>7. CASE CheckFails(c, outcome)
  <2>1. checked' = checked /\ report' = "failed"
    BY <1>7 DEF CheckFails
  <2> QED BY <1>1, <1>3, <1>5, <2>1, ChecksFacts DEF ChecksInv, PreflightTypeOK, httpVars
<1> QED BY <1>2, <1>6, <1>7

-----------------------------------------------------------------------------
(* IInv is inductive.                                                      *)

LEMMA InitInv == Init => IInv
<1> SUFFICES ASSUME Init PROVE IInv
  OBVIOUS
<1> USE DEF Init, RuntimeInit, PreflightInit
<1>1. RuntimeTypeOK /\ LoopInv
  <2>1. ready \in Seq(Callback)
    OBVIOUS
  <2>2. {loopRef, running, stopping, readyEvent, startupError} \subseteq BOOLEAN
    OBVIOUS
  <2>3. LoopInv
    BY DEF LoopInv, StartFails
  <2> QED BY <2>1, <2>2, <2>3 DEF RuntimeTypeOK
<1>2. \A y : ~Contains(ready, y)
  BY DEF Contains
<1>3. CallInv /\ CloseInv
  BY <1>2 DEF CallInv, CloseInv, AtMostOne, Steps, Threads
<1>4. TypeOK /\ ChecksInv
  BY <1>1, ChecksFacts DEF TypeOK, PreflightTypeOK, ChecksInv
<1> QED BY <1>1, <1>3, <1>4 DEF IInv, RInv

(* What the program does outside the runtime and the checks.               *)
LEMMA ProgramKeeps ==
  ASSUME IInv, UNCHANGED <<runtimeVars, preflightVars>>,
         \/ ChecksPassed \/ Listen \/ Serve \/ CloseSocket \/ EndEarly \/ EndClosed
         \/ \E h \in Handlers : Connect(h) \/ \E a, b \in {"backlog", "reading", "getting",
                "posting", "answered", "dropped"} : Becomes(h, a, b)
  PROVE  IInv'
<1> USE DEF IInv
<1>1. RInv'
  BY RuntimeStutters
<1>2. RuntimeTypeOK' /\ PreflightTypeOK'
  BY <1>1 DEF RInv, TypeOK, PreflightTypeOK, preflightVars
<1>3. /\ boot' \in {"checks", "construct", "create", "announce", "serve", "exited"}
      /\ socket' \in {"none", "listening", "closed"}
  BY DEF TypeOK, ChecksPassed, Listen, Serve, CloseSocket, EndEarly, EndClosed, End,
         Connect, Becomes
<1>4. conn' \in [Handlers -> {"none", "backlog", "reading", "getting", "posting",
                            "answered", "dropped", "reset"}]
  BY DEF TypeOK, ChecksPassed, Listen, Serve, CloseSocket, EndEarly, EndClosed, End,
         Connect, Becomes
<1>5. ChecksInv'
  BY DEF TypeOK, ChecksInv, preflightVars, ChecksPassed, Listen, Serve, CloseSocket,
         EndEarly, EndClosed, End, Connect, Becomes
<1> QED BY <1>1, <1>2, <1>3, <1>4, <1>5 DEF TypeOK

LEMMA RuntimeMoves ==
  ASSUME IInv, RInv', UNCHANGED <<preflightVars, socket, conn>>,
         boot' = boot \/ (boot # "checks" /\ boot # "exited" /\ boot' = "announce")
  PROVE  IInv'
BY DEF IInv, RInv, TypeOK, PreflightTypeOK, ChecksInv, preflightVars

LEMMA MainStepKeeps == RInv /\ MainStep => RInv'
BY MainKeeps, CloseStopsKeeps, SubmitKeeps DEF MainStep, CloseSubmits, Threads

LEMMA NextKeeps ==
  ASSUME IInv, [Next]_vars
  PROVE  IInv'
<1> USE DEF IInv
<1>1. CASE MakeChecks
  <2>1. RInv' /\ PreflightTypeOK' /\ ChecksInv'
    BY <1>1, RuntimeStutters, RunCheckKeeps DEF MakeChecks, TypeOK
  <2> QED BY <1>1, <2>1 DEF MakeChecks, TypeOK, RInv, httpVars
<1>2. CASE ChecksPassed \/ Listen \/ Serve \/ CloseSocket \/ EndEarly \/ EndClosed
  <2>1. UNCHANGED <<runtimeVars, preflightVars>>
    BY <1>2 DEF ChecksPassed, Listen, Serve, CloseSocket, EndEarly, EndClosed, End
  <2> QED BY <1>2, <2>1, ProgramKeeps
<1>3. CASE RuntimeMain
  <2>1. RInv'
    BY <1>3, MainStepKeeps DEF RuntimeMain
  <2> QED BY <1>3, <2>1, RuntimeMoves DEF RuntimeMain
<1>4. CASE Interrupt
  <2>1. RInv'
    BY <1>4, MainKeeps DEF Interrupt
  <2> QED BY <1>4, <2>1, RuntimeMoves DEF Interrupt, httpVars
<1>5. CASE LoopThread
  <2>1. RInv'
    BY <1>5, LoopThreadKeeps, CallbackKeeps, CoroutineKeeps DEF LoopThread, RunCall
  <2> QED BY <1>5, <2>1, RuntimeMoves DEF LoopThread, RunCall, httpVars
<1>6. ASSUME NEW h \in Handlers, HandlerStep(h) \/ ClientStep(h) PROVE IInv'
  <2>1. CASE Submit(h)
    <3>1. h \in Threads /\ h # Main
      BY RuntimeAssumption DEF Threads
    <3>2. RInv'
      BY <2>1, <3>1, SubmitKeeps DEF Submit
    <3> QED BY <2>1, <3>2, RuntimeMoves DEF Submit, httpVars
  <2>2. CASE Connect(h)
    BY <2>2, ProgramKeeps DEF Connect
  <2>3. CASE ~Submit(h) /\ ~Connect(h)
    <3>1. PICK a \in {"backlog", "reading", "getting", "posting"},
               b \in {"reading", "getting", "posting", "answered", "dropped"} : Becomes(h, a, b)
      BY <1>6, <2>3 DEF HandlerStep, ClientStep, Accept, Get, Post, Reject, PostRaises,
                       Respond, Drop, Calling
    <3>2. UNCHANGED <<runtimeVars, preflightVars>>
      BY <3>1 DEF Becomes
    <3> QED BY <3>1, <3>2, ProgramKeeps
  <2> QED BY <2>1, <2>2, <2>3
<1>7. CASE UNCHANGED vars
  <2>1. RInv'
    BY <1>7, RuntimeStutters DEF vars
  <2> QED BY <1>7, <2>1, RuntimeMoves DEF vars, httpVars
<1> QED BY <1>1, <1>2, <1>3, <1>4, <1>5, <1>6, <1>7 DEF Next, MainThreadStep

(* IInv holds in every reachable state.                                    *)
THEOREM Inductive == Spec => []IInv
BY InitInv, NextKeeps, PTL DEF Spec

-----------------------------------------------------------------------------
(* The variables have their types: only callbacks are queued on the loop.  *)
THEOREM TypeCorrect == Spec => []TypeOK
<1>1. IInv => TypeOK
  BY DEF IInv
<1> QED BY Inductive, <1>1, PTL

(* The program listens only after every check has found what is wanted,    *)
(* whatever the machine answers and in every order of the program's steps. *)
THEOREM ListensPinned == Spec => []ListensOnlyIfPinned
<1>1. IInv => ListensOnlyIfPinned
  <2> SUFFICES ASSUME IInv, socket = "listening"
               PROVE  /\ \A c \in ToSet(Checks) \ {"mathlib", "compile"} : found[c] = "pinned"
                      /\ found["mathlib"] = "manifestRevision" /\ found["compile"] = "ran"
    BY DEF ListensOnlyIfPinned
  <2>1. \A i \in 1..7 : found[Checks[i]] \in Wanted(Checks[i])
    BY ChecksFacts DEF IInv, ChecksInv
  <2>2. \A c \in ToSet(Checks) : found[c] \in Wanted(c)
    BY <2>1, ChecksFacts
  <2>3. {"mathlib", "compile"} \subseteq ToSet(Checks)
    <3>1. Checks[6] = "mathlib" /\ Checks[7] = "compile"
      BY DEF Checks
    <3> QED BY <3>1, ChecksFacts
  <2> QED BY <2>2, <2>3 DEF Wanted
<1> QED BY Inductive, <1>1, PTL

(* While the main thread serves, the pool runs: for any number of threads  *)
(* that call the loop meanwhile.                                           *)
THEOREM ServedByPool == Spec => []ServedByRunningPool
<1>1. IInv => ServedByRunningPool
  BY DEF IInv, RInv, CloseInv, ServedByRunningPool
<1> QED BY Inductive, <1>1, PTL

(* A close() that has joined the loop's thread has closed the pool, but    *)
(* one whose start() raised before it made anything: that it leaves alone. *)
THEOREM JoinedClosed == Spec => []JoinedMeansClosed
<1>1. IInv => JoinedMeansClosed
  BY DEF IInv, RInv, LoopInv, CloseInv, StartFails, JoinedMeansClosed
<1> QED BY Inductive, <1>1, PTL

(* What a step may do to the calls of the threads.                         *)
LEMMA CallSteps ==
  ASSUME IInv, [Next]_vars, NEW t \in Threads, call'[t] # call[t]
  PROVE  \/ (SubmitTests(t) \/ SubmitPuts(t)) /\ call[t] \in {"none", "tested"}
         \/ call[t] \in {"waiting", "ending", "pooled"} /\ call'[t] # "refused"
<1> USE DEF IInv, RInv
<1>0. Main \in Threads /\ Handlers \subseteq Threads /\ call \in [Threads ->
        {"none", "tested", "waiting", "pooled", "ending", "returned", "raised", "refused"}]
  BY DEF Threads, RuntimeTypeOK
<1>1. CASE \E u \in Threads : SubmitTests(u) \/ SubmitPuts(u)
  BY <1>0, <1>1 DEF SubmitTests, SubmitPuts
<1>2. CASE \E u \in Threads : SetFuture(u)
  <2>1. PICK u \in Threads : SetFuture(u)
    BY <1>2
  <2>2. u = t /\ call'[t] \in {"returned", "raised"}
    BY <1>0, <2>1 DEF SetFuture
  <2> QED BY <2>1, <2>2, HeadRuns DEF SetFuture
<1>3. CASE \E h \in Handlers : PoolAnswers(h)
  BY <1>0, <1>3 DEF PoolAnswers
<1>4. CASE \E h \in Handlers : StepCompile(h)
  <2>1. PICK h \in Handlers : StepCompile(h)
    BY <1>4
  <2>2. h = t /\ call'[t] = "pooled"
    BY <1>0, <2>1 DEF StepCompile
  <2> QED BY <1>0, <2>1, <2>2, HeadRuns DEF StepCompile
<1>5. CASE call' = call
  BY <1>5
<1> QED
  BY <1>0, <1>1, <1>2, <1>3, <1>4, <1>5
  DEF Next, MainThreadStep, MakeChecks, ChecksPassed, Listen, RuntimeMain, Serve, CloseSocket,
      EndEarly, EndClosed, End, Interrupt, Interrupted, LoopThread, RunCall, HandlerStep,
      ClientStep, Accept, Submit, Respond, Drop, Connect, Get, Post, Reject, PostRaises,
      Becomes, MainStep, StartThread, StartReturns, CloseReturnsEarly, CloseTestsLoop,
      CloseSubmits, CloseStops, CloseRaises, CloseJoins, LoopThreadStep, NewLoop, RunStart,
      FirstStepOfStart, PoolStarts, LoopPauses, PauseLoop, StartFailed, AnnounceReady,
      RunForever, LoopStops, LoopCloses, CallbackStep, CreateTask, StepSnapshot, StepClose, PoolCloses, StopCallback,
      vars, runtimeVars

(* A request is turned away for want of a running loop only before         *)
(* run_forever() has begun, or once the main thread closes.                *)
THEOREM TurnedAwayOnlyAtEdges == Spec => TurnedAwayAtEdges
<1> DEFINE A == \A h \in Handlers : call[h] # "refused" /\ call'[h] = "refused" =>
                  thread = "started" \/ main # "serving"
<1>1. ASSUME IInv, [Next]_vars, NEW h \in Handlers, call[h] # "refused", call'[h] = "refused"
      PROVE  thread = "started" \/ main # "serving"
  <2>1. h \in Threads /\ (SubmitTests(h) \/ SubmitPuts(h))
    BY <1>1, CallSteps DEF Threads
  <2>2. ~(loopRef /\ running) \/ thread = "ended"
    BY <1>1, <2>1 DEF SubmitTests, SubmitPuts, IInv, RInv, RuntimeTypeOK
  <2>3. main = "serving" => thread \in {"started", "forever"}
    BY <1>1 DEF IInv, RInv, CloseInv, LoopInv, StartFails
  <2> QED BY <1>1, <2>2, <2>3 DEF IInv, RInv, LoopInv, StartFails
<1>2. IInv /\ [Next]_vars => [A]_vars
  BY <1>1
<1> QED BY Inductive, <1>2, PTL DEF Spec, TurnedAwayAtEdges

(* A thread's call has one answer: its future is set once, and nothing the *)
(* loop, the pool or close() does later changes what it was told.          *)
THEOREM AnsweredOnce ==
  Spec => [][\A t \in Threads : call[t] \in {"returned", "raised", "refused"} =>
               call'[t] = call[t]]_vars
<1> DEFINE A == \A t \in Threads : call[t] \in {"returned", "raised", "refused"} =>
                  call'[t] = call[t]
<1>1. IInv /\ [Next]_vars => [A]_vars
  BY CallSteps
<1> QED BY Inductive, <1>1, PTL DEF Spec
=============================================================================
