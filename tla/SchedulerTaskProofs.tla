------------------------ MODULE SchedulerTaskProofs ------------------------
(***************************************************************************)
(* Proofs about Scheduler.tla: fibers and tasks in the hands of disciplined *)
(* callers, and what is left when the pool stops.  They build on CountInv  *)
(* and PoolInv (SchedulerProofs).                                          *)
(***************************************************************************)
EXTENDS SchedulerProofs

-----------------------------------------------------------------------------
(***************************************************************************)
(* Fibers.                                                                 *)
(***************************************************************************)

\* A scheduler that has been constructed has no fiber.
LEMMA FiberInvInit == Init => FiberInv
  <1> SUFFICES ASSUME Init PROVE FiberInv
    OBVIOUS
  <1>1. \A t \in Threads : /\ pc[t] = "none" /\ cb_fiber[t] = NoFiber
                           /\ ft[t].fiber = NoFiber /\ ft[t].cb = NoCb
    BY DEF Init, NoTask
  <1>2. m_fibers = <<>> /\ Len(m_fibers) = 0
    BY DEF Init
  <1>3. HeldOnce
    BY <1>1, FiberAssumption DEF HeldOnce, Holds
  <1>4. TasksDistinct
    BY <1>1, <1>2 DEF TasksDistinct
  <1>5. QueuedWhenLeaving
    BY <1>1, FiberAssumption DEF QueuedWhenLeaving, Holds
  <1>6. HandsOrdered
    BY <1>1 DEF HandsOrdered, CurState, SpareEmpty, OnFiber
  <1> QED
    BY <1>3, <1>4, <1>5, <1>6 DEF FiberInv

\* The tasks of the list are tasks.
LEMMA TaskType ==
    ASSUME Shape
    PROVE  \A i \in 1..Len(m_fibers) :
              /\ m_fibers[i] \in FiberAndThread
              /\ m_fibers[i].fiber \in Fibers \cup {NoFiber}
              /\ m_fibers[i].cb \in Cbs \cup {NoCb}
  <1> SUFFICES ASSUME NEW i \in 1..Len(m_fibers)
               PROVE  /\ m_fibers[i] \in FiberAndThread
                      /\ m_fibers[i].fiber \in Fibers \cup {NoFiber}
                      /\ m_fibers[i].cb \in Cbs \cup {NoCb}
    OBVIOUS
  <1>1. m_fibers \in Seq(FiberAndThread)
    BY DEF Shape
  <1>2. m_fibers[i] \in FiberAndThread
    BY <1>1, ElementOfSeq
  <1> QED
    BY <1>2 DEF FiberAndThread

\* What thread t holds depends only on its own locals.
OthersStay(t) ==
    \A u \in Threads \ {t} : pc'[u] = pc[u] /\ ft'[u] = ft[u] /\ cb_fiber'[u] = cb_fiber[u]

\* No fiber but g changes.
OnlyFiber(g) ==
    \A f \in Fibers \ {g} : m_state'[f] = m_state[f] /\ m_cb'[f] = m_cb[f]

\* A fiber in some thread's hands has been built.
LEMMA HeldBuilt ==
    ASSUME Shape, Hands, FiberInv, NEW t \in Threads, NEW f \in Fibers, Holds(t, f)
    PROVE  m_state[f] # "NONE"
  <1>1. CASE f = cb_fiber[t] /\ (OnFiber(t) => ft[t].fiber # NoFiber)
    BY <1>1, FiberAssumption DEF FiberInv, HandsOrdered, SpareEmpty
  <1>2. CASE f = cb_fiber[t] /\ OnFiber(t) /\ ft[t].fiber = NoFiber
    BY <1>2 DEF FiberInv, HandsOrdered, CurState, OnFiber, Cur
  <1>3. CASE f = ft[t].fiber
    <2>1. f # NoFiber /\ ft[t] # NoTask
      BY <1>3, FiberAssumption DEF NoTask
    <2>2. pc[t] = "dispatch" \/ OnFiber(t)
      BY <2>1 DEF Shape, PC, Hands, HandsEmpty, OnFiber
    <2> QED
      BY <1>3, <2>1, <2>2 DEF FiberInv, HandsOrdered, CurState, OnFiber, Cur
  <1> QED
    BY <1>1, <1>2, <1>3 DEF Holds

\* The fiber a thread deals with is in its hands, and in no other's.
LEMMA CurHeld ==
    ASSUME Shape, FiberInv, NEW t \in Threads, Cur(t) # NoFiber
    PROVE  /\ Cur(t) \in Fibers
           /\ Holds(t, Cur(t))
           /\ \A u \in Threads \ {t} : ~Holds(u, Cur(t))
  <1>1. Cur(t) \in Fibers /\ Holds(t, Cur(t))
    BY CurType DEF Cur, Holds
  <1> QED
    BY <1>1 DEF FiberInv, HeldOnce

\* What thread u holds stays in order in a step of others that changes a
\* fiber u does not hold.
LEMMA HandStays ==
    ASSUME Shape, FiberInv, NEW u \in Threads,
           pc'[u] = pc[u], ft'[u] = ft[u], cb_fiber'[u] = cb_fiber[u],
           NEW g, OnlyFiber(g), g \in Fibers => ~Holds(u, g)
    PROVE  CurState(u)' /\ SpareEmpty(u)'
  <1>1. Cur(u)' = Cur(u) /\ (OnFiber(u)' <=> OnFiber(u))
    BY DEF Cur, OnFiber
  <1>2. \A f \in {ft[u].fiber, cb_fiber[u]} \ {NoFiber} : m_state'[f] = m_state[f] /\ m_cb'[f] = m_cb[f]
    BY DEF OnlyFiber, Holds, Shape, FiberAndThread
  <1>3. Cur(u) # NoFiber => Cur(u) \in {ft[u].fiber, cb_fiber[u]} \ {NoFiber}
    BY DEF Cur
  <1>4. CurState(u) /\ SpareEmpty(u)
    BY DEF FiberInv, HandsOrdered
  <1>5. CurState(u)'
    BY <1>1, <1>2, <1>3, <1>4 DEF CurState, OnFiber
  <1>6. SpareEmpty(u)'
    BY <1>1, <1>2, <1>4 DEF SpareEmpty
  <1> QED
    BY <1>5, <1>6

\* Fibers stay held once when the moving thread takes only fibers that
\* nobody held.
LEMMA HeldOnceStep ==
    ASSUME HeldOnce, NEW t \in Threads, OthersStay(t),
           \A f \in Fibers : Holds(t, f)' => Holds(t, f) \/ \A u \in Threads : ~Holds(u, f),
           ft'[t].fiber # NoFiber => ft'[t].fiber # cb_fiber'[t]
    PROVE  HeldOnce'
  <1>1. \A u \in Threads \ {t} : \A f \in Fibers : Holds(u, f)' <=> Holds(u, f)
    BY DEF OthersStay, Holds
  <1>2. ASSUME NEW f \in Fibers, NEW v \in Threads, NEW w \in Threads, Holds(v, f)', Holds(w, f)'
        PROVE  v = w
    BY <1>1, <1>2 DEF HeldOnce
  <1> QED
    BY <1>2 DEF HeldOnce, OthersStay

\* A list that stays the same stays a list of distinct tasks, unless a fiber
\* is unmade.
LEMMA TasksDistinctStep ==
    ASSUME Shape, FiberInv, UNCHANGED m_fibers,
           NEW t \in Threads, OthersStay(t),
           \A f \in Fibers : m_state[f] # "NONE" => m_state'[f] # "NONE",
           ft'[t].fiber # NoFiber => ft'[t].cb = NoCb
    PROVE  TasksDistinct'
  <1>1. \A i \in 1..Len(m_fibers) : m_fibers[i].fiber \in Fibers \cup {NoFiber}
    BY TaskType
  <1>2. TasksDistinct
    BY DEF FiberInv
  <1>3. \A u \in Threads : ft'[u].fiber # NoFiber => ft'[u].cb = NoCb
    BY <1>2 DEF TasksDistinct, OthersStay
  <1>4. ASSUME NEW i \in 1..Len(m_fibers), m_fibers[i].fiber # NoFiber
        PROVE  m_state'[m_fibers[i].fiber] # "NONE"
    BY <1>1, <1>2, <1>4 DEF TasksDistinct
  <1> QED
    BY <1>2, <1>3, <1>4 DEF TasksDistinct

\* Where a fiber that is a task may be held.
Leaves(t) == pc[t] \in {"hold", "swapout", "leave", "post"}

\* A step of thread t keeps FiberInv when it does so for the list and for
\* what t itself holds: one fiber g changes, that no other thread holds.
LEMMA ListStep ==
    ASSUME Shape, FiberInv, NEW t \in Threads, OthersStay(t),
           NEW g, OnlyFiber(g),
           g \in Fibers => m_state'[g] # "NONE" /\ \A u \in Threads \ {t} : ~Holds(u, g),
           \A f \in Fibers : Holds(t, f)' => Holds(t, f) \/ \A u \in Threads : ~Holds(u, f),
           ft'[t].fiber # NoFiber => ft'[t].fiber # cb_fiber'[t],
           CurState(t)', SpareEmpty(t)', TasksDistinct',
           \A f \in Fibers : Queued(f)' /\ Holds(t, f)' =>
               Cur(t)' = f /\ Leaves(t)' /\ m_state'[f] = "EXEC",
           \A f \in Fibers : \A u \in Threads \ {t} : Queued(f)' /\ Holds(u, f) =>
               Queued(f) \/ (Cur(u) = f /\ Leaves(u) /\ m_state[f] = "EXEC")
    PROVE  FiberInv'
  <1>1. HeldOnce'
    BY HeldOnceStep DEF FiberInv
  <1>2. QueuedWhenLeaving'
    <2> SUFFICES ASSUME NEW f \in Fibers, NEW u \in Threads, Queued(f)', Holds(u, f)'
                 PROVE  Cur(u)' = f /\ Leaves(u)' /\ m_state'[f] = "EXEC"
      BY DEF QueuedWhenLeaving, Leaves
    <2>1. CASE u = t
      BY <2>1
    <2>2. CASE u # t
      <3>1. Holds(u, f) /\ Cur(u)' = Cur(u) /\ (Leaves(u)' <=> Leaves(u))
        BY <2>2 DEF OthersStay, Holds, Cur, Leaves
      <3>2. m_state'[f] = m_state[f]
        BY <2>2, <3>1 DEF OnlyFiber
      <3>3. Cur(u) = f /\ Leaves(u) /\ m_state[f] = "EXEC"
        BY <2>2, <3>1 DEF FiberInv, QueuedWhenLeaving, Leaves
      <3> QED
        BY <3>1, <3>2, <3>3
    <2> QED
      BY <2>1, <2>2
  <1>3. HandsOrdered'
    <2> SUFFICES ASSUME NEW u \in Threads PROVE CurState(u)' /\ SpareEmpty(u)'
      BY DEF HandsOrdered
    <2> QED
      BY HandStays DEF OthersStay
  <1> QED
    BY <1>1, <1>2, <1>3 DEF FiberInv

\* The same for a step that leaves the list alone.
LEMMA ThreadStep ==
    ASSUME Shape, FiberInv, NEW t \in Threads, OthersStay(t), UNCHANGED m_fibers,
           NEW g, OnlyFiber(g),
           g \in Fibers => m_state'[g] # "NONE" /\ \A u \in Threads \ {t} : ~Holds(u, g),
           \A f \in Fibers : Holds(t, f)' => Holds(t, f) \/ \A u \in Threads : ~Holds(u, f),
           ft'[t].fiber # NoFiber => ft'[t].fiber # cb_fiber'[t] /\ ft'[t].cb = NoCb,
           CurState(t)', SpareEmpty(t)',
           \A f \in Fibers : Queued(f) /\ Holds(t, f)' =>
               Cur(t)' = f /\ Leaves(t)' /\ m_state'[f] = "EXEC"
    PROVE  FiberInv'
  <1>1. TasksDistinct'
    <2>1. \A f \in Fibers : m_state[f] # "NONE" => m_state'[f] # "NONE"
      BY DEF OnlyFiber
    <2> QED
      BY <2>1, TasksDistinctStep
  <1>2. \A f : Queued(f)' <=> Queued(f)
    BY DEF Queued
  <1> QED
    BY <1>1, <1>2, ListStep

\* A step that only moves thread t.
LEMMA Move ==
    ASSUME Shape, FiberInv, NEW t \in Threads, pc' = [pc EXCEPT ![t] = pc'[t]],
           UNCHANGED <<m_fibers, m_state, m_cb, ft, cb_fiber>>,
           CurState(t)',
           OnFiber(t) => OnFiber(t)',
           Leaves(t) => Leaves(t)' \/ m_state[Cur(t)] # "EXEC"
    PROVE  FiberInv'
  <1>1. OthersStay(t)
    BY DEF Shape, OthersStay
  <1>2. OnlyFiber(NoFiber) /\ NoFiber \notin Fibers
    BY FiberAssumption DEF OnlyFiber
  <1>3. \A f : Holds(t, f)' <=> Holds(t, f)
    BY DEF Holds
  <1>4. ft[t].fiber # NoFiber => ft[t].fiber # cb_fiber[t] /\ ft[t].cb = NoCb
    BY DEF FiberInv, HeldOnce, TasksDistinct
  <1>5. SpareEmpty(t)'
    BY DEF FiberInv, HandsOrdered, SpareEmpty
  <1>6. ASSUME NEW f \in Fibers, Queued(f), Holds(t, f)'
        PROVE  Cur(t)' = f /\ Leaves(t)' /\ m_state'[f] = "EXEC"
    BY <1>3, <1>6 DEF FiberInv, QueuedWhenLeaving, Leaves, Cur
  <1> QED
    BY <1>1, <1>2, <1>3, <1>4, <1>5, <1>6, ThreadStep

\* run() keeps FiberInv: the steps that only move the thread.
LEMMA FiberInvMoves ==
    ASSUME Shape, Hands, FiberInv, NEW t \in Threads,
           \/ ThreadRun(t) \/ TakeNothing(t) \/ DispatchFiber(t) \/ DispatchIdle(t)
           \/ Idle(t) \/ IdleOut(t) \/ SwapOut(t) \/ Leave(t) \/ PostReady(t)
           \/ YieldToHold(t)
    PROVE  FiberInv'
  <1> DEFINE Same == UNCHANGED <<m_fibers, m_state, m_cb, ft, cb_fiber>>
  <1>1. Same /\ pc' = [pc EXCEPT ![t] = pc'[t]]
    BY DEF Shape, ThreadRun, TakeNothing, DispatchFiber, DispatchIdle, Idle, IdleOut, SwapOut,
       Leave, PostReady, YieldToHold, FiberYieldToHold, Goto, fiberVars, taskVars, localVars
  <1>2. CurState(t)
    BY DEF FiberInv, HandsOrdered
  <1>3. Cur(t)' = Cur(t)
    BY <1>1 DEF Cur
  <1> HIDE DEF Same
  <1>4. CASE ThreadRun(t) \/ TakeNothing(t) \/ DispatchIdle(t) \/ Idle(t) \/ IdleOut(t)
    <2>1. pc[t] \in {"created", "take", "dispatch", "idle", "idleout"} /\ pc'[t] \in {"take", "dispatch", "idle", "idleout"}
      BY <1>4 DEF Shape, ThreadRun, TakeNothing, DispatchIdle, Idle, IdleOut, Goto
    <2>2. ft'[t].fiber = NoFiber
      BY <1>1, <1>4 DEF Same, ThreadRun, TakeNothing, DispatchIdle, Idle, IdleOut, Hands, HandsEmpty, NoTask
    <2>3. CurState(t)' /\ ~OnFiber(t) /\ ~Leaves(t)
      BY <2>1, <2>2 DEF CurState, OnFiber, Leaves
    <2> QED
      BY <1>1, <2>3, Move DEF Same
  <1>5. CASE DispatchFiber(t)
    <2>1. pc[t] = "dispatch" /\ pc'[t] = "swapin" /\ ft[t].fiber # NoFiber /\ ~Finished(ft[t].fiber)
      BY <1>5 DEF Shape, DispatchFiber, Goto
    <2>2. Cur(t) = ft[t].fiber /\ m_state[ft[t].fiber] \in {"INIT", "HOLD", "READY"}
      BY <1>2, <2>1, CurType DEF Cur, CurState, Finished, Shape, FiberTypeOK, State
    <2>3. CurState(t)' /\ ~OnFiber(t) /\ ~Leaves(t)
      BY <1>1, <1>3, <2>1, <2>2 DEF Same, CurState, OnFiber, Leaves
    <2> QED
      BY <1>1, <2>3, Move DEF Same
  <1>6. CASE SwapOut(t) \/ Leave(t) \/ YieldToHold(t)
    <2>1. \/ pc[t] \in {"swapout", "leave"} /\ pc'[t] \in {"leave", "post"}
          \/ pc[t] \in {"exec", "hold"} /\ pc'[t] = "swapout"
      BY <1>6 DEF Shape, SwapOut, Leave, YieldToHold, Running, Goto
    <2>2. CurState(t)' /\ OnFiber(t)' /\ Leaves(t)'
      BY <1>1, <1>2, <1>3, <2>1 DEF Same, CurState, OnFiber, Leaves
    <2> QED
      BY <1>1, <2>2, Move DEF Same
  <1>7. CASE PostReady(t)
    <2>1. pc[t] = "post" /\ pc'[t] = "requeue" /\ m_state[Cur(t)] = "READY"
      BY <1>7 DEF Shape, PostReady, Goto
    <2>2. CurState(t)' /\ OnFiber(t)'
      BY <1>1, <1>2, <1>3, <2>1 DEF Same, CurState, OnFiber
    <2> QED
      BY <1>1, <2>1, <2>2, Move DEF Same
  <1> QED
    BY <1>4, <1>5, <1>6, <1>7

\* The steps that change the state of the fiber a thread is on.
LEMMA FiberInvCur ==
    ASSUME Shape, Hands, FiberInv, NEW t \in Threads,
           SwapIn(t) \/ YieldToReady(t) \/ Return(t) \/ Throw(t)
    PROVE  FiberInv'
  <1> DEFINE f == Cur(t)
  <1>1. /\ pc[t] \in {"swapin", "exec"}
        /\ pc' = [pc EXCEPT ![t] = IF pc[t] = "swapin" THEN "exec" ELSE "swapout"]
        /\ UNCHANGED <<m_fibers, ft, cb_fiber>>
    BY DEF SwapIn, YieldToReady, Return, Throw, Running, Goto, taskVars, localVars
  <1>2. /\ f \in Fibers /\ Holds(t, f) /\ \A u \in Threads \ {t} : ~Holds(u, f)
        /\ ~Queued(f)
    <2>1. f # NoFiber
      BY <1>1 DEF FiberInv, HandsOrdered, CurState, OnFiber
    <2> HIDE DEF f
    <2>2. f \in Fibers /\ Holds(t, f) /\ \A u \in Threads \ {t} : ~Holds(u, f)
      BY <2>1, CurHeld DEF f
    <2> QED
      BY <1>1, <2>2 DEF FiberInv, QueuedWhenLeaving
  <1>3. /\ m_state' = [m_state EXCEPT ![f] = m_state'[f]]
        /\ m_state'[f] \in (IF pc[t] = "swapin" THEN {"EXEC"} ELSE {"READY", "TERM", "EXCEPT"})
        /\ OnlyFiber(f)
    <2>1. m_state \in [Fibers -> State] /\ m_cb \in [Fibers -> Cbs \cup {NoCb}]
      BY DEF Shape, FiberTypeOK
    <2> HIDE DEF f
    <2>2. CASE SwapIn(t)
      BY <1>2, <2>1, <2>2 DEF SwapIn, FiberSwapIn, OnlyFiber, f
    <2>3. CASE YieldToReady(t)
      BY <1>2, <2>1, <2>3 DEF YieldToReady, Running, FiberYieldToReady, OnlyFiber, f
    <2>4. CASE Return(t)
      BY <1>2, <2>1, <2>4 DEF Return, Running, MainFuncReturn, OnlyFiber, f
    <2>5. CASE Throw(t)
      BY <1>2, <2>1, <2>5 DEF Throw, MainFuncThrow, OnlyFiber, f
    <2> QED
      BY <2>2, <2>3, <2>4, <2>5
  <1>4. OthersStay(t) /\ Cur(t)' = f
    BY <1>1 DEF Shape, OthersStay, Cur
  <1> HIDE DEF f
  <1>5. /\ pc'[t] = (IF pc[t] = "swapin" THEN "exec" ELSE "swapout")
        /\ \A g : Holds(t, g)' <=> Holds(t, g)
        /\ ft[t].fiber # NoFiber => ft[t].fiber # cb_fiber[t] /\ ft[t].cb = NoCb
    BY <1>1 DEF Shape, Holds, FiberInv, HeldOnce, TasksDistinct
  <1>6. CurState(t)'
    BY <1>1, <1>2, <1>3, <1>4, <1>5, FiberAssumption DEF CurState, OnFiber
  <1>7. SpareEmpty(t)'
    <2>1. OnFiber(t) /\ OnFiber(t)' /\ SpareEmpty(t)
      BY <1>1, <1>5 DEF OnFiber, FiberInv, HandsOrdered
    <2>2. ft[t].fiber # NoFiber /\ cb_fiber[t] # NoFiber => cb_fiber[t] # f /\ cb_fiber[t] \in Fibers
      BY <1>5 DEF Shape, Cur, f
    <2> QED
      BY <1>1, <1>3, <2>1, <2>2 DEF SpareEmpty, OnlyFiber
  <1>8. ASSUME NEW g \in Fibers, Queued(g), Holds(t, g)' PROVE FALSE
    BY <1>1, <1>2, <1>5, <1>8 DEF FiberInv, QueuedWhenLeaving
  <1> QED
    BY <1>1, <1>2, <1>3, <1>4, <1>5, <1>6, <1>7, <1>8, ThreadStep

\* The end of a fiber's turn in run(), and of run().
LEMMA FiberInvPost ==
    ASSUME Shape, Hands, FiberInv, NEW t \in Threads,
           PostFinished(t) \/ PostHold(t) \/ DispatchSkip(t) \/ Break(t)
    PROVE  FiberInv'
  <1> DEFINE f == Cur(t)
  <1>1. /\ pc' = [pc EXCEPT ![t] = pc'[t]] /\ pc'[t] \in {"take", "exit"}
        /\ ft' = [ft EXCEPT ![t] = NoTask]
        /\ cb_fiber' = [cb_fiber EXCEPT ![t] = cb_fiber'[t]]
        /\ cb_fiber'[t] \in {cb_fiber[t], NoFiber}
        /\ UNCHANGED m_fibers
    <2>1. CASE PostFinished(t)
      BY <2>1 DEF Shape, PostFinished, Goto, taskVars
    <2>2. CASE PostHold(t)
      BY <2>2 DEF Shape, PostHold, DropCbFiber, Goto, taskVars
    <2>3. CASE DispatchSkip(t)
      BY <2>3 DEF Shape, DispatchSkip, Goto, taskVars
    <2>4. CASE Break(t)
      BY <2>4 DEF Shape, Break, Goto, taskVars
    <2> QED
      BY <2>1, <2>2, <2>3, <2>4
  <1>2. OthersStay(t) /\ ft'[t] = NoTask /\ ~OnFiber(t)' /\ \A g \in Fibers : Holds(t, g)' => g = cb_fiber[t]
    BY <1>1, FiberAssumption DEF Shape, OthersStay, Holds, OnFiber, NoTask
  <1>3. CurState(t)' /\ NoTask.fiber = NoFiber
    BY <1>1, <1>2 DEF CurState, OnFiber, NoTask
  <1>4. ASSUME NEW g, OnlyFiber(g),
               g \in Fibers => m_state'[g] # "NONE" /\ \A u \in Threads \ {t} : ~Holds(u, g),
               SpareEmpty(t)',
               cb_fiber'[t] # NoFiber => ~Queued(cb_fiber[t])
        PROVE  FiberInv'
    <2>1. \A h \in Fibers : Holds(t, h)' => Holds(t, h) /\ h = cb_fiber'[t]
      BY <1>1, <1>2, <1>3, FiberAssumption DEF Holds
    <2>2. \A h \in Fibers : ~(Queued(h) /\ Holds(t, h)')
      BY <1>1, <1>4, <2>1, FiberAssumption
    <2> QED
      BY <1>1, <1>2, <1>3, <1>4, <2>1, <2>2, ThreadStep
  <1>5. CASE DispatchSkip(t) \/ Break(t)
    <2>1. UNCHANGED <<m_state, m_cb>>
      BY <1>5 DEF DispatchSkip, Break, fiberVars
    <2>2. pc[t] = "dispatch" /\ SpareEmpty(t)
      BY <1>5 DEF DispatchSkip, Break, FiberInv, HandsOrdered
    <2>3. OnlyFiber(NoFiber) /\ NoFiber \notin Fibers
      BY <2>1, FiberAssumption DEF OnlyFiber
    <2>4. SpareEmpty(t)'
      BY <1>1, <2>1, <2>2 DEF SpareEmpty, OnFiber
    <2>5. cb_fiber[t] # NoFiber => ~Queued(cb_fiber[t])
      BY <2>2 DEF Shape, FiberInv, QueuedWhenLeaving, Holds
    <2> QED
      BY <1>1, <1>4, <2>3, <2>4, <2>5
  <1>6. CASE PostFinished(t) \/ PostHold(t)
    <2>1. pc[t] = "post" /\ f \in Fibers /\ \A u \in Threads \ {t} : ~Holds(u, f)
      <3>1. pc[t] = "post"
        BY <1>6 DEF PostFinished, PostHold
      <3>2. f # NoFiber
        BY <3>1 DEF FiberInv, HandsOrdered, CurState, OnFiber
      <3> QED
        BY <3>1, <3>2, CurHeld
    <2> HIDE DEF f
    <2>2. /\ OnlyFiber(f) /\ m_state'[f] # "NONE"
          /\ ft[t].fiber = NoFiber /\ cb_fiber'[t] # NoFiber =>
                f = cb_fiber[t] /\ m_state'[f] = "INIT" /\ m_cb'[f] = NoCb /\ Finished(f)
      <3>1. /\ m_state \in [Fibers -> State] /\ m_cb \in [Fibers -> Cbs \cup {NoCb}]
            /\ cb_fiber \in [Threads -> Fibers \cup {NoFiber}]
        BY DEF Shape, FiberTypeOK
      <3>2. ft[t].fiber = NoFiber => f = cb_fiber[t]
        BY DEF f, Cur
      <3>3. CASE PostFinished(t)
        <4>1. Finished(f) /\ (IF IsCbFiber(t) THEN Reset(f, NoCb) ELSE UNCHANGED fiberVars)
          BY <3>3 DEF PostFinished, f
        <4> QED
          BY <2>1, <3>1, <3>2, <4>1 DEF IsCbFiber, Reset, OnlyFiber, fiberVars, Finished
      <3>4. CASE PostHold(t)
        <4>1. StoreHold(f) /\ cb_fiber' = IF IsCbFiber(t) THEN [cb_fiber EXCEPT ![t] = NoFiber] ELSE cb_fiber
          BY <3>4 DEF PostHold, DropCbFiber, f
        <4> QED
          BY <2>1, <3>1, <4>1 DEF IsCbFiber, StoreHold, OnlyFiber
      <3> QED
        BY <1>6, <3>3, <3>4
    <2>3. SpareEmpty(t)
      BY DEF FiberInv, HandsOrdered
    <2>4. ft[t].fiber # NoFiber => f = ft[t].fiber /\ f # cb_fiber[t]
      BY DEF FiberInv, HeldOnce, f, Cur
    <2>5. SpareEmpty(t)'
      BY <1>1, <2>1, <2>2, <2>3, <2>4, FiberAssumption DEF SpareEmpty, OnlyFiber, Shape
    <2>6. cb_fiber'[t] # NoFiber => ~Queued(cb_fiber[t])
      <3>1. CASE ft[t].fiber = NoFiber
        BY <1>1, <2>1, <2>2, <3>1 DEF FiberInv, QueuedWhenLeaving, Holds, Finished
      <3>2. CASE ft[t].fiber # NoFiber
        BY <1>1, <2>4, <3>2 DEF Shape, FiberInv, QueuedWhenLeaving, Holds, f
      <3> QED
        BY <3>1, <3>2
    <2> QED
      BY <1>4, <2>1, <2>2, <2>5, <2>6
  <1> QED
    BY <1>5, <1>6

\* ft holds a callback: the fiber it gets is the thread's spare one, or new.
LEMMA CbFiber ==
    ASSUME Shape, Hands, FiberInv, NEW t \in Threads, DispatchCb(t)
    PROVE  \E g \in Fibers :
              /\ cb_fiber' = [cb_fiber EXCEPT ![t] = g]
              /\ OnlyFiber(g) /\ m_state'[g] = "INIT" /\ m_cb'[g] = ft[t].cb
              /\ m_state[g] = "INIT" => m_cb[g] = NoCb
              /\ ~Queued(g) /\ \A u \in Threads \ {t} : ~Holds(u, g)
              /\ Holds(t, g) \/ \A u \in Threads : ~Holds(u, g)
  <1>1. pc[t] = "dispatch" /\ ft[t].cb # NoCb /\ ft[t].fiber = NoFiber
    BY DEF DispatchCb, FiberInv, TasksDistinct
  <1>2. /\ m_state \in [Fibers -> State] /\ m_cb \in [Fibers -> Cbs \cup {NoCb}]
        /\ cb_fiber \in [Threads -> Fibers \cup {NoFiber}]
        /\ ft[t].cb \in Cbs \cup {NoCb}
    BY DEF Shape, FiberTypeOK, FiberAndThread
  <1>3. CASE cb_fiber[t] # NoFiber
    <2>1. Reset(cb_fiber[t], ft[t].cb) /\ UNCHANGED cb_fiber /\ cb_fiber[t] \in Fibers
      BY <1>2, <1>3 DEF DispatchCb
    <2>2. Holds(t, cb_fiber[t]) /\ \A u \in Threads \ {t} : ~Holds(u, cb_fiber[t])
      BY <2>1 DEF Holds, FiberInv, HeldOnce
    <2>3. ~Queued(cb_fiber[t])
      BY <1>1, <2>1, <2>2 DEF FiberInv, QueuedWhenLeaving
    <2>4. OnlyFiber(cb_fiber[t]) /\ m_state'[cb_fiber[t]] = "INIT" /\ m_cb'[cb_fiber[t]] = ft[t].cb
      BY <1>2, <2>1 DEF Reset, OnlyFiber
    <2>5. cb_fiber' = [cb_fiber EXCEPT ![t] = cb_fiber[t]]
      BY <1>2, <2>1
    <2>6. m_cb[cb_fiber[t]] = NoCb
      BY <1>1, <1>3 DEF FiberInv, HandsOrdered, SpareEmpty, OnFiber
    <2> QED
      BY <2>1, <2>2, <2>3, <2>4, <2>5, <2>6
  <1>4. CASE cb_fiber[t] = NoFiber
    <2>1. PICK g \in Fibers : Construct(g, ft[t].cb) /\ cb_fiber' = [cb_fiber EXCEPT ![t] = g]
      BY <1>4 DEF DispatchCb
    <2>2. \A u \in Threads : ~Holds(u, g)
      BY <2>1, HeldBuilt DEF Construct
    <2>3. ~Queued(g)
      <3>1. g # NoFiber
        BY FiberAssumption
      <3> QED
        BY <2>1, <3>1 DEF Construct, Queued, FiberInv, TasksDistinct
    <2>4. OnlyFiber(g) /\ m_state'[g] = "INIT" /\ m_cb'[g] = ft[t].cb /\ m_state[g] # "INIT"
      BY <1>2, <2>1 DEF Construct, OnlyFiber
    <2> QED
      BY <2>1, <2>2, <2>3, <2>4
  <1> QED
    BY <1>3, <1>4

\* A callback is put in a fiber that no other thread holds.
LEMMA FiberInvDispatchCb ==
    ASSUME Shape, Hands, FiberInv, NEW t \in Threads, DispatchCb(t)
    PROVE  FiberInv'
  <1>1. /\ pc[t] = "dispatch" /\ ft[t].cb # NoCb /\ ft[t].fiber = NoFiber
        /\ pc' = [pc EXCEPT ![t] = "swapin"]
        /\ ft' = [ft EXCEPT ![t] = NoTask]
        /\ UNCHANGED m_fibers
    BY DEF DispatchCb, Goto, taskVars, FiberInv, TasksDistinct
  <1>2. /\ m_state \in [Fibers -> State] /\ m_cb \in [Fibers -> Cbs \cup {NoCb}]
        /\ cb_fiber \in [Threads -> Fibers \cup {NoFiber}]
    BY DEF Shape, FiberTypeOK
  <1>3. PICK g \in Fibers :
          /\ cb_fiber' = [cb_fiber EXCEPT ![t] = g]
          /\ OnlyFiber(g) /\ m_state'[g] = "INIT"
          /\ ~Queued(g) /\ \A u \in Threads \ {t} : ~Holds(u, g)
          /\ Holds(t, g) \/ \A u \in Threads : ~Holds(u, g)
    BY CbFiber
  <1>4. /\ OthersStay(t) /\ ft'[t] = NoTask /\ cb_fiber'[t] = g /\ pc'[t] = "swapin"
        /\ NoTask.fiber = NoFiber /\ g # NoFiber
    BY <1>1, <1>2, <1>3, FiberAssumption DEF Shape, OthersStay, NoTask
  <1>5. Cur(t)' = g /\ \A f \in Fibers : Holds(t, f)' => f = g
    BY <1>4, FiberAssumption DEF Cur, Holds
  <1>6. CurState(t)' /\ SpareEmpty(t)'
    BY <1>3, <1>4, <1>5 DEF CurState, SpareEmpty, OnFiber
  <1> QED
    BY <1>1, <1>3, <1>4, <1>5, <1>6, ThreadStep

\* The first task a thread may take is not EXEC, so nobody holds its fiber.
LEMMA FiberInvTake ==
    ASSUME Shape, Hands, FiberInv, NEW t \in Threads, Take(t)
    PROVE  FiberInv'
  <1>1. PICK i \in 1..Len(m_fibers) :
          /\ Takeable(t, m_fibers[i])
          /\ ft' = [ft EXCEPT ![t] = m_fibers[i]]
          /\ m_fibers' = Without(m_fibers, i)
    BY DEF Take
  <1> DEFINE x == m_fibers[i]
  <1>2. /\ pc[t] = "take" /\ pc' = [pc EXCEPT ![t] = "dispatch"]
        /\ UNCHANGED <<m_state, m_cb, cb_fiber>>
        /\ ft[t] = NoTask /\ NoTask.fiber = NoFiber
    BY DEF Take, Goto, fiberVars, Hands, HandsEmpty, NoTask
  <1>3. x \in FiberAndThread /\ x.fiber \in Fibers \cup {NoFiber}
    BY TaskType
  <1>4. /\ Len(m_fibers) \in Nat /\ Len(m_fibers') = Len(m_fibers) - 1
        /\ \A k \in 1..Len(m_fibers') :
              m_fibers'[k] = IF k < i THEN m_fibers[k] ELSE m_fibers[k + 1]
    <2>1. m_fibers \in Seq(FiberAndThread)
      BY DEF Shape
    <2> QED
      BY <1>1, <2>1, WithoutProperties, LenProperties
  <1>5. \A k \in 1..Len(m_fibers') :
            \E j \in 1..Len(m_fibers) \ {i} :
                m_fibers'[k] = m_fibers[j] /\ j = IF k < i THEN k ELSE k + 1
    BY <1>4
  <1>6. x.fiber # NoFiber =>
          /\ x.cb = NoCb
          /\ m_state[x.fiber] \notin {"NONE", "EXEC"}
          /\ Queued(x.fiber)
          /\ \A u \in Threads : ~Holds(u, x.fiber)
    BY <1>1, <1>3 DEF Takeable, FiberInv, TasksDistinct, Queued, QueuedWhenLeaving
  <1> HIDE DEF x
  <1>7. /\ OthersStay(t) /\ ft'[t] = x /\ pc'[t] = "dispatch"
        /\ \A f \in Fibers : Holds(t, f)' => f = x.fiber \/ f = cb_fiber[t]
    BY <1>1, <1>2 DEF Shape, OthersStay, Holds, x
  <1>8. /\ x.fiber # NoFiber => x.fiber # cb_fiber[t]
        /\ \A f \in Fibers : Holds(t, f)' => Holds(t, f) \/ \A u \in Threads : ~Holds(u, f)
    BY <1>6, <1>7, FiberAssumption DEF Holds
  <1>9. CurState(t)' /\ SpareEmpty(t)'
    BY <1>2, <1>6, <1>7 DEF CurState, SpareEmpty, OnFiber, FiberInv, HandsOrdered
  <1>10. TasksDistinct'
    <2>1. ASSUME NEW k \in 1..Len(m_fibers'), m_fibers'[k].fiber # NoFiber
          PROVE  /\ m_fibers'[k].cb = NoCb
                 /\ m_state'[m_fibers'[k].fiber] # "NONE"
                 /\ \A l \in 1..Len(m_fibers') \ {k} : m_fibers'[l].fiber # m_fibers'[k].fiber
      <3>1. PICK j \in 1..Len(m_fibers) \ {i} :
                m_fibers'[k] = m_fibers[j] /\ j = IF k < i THEN k ELSE k + 1
        BY <1>5
      <3>2. ASSUME NEW l \in 1..Len(m_fibers') \ {k} PROVE m_fibers'[l].fiber # m_fibers'[k].fiber
        <4>1. PICK h \in 1..Len(m_fibers) \ {i} :
                m_fibers'[l] = m_fibers[h] /\ h = IF l < i THEN l ELSE l + 1
          BY <1>5
        <4>2. h # j
          BY <1>4, <3>1, <4>1
        <4> QED
          BY <2>1, <3>1, <4>1, <4>2 DEF FiberInv, TasksDistinct
      <3> QED
        BY <1>2, <2>1, <3>1, <3>2 DEF FiberInv, TasksDistinct
    <2>2. \A u \in Threads : ft'[u].fiber # NoFiber => ft'[u].cb = NoCb
      BY <1>6, <1>7 DEF OthersStay, FiberInv, TasksDistinct
    <2> QED
      BY <2>1, <2>2 DEF TasksDistinct
  <1>11. \A f \in Fibers : Queued(f)' => Queued(f) /\ f # x.fiber
    BY <1>5, FiberAssumption DEF Queued, x, FiberInv, TasksDistinct
  <1>12. ASSUME NEW f \in Fibers, Queued(f)', Holds(t, f)' PROVE FALSE
    <2>1. Queued(f) /\ Holds(t, f) /\ f = cb_fiber[t]
      BY <1>7, <1>11, <1>12 DEF Holds
    <2> QED
      BY <1>2, <2>1 DEF FiberInv, QueuedWhenLeaving
  <1>13. OnlyFiber(NoFiber) /\ NoFiber \notin Fibers
    BY <1>2, FiberAssumption DEF OnlyFiber
  <1> QED
    BY <1>2, <1>7, <1>8, <1>9, <1>10, <1>11, <1>12, <1>13, ListStep

\* The tasks of list s are fibers or callbacks, and no fiber is two of them.
Apart(s) ==
    \A i \in 1..Len(s) : s[i].fiber # NoFiber =>
        s[i].cb = NoCb /\ \A j \in 1..Len(s) \ {i} : s[j].fiber # s[i].fiber

\* scheduleNoLock() of a callback, or of a fiber that is no task yet.
LEMMA ScheduleApart ==
    ASSUME NEW s \in Seq(FiberAndThread), Apart(s), NEW x \in FiberAndThread,
           x.fiber # NoFiber => x.cb = NoCb /\ \A i \in 1..Len(s) : s[i].fiber # x.fiber
    PROVE  LET r == ScheduleNoLock(s, x) IN
           /\ r \in Seq(FiberAndThread)
           /\ Apart(r)
           /\ \A i \in 1..Len(r) : r[i] = x \/ \E j \in 1..Len(s) : r[i] = s[j]
  <1>1. CASE ScheduleNoLock(s, x) = s
    BY <1>1
  <1>2. CASE ScheduleNoLock(s, x) = Append(s, x)
    <2> DEFINE r == Append(s, x)
    <2>1. /\ r \in Seq(FiberAndThread) /\ Len(s) \in Nat /\ Len(r) = Len(s) + 1
          /\ \A i \in 1..Len(r) : r[i] = IF i <= Len(s) THEN s[i] ELSE x
      BY AppendProperties, LenProperties
    <2> HIDE DEF r
    <2>2. ASSUME NEW i \in 1..Len(r), r[i].fiber # NoFiber, NEW j \in 1..Len(r) \ {i}
          PROVE  r[i].cb = NoCb /\ r[j].fiber # r[i].fiber
      <3>1. CASE i <= Len(s) /\ j <= Len(s)
        BY <2>1, <2>2, <3>1 DEF Apart
      <3>2. CASE ~(i <= Len(s))
        <4>1. r[i] = x /\ r[j] = s[j] /\ j \in 1..Len(s)
          BY <2>1, <3>2
        <4> QED
          BY <2>2, <4>1
      <3>3. CASE i <= Len(s) /\ ~(j <= Len(s))
        <4>1. r[i] = s[i] /\ r[j] = x /\ i \in 1..Len(s)
          BY <2>1, <3>3
        <4> QED
          BY <2>2, <4>1 DEF Apart
      <3> QED
        BY <3>1, <3>2, <3>3
    <2>3. ASSUME NEW i \in 1..Len(r), r[i].fiber # NoFiber PROVE r[i].cb = NoCb
      BY <2>1, <2>3 DEF Apart
    <2>4. Apart(r)
      BY <2>2, <2>3 DEF Apart
    <2>5. \A i \in 1..Len(r) : r[i] = x \/ \E j \in 1..Len(s) : r[i] = s[j]
      BY <2>1
    <2> QED
      BY <1>2, <2>1, <2>4, <2>5 DEF r
  <1> QED
    BY <1>1, <1>2 DEF ScheduleNoLock

\* A step that schedules task x, a fiber that has been built or a callback.
LEMMA ScheduledDistinct ==
    ASSUME Shape, FiberInv, NEW x \in FiberAndThread, m_fibers' = ScheduleNoLock(m_fibers, x),
           x.fiber # NoFiber => x.cb = NoCb /\ ~Queued(x.fiber) /\ m_state'[x.fiber] # "NONE",
           \A f \in Fibers : m_state[f] # "NONE" => m_state'[f] # "NONE",
           \A t \in Threads : ft'[t].fiber # NoFiber => ft'[t].cb = NoCb
    PROVE  /\ TasksDistinct'
           /\ \A f \in Fibers : Queued(f)' => Queued(f) \/ f = x.fiber
  <1>1. m_fibers \in Seq(FiberAndThread) /\ Apart(m_fibers)
    BY DEF Shape, FiberInv, TasksDistinct, Apart
  <1>2. /\ m_fibers' \in Seq(FiberAndThread)
        /\ Apart(m_fibers')
        /\ \A i \in 1..Len(m_fibers') : m_fibers'[i] = x \/ \E j \in 1..Len(m_fibers) : m_fibers'[i] = m_fibers[j]
    BY <1>1, ScheduleApart DEF Queued
  <1>3. ASSUME NEW i \in 1..Len(m_fibers'), m_fibers'[i].fiber # NoFiber
        PROVE  m_state'[m_fibers'[i].fiber] # "NONE"
    <2>1. CASE m_fibers'[i] = x
      BY <1>3, <2>1
    <2>2. CASE \E j \in 1..Len(m_fibers) : m_fibers'[i] = m_fibers[j]
      BY <1>3, <2>2, TaskType DEF FiberInv, TasksDistinct
    <2> QED
      BY <1>2, <2>1, <2>2
  <1> QED
    BY <1>2, <1>3 DEF TasksDistinct, Apart, Queued

\* A READY fiber is put back in the list, out of the thread's hands.
LEMMA FiberInvRequeue ==
    ASSUME Shape, Hands, FiberInv, NEW t \in Threads, Requeue(t)
    PROVE  FiberInv'
  <1> DEFINE f == Cur(t)
             x == FiberTask(f, AnyThread)
  <1>1. /\ pc[t] = "requeue" /\ m_fibers' = ScheduleNoLock(m_fibers, x)
        /\ pc' = [pc EXCEPT ![t] = "take"]
        /\ ft' = [ft EXCEPT ![t] = NoTask]
        /\ cb_fiber' = [cb_fiber EXCEPT ![t] = IF ft[t].fiber = NoFiber THEN NoFiber ELSE cb_fiber[t]]
        /\ UNCHANGED <<m_state, m_cb>>
    BY DEF Shape, Requeue, Goto, DropCbFiber, IsCbFiber, fiberVars
  <1>2. /\ f \in Fibers /\ f # NoFiber /\ Holds(t, f) /\ m_state[f] = "READY"
        /\ \A u \in Threads \ {t} : ~Holds(u, f)
    <2>1. f # NoFiber /\ m_state[f] = "READY"
      BY <1>1 DEF FiberInv, HandsOrdered, CurState, OnFiber
    <2> QED
      BY <2>1, CurHeld
  <1>3. x \in FiberAndThread /\ x.fiber = f /\ x.cb = NoCb
    BY <1>2 DEF FiberTask, FiberAndThread
  <1> HIDE DEF f, x
  <1>4. ~Queued(f)
    BY <1>2 DEF FiberInv, QueuedWhenLeaving
  <1>5. /\ OthersStay(t) /\ ft'[t] = NoTask /\ NoTask.fiber = NoFiber /\ pc'[t] = "take"
        /\ cb_fiber'[t] = IF ft[t].fiber = NoFiber THEN NoFiber ELSE cb_fiber[t]
    BY <1>1 DEF Shape, OthersStay, NoTask
  <1>6. \A u \in Threads : ft'[u].fiber # NoFiber => ft'[u].cb = NoCb
    BY <1>5 DEF OthersStay, FiberInv, TasksDistinct
  <1>7. TasksDistinct' /\ \A h \in Fibers : Queued(h)' => Queued(h) \/ h = f
    BY <1>1, <1>2, <1>3, <1>4, <1>6, ScheduledDistinct
  <1>8. \A h \in Fibers : Holds(t, h)' => ft[t].fiber # NoFiber /\ h = cb_fiber[t] /\ h # f
    BY <1>5, FiberAssumption DEF Holds, f, Cur, FiberInv, HeldOnce
  <1>9. CurState(t)' /\ SpareEmpty(t)'
    BY <1>1, <1>5 DEF CurState, SpareEmpty, OnFiber, FiberInv, HandsOrdered
  <1>10. ASSUME NEW h \in Fibers, Queued(h)', Holds(t, h)' PROVE FALSE
    <2>1. Queued(h) /\ Holds(t, h) /\ h # f
      BY <1>7, <1>8, <1>10 DEF Holds
    <2> QED
      BY <2>1 DEF FiberInv, QueuedWhenLeaving, f
  <1>11. OnlyFiber(NoFiber) /\ NoFiber \notin Fibers
    BY <1>1, FiberAssumption DEF OnlyFiber
  <1>12. \A h \in Fibers : Holds(t, h)' => Holds(t, h)
    BY <1>8 DEF Holds
  <1>13. \A h \in Fibers : \A u \in Threads \ {t} : Queued(h)' /\ Holds(u, h) => Queued(h)
    BY <1>2, <1>7
  <1> QED
    BY <1>5, <1>7, <1>9, <1>10, <1>11, <1>12, <1>13, ListStep

\* switchTo() schedules the fiber the thread is on, which is EXEC and about
\* to yield.
LEMMA FiberInvSwitchTo ==
    ASSUME Shape, Hands, FiberInv, NEW t \in Threads, NEW thread \in Threads, SwitchTo(t, thread)
    PROVE  FiberInv'
  <1> DEFINE f == Cur(t)
             x == FiberTask(f, thread)
  <1>1. /\ pc[t] = "exec" /\ m_fibers' = ScheduleNoLock(m_fibers, x)
        /\ pc' = [pc EXCEPT ![t] = "hold"]
        /\ UNCHANGED <<m_state, m_cb, ft, cb_fiber>>
    BY DEF SwitchTo, Running, Goto, fiberVars, localVars
  <1>2. /\ f \in Fibers /\ f # NoFiber /\ Holds(t, f) /\ m_state[f] = "EXEC"
        /\ \A u \in Threads \ {t} : ~Holds(u, f)
    <2>1. f # NoFiber /\ m_state[f] = "EXEC"
      BY <1>1 DEF FiberInv, HandsOrdered, CurState, OnFiber
    <2> QED
      BY <2>1, CurHeld
  <1>3. x \in FiberAndThread /\ x.fiber = f /\ x.cb = NoCb
    BY <1>2 DEF FiberTask, FiberAndThread
  <1>4. Cur(t)' = f
    BY <1>1 DEF Cur
  <1> HIDE DEF f, x
  <1>5. ~Queued(f)
    BY <1>1, <1>2 DEF FiberInv, QueuedWhenLeaving
  <1>6. /\ OthersStay(t) /\ pc'[t] = "hold"
        /\ \A h : Holds(t, h)' <=> Holds(t, h)
        /\ ft[t].fiber # NoFiber => ft[t].fiber # cb_fiber[t]
        /\ \A u \in Threads : ft'[u].fiber # NoFiber => ft'[u].cb = NoCb
    BY <1>1 DEF Shape, OthersStay, Holds, FiberInv, HeldOnce, TasksDistinct
  <1>7. TasksDistinct' /\ \A h \in Fibers : Queued(h)' => Queued(h) \/ h = f
    BY <1>1, <1>2, <1>3, <1>5, <1>6, ScheduledDistinct
  <1>8. CurState(t)' /\ SpareEmpty(t)' /\ Leaves(t)'
    BY <1>1, <1>2, <1>4, <1>6 DEF CurState, SpareEmpty, OnFiber, FiberInv, HandsOrdered, Leaves
  <1>9. ASSUME NEW h \in Fibers, Queued(h)', Holds(t, h)' PROVE h = f
    BY <1>1, <1>6, <1>7, <1>9 DEF FiberInv, QueuedWhenLeaving
  <1>10. OnlyFiber(NoFiber) /\ NoFiber \notin Fibers
    BY <1>1, FiberAssumption DEF OnlyFiber
  <1>11. \A h \in Fibers : \A u \in Threads \ {t} : Queued(h)' /\ Holds(u, h) => Queued(h)
    BY <1>2, <1>7
  <1> QED
    BY <1>1, <1>2, <1>4, <1>6, <1>7, <1>8, <1>9, <1>10, <1>11, ListStep

\* A call of schedule(), with which no thread moves: the fibers that become
\* tasks are in nobody's hands, or leaving them.
LEMMA ScheduledStep ==
    ASSUME Shape, FiberInv, UNCHANGED <<pc, ft, cb_fiber>>, NEW t \in Threads,
           NEW g, OnlyFiber(g),
           g \in Fibers => m_state'[g] # "NONE" /\ \A u \in Threads : ~Holds(u, g),
           TasksDistinct',
           \A f \in Fibers : \A u \in Threads : Queued(f)' /\ Holds(u, f) =>
               Queued(f) \/ (Cur(u) = f /\ Leaves(u) /\ m_state[f] = "EXEC")
    PROVE  FiberInv'
  <1>1. /\ OthersStay(t)
        /\ \A u, f : Holds(u, f)' <=> Holds(u, f)
        /\ Cur(t)' = Cur(t) /\ (Leaves(t)' <=> Leaves(t))
    BY DEF OthersStay, Holds, Cur, Leaves
  <1>2. CurState(t)' /\ SpareEmpty(t)'
    BY HandStays
  <1>3. ft[t].fiber # NoFiber => ft[t].fiber # cb_fiber[t]
    BY DEF FiberInv, HeldOnce
  <1>4. ASSUME NEW f \in Fibers, Queued(f)', Holds(t, f)'
        PROVE  Cur(t)' = f /\ Leaves(t)' /\ m_state'[f] = "EXEC"
    <2>1. Cur(t) = f /\ Leaves(t) /\ m_state[f] = "EXEC"
      BY <1>1, <1>4 DEF FiberInv, QueuedWhenLeaving, Leaves
    <2> QED
      BY <1>1, <1>4, <2>1 DEF OnlyFiber
  <1> QED
    BY <1>1, <1>2, <1>3, <1>4, ListStep

\* Disciplined callers schedule a fiber that has yielded to hold, or has
\* finished, and that is no task already.
LEMMA FiberInvWake ==
    ASSUME Disciplined, Shape, Hands, FiberInv, NEW a \in Threads, NEW f \in Fibers,
           NEW thread \in Threads \cup {AnyThread}, Wake(a, f, thread)
    PROVE  FiberInv'
  <1> DEFINE x == FiberTask(f, thread)
  <1>1. /\ m_fibers' = ScheduleNoLock(m_fibers, x)
        /\ UNCHANGED <<m_state, m_cb, pc, ft, cb_fiber>>
        /\ m_state[f] # "NONE" /\ (Suspended(f) \/ Stale(f))
    BY DEF Wake, fiberVars, localVars
  <1>2. x \in FiberAndThread /\ x.fiber = f /\ x.cb = NoCb
    BY DEF FiberTask, FiberAndThread
  <1> HIDE DEF x
  <1>3. ~Queued(f)
    BY <1>1 DEF Suspended, Stale
  <1>4. TasksDistinct' /\ \A h \in Fibers : Queued(h)' => Queued(h) \/ h = f
    <2>1. \A u \in Threads : ft'[u].fiber # NoFiber => ft'[u].cb = NoCb
      BY <1>1 DEF FiberInv, TasksDistinct
    <2> QED
      BY <1>1, <1>2, <1>3, <2>1, ScheduledDistinct
  <1>5. ASSUME NEW u \in Threads, Holds(u, f)
        PROVE  Cur(u) = f /\ Leaves(u) /\ m_state[f] = "EXEC"
    <2>1. f # NoFiber /\ CurState(u) /\ SpareEmpty(u)
      BY FiberAssumption DEF FiberInv, HandsOrdered
    <2>2. m_state[f] # "INIT" /\ (Finished(f) => Cur(u) # f)
      BY <1>1 DEF Suspended, Stale, Finished
    <2>3. Cur(u) = f /\ (ft[u].fiber = NoFiber => OnFiber(u))
      BY <1>5, <2>1, <2>2 DEF Holds, SpareEmpty, Cur
    <2>4. pc[u] = "dispatch" \/ OnFiber(u)
      <3>1. ft[u].fiber # NoFiber => ft[u] # NoTask
        BY DEF NoTask
      <3> QED
        BY <2>3, <3>1 DEF Shape, PC, Hands, HandsEmpty, OnFiber
    <2>5. m_state[f] = "HOLD" => ~InHand(f)
      BY <1>1 DEF Suspended, Stale, Finished
    <2>6. m_state[f] \in {"HOLD", "EXEC"}
      BY <1>1, <2>2, <2>3 DEF Suspended, Stale
    <2>7. m_state[f] = "EXEC"
      BY <2>1, <2>3, <2>4, <2>5, <2>6 DEF CurState, OnFiber, InHand
    <2>8. PICK v \in Threads : pc[v] \in {"swapout", "leave", "post"} /\ Cur(v) = f
      BY <1>1, <2>2, <2>3, <2>7 DEF Suspended, Stale
    <2>9. Holds(v, f)
      BY <2>1, <2>8 DEF Holds, Cur
    <2>10. v = u
      BY <1>5, <2>9 DEF FiberInv, HeldOnce
    <2> QED
      BY <2>3, <2>7, <2>8, <2>10 DEF Leaves
  <1>6. OnlyFiber(NoFiber) /\ NoFiber \notin Fibers
    BY <1>1, FiberAssumption DEF OnlyFiber
  <1>7. \A h \in Fibers : \A u \in Threads : Queued(h)' /\ Holds(u, h) =>
               Queued(h) \/ (Cur(u) = h /\ Leaves(u) /\ m_state[h] = "EXEC")
    BY <1>4, <1>5
  <1> QED
    BY <1>1, <1>4, <1>6, <1>7, ScheduledStep

\* A callback becomes a task: no fiber does.
LEMMA FiberInvScheduleCb ==
    ASSUME Shape, FiberInv, NEW t \in Threads,
           UNCHANGED <<fiberVars, pc, localVars>>,
           \/ \E c \in Cbs, thread \in Threads \cup {AnyThread} :
                 m_fibers' = ScheduleNoLock(m_fibers, CbTask(c, thread))
           \/ \E c, d \in Cbs : m_fibers' = ScheduleNoLock(ScheduleNoLock(m_fibers, CbTask(c, AnyThread)),
                                                           CbTask(d, AnyThread))
    PROVE  FiberInv'
  <1>1. UNCHANGED <<m_state, m_cb, pc, ft, cb_fiber>>
    BY DEF fiberVars, localVars
  <1>2. ASSUME NEW c \in Cbs, NEW thread \in Threads \cup {AnyThread}
        PROVE  CbTask(c, thread) \in FiberAndThread /\ CbTask(c, thread).fiber = NoFiber
    BY DEF CbTask, FiberAndThread
  <1>3. m_fibers \in Seq(FiberAndThread) /\ Apart(m_fibers)
    BY DEF Shape, FiberInv, TasksDistinct, Apart
  <1>4. /\ Apart(m_fibers')
        /\ \A i \in 1..Len(m_fibers') :
              m_fibers'[i].fiber = NoFiber \/ \E j \in 1..Len(m_fibers) : m_fibers'[i] = m_fibers[j]
    <2>1. CASE \E c \in Cbs, thread \in Threads \cup {AnyThread} :
                  m_fibers' = ScheduleNoLock(m_fibers, CbTask(c, thread))
      <3>1. PICK c \in Cbs, thread \in Threads \cup {AnyThread} :
                  m_fibers' = ScheduleNoLock(m_fibers, CbTask(c, thread))
        BY <2>1
      <3> DEFINE x == CbTask(c, thread)
      <3>2. x \in FiberAndThread /\ x.fiber = NoFiber
        BY <1>2
      <3> HIDE DEF x
      <3>3. LET r == ScheduleNoLock(m_fibers, x) IN
            /\ Apart(r)
            /\ \A i \in 1..Len(r) : r[i] = x \/ \E j \in 1..Len(m_fibers) : r[i] = m_fibers[j]
        BY <1>3, <3>2, ScheduleApart
      <3>4. m_fibers' = ScheduleNoLock(m_fibers, x)
        BY <3>1 DEF x
      <3> QED
        BY <3>2, <3>3, <3>4
    <2>2. CASE \E c, d \in Cbs :
                  m_fibers' = ScheduleNoLock(ScheduleNoLock(m_fibers, CbTask(c, AnyThread)), CbTask(d, AnyThread))
      <3>1. PICK c \in Cbs, d \in Cbs :
                  m_fibers' = ScheduleNoLock(ScheduleNoLock(m_fibers, CbTask(c, AnyThread)), CbTask(d, AnyThread))
        BY <2>2
      <3> DEFINE x == CbTask(c, AnyThread)
                 y == CbTask(d, AnyThread)
                 q == ScheduleNoLock(m_fibers, x)
      <3>2. /\ x \in FiberAndThread /\ x.fiber = NoFiber
            /\ y \in FiberAndThread /\ y.fiber = NoFiber
        BY <1>2
      <3>3. m_fibers' = ScheduleNoLock(q, y)
        BY <3>1
      <3> HIDE DEF x, y
      <3>4. /\ q \in Seq(FiberAndThread) /\ Apart(q)
            /\ \A i \in 1..Len(q) : q[i] = x \/ \E j \in 1..Len(m_fibers) : q[i] = m_fibers[j]
        BY <1>3, <3>2, ScheduleApart
      <3> HIDE DEF q
      <3>5. LET r == ScheduleNoLock(q, y) IN
            /\ Apart(r)
            /\ \A i \in 1..Len(r) : r[i] = y \/ \E j \in 1..Len(q) : r[i] = q[j]
        BY <3>2, <3>4, ScheduleApart
      <3> QED
        BY <3>2, <3>3, <3>4, <3>5
    <2> QED
      BY <2>1, <2>2
  <1>5. ASSUME NEW f \in Fibers, Queued(f)' PROVE Queued(f)
    BY <1>4, <1>5, FiberAssumption DEF Queued
  <1>6. TasksDistinct'
    <2>1. ASSUME NEW i \in 1..Len(m_fibers'), m_fibers'[i].fiber # NoFiber
          PROVE  m_state'[m_fibers'[i].fiber] # "NONE"
      BY <1>1, <1>4, <2>1 DEF FiberInv, TasksDistinct
    <2>2. \A u \in Threads : ft'[u].fiber # NoFiber => ft'[u].cb = NoCb
      BY <1>1 DEF FiberInv, TasksDistinct
    <2> QED
      BY <1>4, <2>1, <2>2 DEF TasksDistinct, Apart
  <1>7. OnlyFiber(NoFiber) /\ NoFiber \notin Fibers
    BY <1>1, FiberAssumption DEF OnlyFiber
  <1> QED
    BY <1>1, <1>5, <1>6, <1>7, ScheduledStep

\* A fiber is built and becomes a task.
LEMMA FiberInvScheduleFiber ==
    ASSUME Shape, Hands, FiberInv, NEW a \in Threads, NEW f \in Fibers, NEW c \in Cbs,
           NEW thread \in Threads \cup {AnyThread}, ScheduleFiber(a, f, c, thread)
    PROVE  FiberInv'
  <1> DEFINE x == FiberTask(f, thread)
  <1>1. /\ m_fibers' = ScheduleNoLock(m_fibers, x)
        /\ UNCHANGED <<pc, ft, cb_fiber>> /\ Construct(f, c)
    BY DEF ScheduleFiber, localVars
  <1>2. x \in FiberAndThread /\ x.fiber = f /\ x.cb = NoCb /\ f # NoFiber
    BY FiberAssumption DEF FiberTask, FiberAndThread
  <1> HIDE DEF x
  <1>3. OnlyFiber(f) /\ m_state'[f] = "INIT" /\ m_state[f] = "NONE"
    BY <1>1 DEF Construct, OnlyFiber, Shape, FiberTypeOK
  <1>4. \A u \in Threads : ~Holds(u, f)
    BY <1>3, HeldBuilt
  <1>5. ~Queued(f)
    BY <1>2, <1>3 DEF Queued, FiberInv, TasksDistinct
  <1>6. TasksDistinct' /\ \A h \in Fibers : Queued(h)' => Queued(h) \/ h = f
    <2>1. \A u \in Threads : ft'[u].fiber # NoFiber => ft'[u].cb = NoCb
      BY <1>1 DEF FiberInv, TasksDistinct
    <2>2. \A h \in Fibers : m_state[h] # "NONE" => m_state'[h] # "NONE"
      BY <1>3 DEF OnlyFiber
    <2> QED
      BY <1>1, <1>2, <1>3, <1>5, <2>1, <2>2, ScheduledDistinct
  <1> QED
    BY <1>1, <1>3, <1>4, <1>6, ScheduledStep

\* start(), stop() and the destructor move threads that are not on a fiber.
LEMMA FiberInvOwner ==
    ASSUME Shape, Hands, FiberInv, OwnerStep
    PROVE  FiberInv'
  <1>1. UNCHANGED <<m_fibers, m_state, m_cb, ft, cb_fiber>>
    BY Zenon DEF OwnerStep, ApiStep, Start, StopBegin, Destroy, StartThread, StartDone, StopNoThreads,
       StopSet, StopRoot, RootCall, StopSwap, StopJoin, Joined, fiberVars, taskVars, localVars
  <1>2. ASSUME NEW t \in Threads, pc[t] \in {"none", "exit"}, pc' = [pc EXCEPT ![t] = pc'[t]],
               pc'[t] \in {"take", "created"}
        PROVE  FiberInv'
    <2>1. ft[t].fiber = NoFiber
      BY <1>2 DEF Hands, HandsEmpty, NoTask
    <2>2. CurState(t)' /\ ~OnFiber(t) /\ ~Leaves(t)
      BY <1>1, <1>2, <2>1 DEF CurState, OnFiber, Leaves
    <2> QED
      BY <1>1, <1>2, <2>2, Move
  <1>3. CASE UNCHANGED pc
    <2>1. Caller \in Threads /\ CurState(Caller)
      BY DEF Threads, FiberInv, HandsOrdered
    <2>2. CurState(Caller)' /\ (OnFiber(Caller)' <=> OnFiber(Caller)) /\ (Leaves(Caller)' <=> Leaves(Caller))
      BY <1>1, <1>3, <2>1 DEF CurState, OnFiber, Leaves, Cur
    <2>3. pc' = [pc EXCEPT ![Caller] = pc'[Caller]]
      BY <1>3, <2>1 DEF Shape
    <2> QED
      BY <1>1, <2>1, <2>2, <2>3, Move
  <1>4. CASE \E w \in Workers, ran \in BOOLEAN : StartThread(w, ran)
    <2>1. PICK w \in Workers, ran \in BOOLEAN : StartThread(w, ran)
      BY <1>4
    <2>2. w \in Threads
      BY DEF Threads
    <2>3. pc[w] = "none" /\ pc' = [pc EXCEPT ![w] = pc'[w]] /\ pc'[w] \in {"take", "created"}
      BY <2>1, <2>2 DEF StartThread, Goto, Shape
    <2> QED
      BY <1>2, <2>2, <2>3
  <1>5. CASE StopRoot /\ RootCall
    <2>1. Caller \in Threads
      BY DEF Threads
    <2>2. pc[Caller] \in {"none", "exit"}
      BY <1>5 DEF StopRoot, Hands, CallerInRoot
    <2>3. pc' = [pc EXCEPT ![Caller] = pc'[Caller]] /\ pc'[Caller] = "take"
      BY <1>5, <2>1 DEF RootCall, Goto, Shape
    <2> QED
      BY <1>2, <2>1, <2>2, <2>3
  <1> QED
    BY <1>3, <1>4, <1>5, Zenon DEF OwnerStep, ApiStep, Start, StopBegin, Destroy, StartDone, StopNoThreads,
       StopSet, StopRoot, StopSwap, StopJoin, Joined

\* Every step that disciplined callers allow keeps FiberInv.
LEMMA FiberInvNext ==
    ASSUME Disciplined, CountInv, FiberInv, [Next]_vars
    PROVE  FiberInv'
  <1>1. Shape /\ Hands
    BY CountInvParts
  <1>2. ASSUME NEW t \in Threads, RunStep(t) \/ CallbackStep(t) PROVE FiberInv'
    BY <1>1, <1>2, FiberInvMoves, FiberInvCur, FiberInvPost, FiberInvDispatchCb, FiberInvTake,
       FiberInvRequeue, FiberInvSwitchTo DEF RunStep, CallbackStep
  <1>3. ASSUME NEW a \in Threads, ScheduleStep(a) PROVE FiberInv'
    <2>1. CASE \E c \in Cbs, thread \in Threads \cup {AnyThread} : ScheduleCb(a, c, thread)
      BY <1>1, <2>1, FiberInvScheduleCb DEF ScheduleCb
    <2>2. CASE \E c, d \in Cbs : ScheduleBatch(a, c, d)
      BY <1>1, <2>2, FiberInvScheduleCb DEF ScheduleBatch
    <2>3. CASE \/ \E f \in Fibers, c \in Cbs, thread \in Threads \cup {AnyThread} :
                     ScheduleFiber(a, f, c, thread)
               \/ \E f \in Fibers, thread \in Threads \cup {AnyThread} : Wake(a, f, thread)
      BY <1>1, <2>3, FiberInvScheduleFiber, FiberInvWake
    <2> QED
      BY <1>3, <2>1, <2>2, <2>3 DEF ScheduleStep
  <1>4. CASE UNCHANGED vars
    <2>1. Caller \in Threads /\ CurState(Caller)
      BY DEF Threads, FiberInv, HandsOrdered
    <2>2. UNCHANGED <<m_fibers, m_state, m_cb, ft, cb_fiber, pc>>
      BY <1>4 DEF vars, fiberVars, taskVars, localVars
    <2>3. CurState(Caller)' /\ (OnFiber(Caller)' <=> OnFiber(Caller)) /\ (Leaves(Caller)' <=> Leaves(Caller))
      BY <2>1, <2>2 DEF CurState, OnFiber, Leaves, Cur
    <2>4. pc' = [pc EXCEPT ![Caller] = pc'[Caller]]
      BY <1>1, <2>1, <2>2 DEF Shape
    <2> QED
      BY <1>1, <2>1, <2>2, <2>3, <2>4, Move
  <1> QED
    BY <1>1, <1>2, <1>3, <1>4, FiberInvOwner DEF Next, Step, Over

\* With disciplined callers list and hands stay apart: a fiber is one task
\* and in one hand, and one that is both is still on its way back to run().
THEOREM FibersKept == ASSUME Disciplined PROVE Spec => []FiberInv
  <1>1. CountInv /\ FiberInv /\ [Next]_vars => CountInv' /\ FiberInv'
    BY CountInvNext, FiberInvNext
  <1> QED
    BY <1>1, CountInvInit, FiberInvInit, PTL DEF Spec

\* With disciplined callers a fiber is in the hands of at most one thread of
\* the pool, for any number of threads, fibers and callbacks: nobody takes a
\* fiber that another thread is still leaving.
THEOREM FibersExclusive == ASSUME Disciplined PROVE Spec => []FiberExclusive
  <1>1. CountInv /\ FiberInv => FiberExclusive
    <2> SUFFICES ASSUME CountInv, FiberInv, NEW t \in Threads, NEW u \in Threads,
                        t # u, Cur(t) # NoFiber, Cur(t) = Cur(u)
                 PROVE  FALSE
      BY DEF FiberExclusive
    <2> QED
      BY CurHeld, CountInvParts
  <1>2. Spec => []CountInv
    BY CountsKept
  <1> QED
    BY <1>1, <1>2, FibersKept, PTL

-----------------------------------------------------------------------------
(***************************************************************************)
(* The assertions.                                                         *)
(***************************************************************************)

\* Only stop() puts the caller in run(), and a second stop() is not made.
LEMMA RootFreshNext ==
    ASSUME UseCaller => MaxStops <= 1, CountInv, RootFresh, [Next]_vars
    PROVE  RootFresh'
  <1>1. Shape /\ Hands /\ MaxStops \in Nat /\ Caller \in Threads /\ Caller \notin Workers
    BY CountInvParts, SchedulerAssumption DEF Threads
  <1>2. CASE UNCHANGED vars
    BY <1>2 DEF vars, controlVars, RootFresh
  <1>3. ASSUME NEW t \in Threads, RunStep(t) \/ CallbackStep(t) PROVE RootFresh'
    <2>1. /\ pc[t] \notin {"none", "exit"}
          /\ \A u \in Threads \ {t} : pc'[u] = pc[u]
          /\ api' = api \/ (t = Caller /\ api' = "stopSwap")
          /\ UNCHANGED stops
      <3>1. UNCHANGED stops
        BY <1>3, Zenon DEF RunStep, ThreadRun, Take, TakeNothing, DispatchFiber, DispatchCb,
           DispatchSkip, DispatchIdle, Break, Idle, IdleOut, SwapIn, SwapOut, Leave,
           PostReady, Requeue, PostFinished, PostHold, CallbackStep, YieldToHold, YieldToReady,
           Return, Throw, SwitchTo, controlVars
      <3> QED
        BY <1>1, <1>3, <3>1, RunStepFrame
    <2> QED
      BY <1>1, <2>1 DEF RootFresh
  <1>4. ASSUME NEW a \in Threads, ScheduleStep(a) PROVE RootFresh'
    BY <1>4 DEF ScheduleStep, ScheduleCb, ScheduleFiber, ScheduleBatch, Wake, RootFresh, controlVars
  <1>5. CASE StopBegin
    BY <1>1, <1>5 DEF StopBegin, RootFresh, Shape
  <1>6. CASE OwnerStep /\ ~StopBegin
    <2>1. CASE StopRoot
      BY <1>1, <2>1 DEF StopRoot, RootCall, Goto, RootFresh, Shape
    <2>2. CASE \E w \in Workers, ran \in BOOLEAN : StartThread(w, ran)
      <3>1. PICK w \in Workers, ran \in BOOLEAN : StartThread(w, ran)
        BY <2>2
      <3>2. pc'[Caller] = pc[Caller] /\ UNCHANGED <<api, stops>>
        BY <1>1, <3>1 DEF StartThread, Goto, Shape
      <3> QED
        BY <3>2 DEF RootFresh
    <2>3. CASE Start \/ Destroy \/ StartDone \/ StopNoThreads \/ StopSet \/ StopSwap \/ StopJoin
      BY <1>1, <2>3 DEF Start, Destroy, StartDone, StopNoThreads, StopSet, StopSwap, StopJoin, RootFresh
    <2> QED
      BY <1>6, <2>1, <2>2, <2>3 DEF OwnerStep, ApiStep
  <1> QED
    BY <1>2, <1>3, <1>4, <1>5, <1>6 DEF Next, Step, Over

\* Every assertion the code makes holds when it is evaluated.
LEMMA NoAbortNext ==
    ASSUME Disciplined, CountInv, FiberInv, PoolInv, RootFresh, NoAbort, [Next]_vars
    PROVE  NoAbort'
  <1>1. Shape /\ Hands
    BY CountInvParts
  <1>2. CASE UNCHANGED vars
    BY <1>2 DEF vars, NoAbort
  <1>3. ASSUME NEW t \in Threads, RunStep(t) PROVE NoAbort'
    <2>1. CASE SwapIn(t)
      BY <2>1 DEF SwapIn, CanSwapIn, Finished, Check, NoAbort, FiberInv, HandsOrdered, CurState
    <2>2. CASE DispatchCb(t)
      <3>1. cb_fiber[t] # NoFiber => m_state[cb_fiber[t]] = "INIT"
        BY <2>2 DEF DispatchCb, FiberInv, HandsOrdered, SpareEmpty, OnFiber
      <3> QED
        BY <2>2, <3>1 DEF DispatchCb, CanReset, Check, NoAbort
    <2>3. CASE RunStep(t) /\ ~SwapIn(t) /\ ~DispatchCb(t)
      BY <2>3, Zenon DEF RunStep, ThreadRun, Take, TakeNothing, DispatchFiber,
         DispatchSkip, DispatchIdle, Break, Idle, IdleOut, SwapOut, Leave,
         PostReady, Requeue, PostFinished, PostHold, NoAbort
    <2> QED
      BY <1>3, <2>1, <2>2, <2>3
  <1>4. ASSUME NEW t \in Threads, CallbackStep(t) PROVE NoAbort'
    <2>1. CASE YieldToHold(t) \/ YieldToReady(t)
      <3>1. pc[t] \in {"exec", "hold"}
        BY <2>1 DEF YieldToHold, YieldToReady, Running
      <3>2. CanYield(Cur(t))
        BY <3>1 DEF CanYield, FiberInv, HandsOrdered, CurState
      <3> QED
        BY <2>1, <3>2 DEF YieldToHold, YieldToReady, Check, NoAbort
    <2>2. CASE Return(t) \/ Throw(t) \/ \E thread \in Threads : SwitchTo(t, thread)
      BY <2>2 DEF Return, Throw, SwitchTo, NoAbort
    <2> QED
      BY <1>4, <2>1, <2>2 DEF CallbackStep
  <1>5. ASSUME NEW a \in Threads, ScheduleStep(a) PROVE NoAbort'
    BY <1>5 DEF ScheduleStep, ScheduleCb, ScheduleFiber, ScheduleBatch, Wake, NoAbort
  <1>6. ASSUME OwnerStep PROVE NoAbort'
    <2>1. CASE Start
      <3>1. m_threads = {}
        BY <2>1 DEF Start, PoolInv, NoAbort
      <3> QED
        BY <2>1, <3>1 DEF Start, Check, NoAbort
    <2>2. CASE StopRoot
      BY <2>2 DEF StopRoot, RootCall, Check, RootFresh, NoAbort
    <2>3. CASE Destroy
      BY <2>3 DEF Destroy, Check, NoAbort
    <2>4. CASE OwnerStep /\ ~Start /\ ~StopRoot /\ ~Destroy
      BY <2>4 DEF OwnerStep, ApiStep, StopBegin, StartThread, StartDone, StopNoThreads,
         StopSet, StopSwap, StopJoin, NoAbort
    <2> QED
      BY <1>6, <2>1, <2>2, <2>3, <2>4
  <1> QED
    BY <1>2, <1>3, <1>4, <1>5, <1>6 DEF Next, Step, Over

\* With disciplined callers no assertion of fiber.cpp or scheduler.cpp
\* fails, when a scheduler that runs tasks on its caller is stopped once:
\* m_rootFiber is not built again, and a second stop() may call it finished.
THEOREM AssertionsHold ==
    ASSUME Disciplined, UseCaller => MaxStops <= 1
    PROVE  Spec => []NoAbort
  <1> DEFINE Inv == CountInv /\ PoolInv /\ FiberInv /\ RootFresh /\ NoAbort
  <1>1. Init => RootFresh /\ NoAbort
    BY DEF Init, RootFresh, NoAbort, Threads
  <1>2. Init => Inv
    BY <1>1, CountInvInit, PoolInvInit, FiberInvInit
  <1>3. Inv /\ [Next]_vars => Inv'
    BY CountInvNext, PoolInvNext, FiberInvNext, RootFreshNext, NoAbortNext
  <1>4. Inv => NoAbort
    OBVIOUS
  <1> QED
    BY <1>2, <1>3, <1>4, PTL DEF Spec

-----------------------------------------------------------------------------
(***************************************************************************)
(* The threads that leave.                                                 *)
(***************************************************************************)

\* Without YieldToReady no fiber is READY, and run() puts none back.
NoReady ==
    /\ \A f \in Fibers : m_state[f] # "READY"
    /\ \A t \in Threads : pc[t] # "requeue" /\ (OnFiber(t) => Cur(t) # NoFiber)

\* A scheduler that has been constructed has no READY fiber.
LEMMA NoReadyInit == Init => NoReady
  BY DEF Init, FiberInit, NoReady, OnFiber

\* The steps of thread t that leave the fibers alone keep NoReady.
LEMMA NoReadyMove ==
    ASSUME Shape, NoReady, NEW t \in Threads, OthersStay(t), UNCHANGED m_state,
           pc'[t] # "requeue", OnFiber(t)' => Cur(t)' # NoFiber
    PROVE  NoReady'
  <1>1. ASSUME NEW u \in Threads PROVE pc'[u] # "requeue" /\ (OnFiber(u)' => Cur(u)' # NoFiber)
    BY DEF OthersStay, NoReady, OnFiber, Cur
  <1> QED
    BY <1>1 DEF NoReady

\* Every step keeps NoReady when the callbacks do not call YieldToReady.
LEMMA NoReadyNext ==
    ASSUME ~ReadyYields, CountInv, NoReady, [Next]_vars
    PROVE  NoReady'
  <1>1. Shape /\ Hands
    BY CountInvParts
  <1>2. /\ m_state \in [Fibers -> State] /\ ft \in [Threads -> FiberAndThread]
        /\ pc \in [Threads -> PC] /\ cb_fiber \in [Threads -> Fibers \cup {NoFiber}]
    BY <1>1 DEF Shape, FiberTypeOK
  <1>3. ASSUME UNCHANGED <<m_state, pc, ft, cb_fiber>> PROVE NoReady'
    BY <1>3 DEF NoReady, OnFiber, Cur
  <1>4. CASE UNCHANGED vars
    BY <1>3, <1>4 DEF vars, fiberVars, localVars
  <1>5. ASSUME NEW t \in Threads, RunStep(t) \/ CallbackStep(t) PROVE NoReady'
    <2>1. CASE \/ ThreadRun(t) \/ TakeNothing(t) \/ DispatchIdle(t) \/ Idle(t) \/ IdleOut(t)
               \/ Take(t) \/ DispatchSkip(t) \/ Break(t)
      <3>1. /\ OthersStay(t) /\ UNCHANGED m_state
            /\ pc'[t] \in {"take", "dispatch", "idle", "idleout", "exit"}
        BY <1>2, <2>1 DEF ThreadRun, TakeNothing, DispatchIdle, Idle, IdleOut, Take, DispatchSkip,
           Break, Goto, OthersStay, localVars, fiberVars
      <3> QED
        BY <1>1, <3>1, NoReadyMove DEF OnFiber
    <2>2. CASE DispatchFiber(t)
      <3>1. /\ OthersStay(t) /\ UNCHANGED <<m_state, ft, cb_fiber>>
            /\ pc'[t] = "swapin" /\ ft[t].fiber # NoFiber
        BY <1>2, <2>2 DEF DispatchFiber, Goto, OthersStay, localVars, fiberVars
      <3> QED
        BY <1>1, <3>1, NoReadyMove DEF Cur
    <2>3. CASE \/ SwapOut(t) \/ Leave(t) \/ YieldToHold(t)
               \/ \E thread \in Threads : SwitchTo(t, thread)
      <3>1. /\ OthersStay(t) /\ UNCHANGED <<m_state, ft, cb_fiber>>
            /\ pc'[t] \in {"leave", "post", "swapout", "hold"} /\ OnFiber(t)
        BY <1>2, <2>3 DEF SwapOut, Leave, YieldToHold, FiberYieldToHold, SwitchTo, Running, Goto,
           OthersStay, OnFiber, localVars, fiberVars
      <3>2. Cur(t)' = Cur(t) /\ Cur(t) # NoFiber
        BY <3>1 DEF Cur, NoReady
      <3> QED
        BY <1>1, <3>1, <3>2, NoReadyMove
    <2>4. CASE SwapIn(t) \/ Return(t) \/ Throw(t)
      <3>1. /\ OthersStay(t) /\ UNCHANGED <<ft, cb_fiber>>
            /\ pc'[t] \in {"exec", "swapout"} /\ OnFiber(t)
        BY <1>2, <2>4 DEF SwapIn, Return, Throw, Running, Goto, OthersStay, OnFiber, localVars
      <3>2. \A f \in Fibers : m_state'[f] # "READY"
        BY <1>2, <2>4 DEF SwapIn, Return, Throw, FiberSwapIn, MainFuncReturn, MainFuncThrow, NoReady
      <3> QED
        BY <3>1, <3>2 DEF NoReady, OthersStay, OnFiber, Cur
    <2>5. CASE DispatchCb(t)
      <3>1. /\ OthersStay(t) /\ pc'[t] = "swapin" /\ ft'[t] = NoTask /\ cb_fiber'[t] # NoFiber
            /\ \A f \in Fibers : m_state'[f] # "READY"
        <4>1. ft' = [ft EXCEPT ![t] = NoTask] /\ pc' = [pc EXCEPT ![t] = "swapin"]
          BY <2>5 DEF DispatchCb, Goto
        <4>2. CASE cb_fiber[t] # NoFiber
          BY <1>2, <2>5, <4>1, <4>2 DEF DispatchCb, Reset, NoReady, OthersStay
        <4>3. CASE cb_fiber[t] = NoFiber
          <5>1. PICK f \in Fibers : Construct(f, ft[t].cb) /\ cb_fiber' = [cb_fiber EXCEPT ![t] = f]
            BY <2>5, <4>3 DEF DispatchCb
          <5> QED
            BY <1>2, <4>1, <5>1, FiberAssumption DEF Construct, NoReady, OthersStay
        <4> QED
          BY <4>2, <4>3
      <3> QED
        BY <3>1 DEF NoReady, OthersStay, OnFiber, Cur, NoTask
    <2>6. CASE PostFinished(t) \/ PostHold(t)
      <3>1. /\ OthersStay(t) /\ pc'[t] = "take"
        BY <1>2, <2>6 DEF PostFinished, PostHold, DropCbFiber, Goto, OthersStay
      <3>2. \A f \in Fibers : m_state'[f] # "READY"
        BY <1>2, <2>6 DEF PostFinished, PostHold, Reset, StoreHold, fiberVars, NoReady
      <3> QED
        BY <3>1, <3>2 DEF NoReady, OthersStay, OnFiber, Cur
    <2>7. ~PostReady(t) /\ ~Requeue(t) /\ ~YieldToReady(t)
      <3>1. pc[t] = "post" => Cur(t) \in Fibers
        BY <1>1, CurType DEF NoReady, OnFiber
      <3> QED
        BY <3>1 DEF PostReady, Requeue, YieldToReady, NoReady
    <2> QED
      BY <1>5, <2>1, <2>2, <2>3, <2>4, <2>5, <2>6, <2>7 DEF RunStep, CallbackStep
  <1>6. ASSUME NEW a \in Threads, ScheduleStep(a) PROVE NoReady'
    <2>1. UNCHANGED <<pc, ft, cb_fiber>>
      BY <1>6 DEF ScheduleStep, ScheduleCb, ScheduleFiber, ScheduleBatch, Wake, localVars
    <2>2. \A f \in Fibers : m_state'[f] # "READY"
      BY <1>2, <1>6 DEF ScheduleStep, ScheduleCb, ScheduleFiber, ScheduleBatch, Wake, Construct,
         fiberVars, NoReady
    <2> QED
      BY <2>1, <2>2 DEF NoReady, OnFiber, Cur
  <1>7. CASE OwnerStep
    <2>1. UNCHANGED <<m_state, ft, cb_fiber>>
      BY <1>7, Zenon DEF OwnerStep, ApiStep, Start, StopBegin, Destroy, StartThread, StartDone,
         StopNoThreads, StopSet, StopRoot, RootCall, StopSwap, StopJoin, fiberVars, localVars
    <2>2. \A u \in Threads : pc'[u] = pc[u] \/ pc'[u] \in {"take", "created"}
      BY <1>2, <1>7 DEF OwnerStep, ApiStep, Start, StopBegin, Destroy, StartThread, StartDone,
         StopNoThreads, StopSet, StopRoot, RootCall, StopSwap, StopJoin, Goto
    <2> QED
      BY <2>1, <2>2 DEF NoReady, OnFiber, Cur
  <1> QED
    BY <1>4, <1>5, <1>6, <1>7 DEF Next, Step, Over

\* No thread has a task in hand when the count is zero.
LEMMA NoneActive ==
    ASSUME CountsExact, m_activeThreadCount = 0
    PROVE  ActiveThreads = {}
  <1>1. IsFiniteSet(ActiveThreads)
    <2>1. ActiveThreads \subseteq Threads
      BY DEF ActiveThreads
    <2> QED
      BY <2>1, FiniteThreads, FS_Subset
  <1> QED
    BY <1>1, FS_EmptySet DEF CountsExact

\* A thread that finds an empty list, while no thread has a task in hand,
\* gets none; nor does any thread get one from it.
LEMMA QuietRun ==
    ASSUME Shape, Hands, NoReady, m_fibers = <<>>, ActiveThreads = {},
           NEW t \in Threads, RunStep(t) \/ CallbackStep(t)
    PROVE  /\ m_fibers' = <<>>
           /\ ActiveThreads' = {}
           /\ ~CallbackStep(t)
  <1>1. /\ pc[t] \notin {"swapin", "exec", "hold", "swapout", "leave", "requeue"}
        /\ pc[t] = "dispatch" => ft[t] = NoTask
    BY DEF ActiveThreads, NoReady
  <1>2. NoTask.fiber = NoFiber /\ NoTask.cb = NoCb
    BY DEF NoTask
  <1>3. \/ ThreadRun(t) \/ TakeNothing(t) \/ DispatchIdle(t) \/ Break(t) \/ Idle(t) \/ IdleOut(t)
        \/ PostReady(t) \/ PostFinished(t) \/ PostHold(t)
    <2>1. ~CallbackStep(t)
      BY <1>1 DEF CallbackStep, YieldToHold, YieldToReady, Return, Throw, SwitchTo, Running
    <2>2. ~Take(t)
      BY DEF Take
    <2>3. /\ ~SwapIn(t) /\ ~SwapOut(t) /\ ~Leave(t) /\ ~Requeue(t)
          /\ ~DispatchFiber(t) /\ ~DispatchCb(t) /\ ~DispatchSkip(t)
      BY <1>1, <1>2 DEF SwapIn, SwapOut, Leave, Requeue, DispatchFiber, DispatchCb, DispatchSkip
    <2> QED
      BY <2>1, <2>2, <2>3, Zenon DEF RunStep
  <1>4. ~CallbackStep(t)
    BY <1>1 DEF CallbackStep, YieldToHold, YieldToReady, Return, Throw, SwitchTo, Running
  <1>5. ~PostReady(t)
    <2>1. pc[t] = "post" => Cur(t) \in Fibers
      BY CurType DEF NoReady, OnFiber
    <2> QED
      BY <2>1 DEF PostReady, NoReady
  <1>6. m_fibers' = m_fibers
    BY <1>3, <1>5, Zenon DEF ThreadRun, TakeNothing, DispatchIdle, Break, Idle, IdleOut, PostFinished,
       PostHold, taskVars
  <1>7. /\ \A u \in Threads \ {t} : pc'[u] = pc[u] /\ ft'[u] = ft[u]
        /\ ft'[t] = NoTask /\ pc'[t] \in {"take", "dispatch", "idle", "idleout", "exit"}
    <2>1. ft[t] = NoTask \/ pc[t] = "post"
      BY <1>1, <1>3 DEF ThreadRun, TakeNothing, DispatchIdle, Break, Idle, IdleOut, PostReady,
         PostFinished, PostHold, Hands, HandsEmpty
    <2> QED
      BY <1>3, <1>5, <2>1 DEF ThreadRun, TakeNothing, DispatchIdle, Break, Idle, IdleOut, PostFinished,
         PostHold, Goto, localVars, Shape
  <1> QED
    BY <1>4, <1>6, <1>7 DEF ActiveThreads

\* A scheduler that has been constructed has no thread that leaves.
LEMMA QuietInvInit == Init => QuietInv
  BY DEF Init, QuietInv, IdleFinished, Leaving, Pool

\* A thread keeps idle_term until its run() begins again.
LEMMA IdleFinishedNext ==
    ASSUME Shape, Hands, IdleFinished, [Next]_vars
    PROVE  IdleFinished'
  <1>1. CASE UNCHANGED vars
    BY <1>1 DEF vars, localVars, IdleFinished
  <1>2. ASSUME NEW t \in Threads, RunStep(t) \/ CallbackStep(t) PROVE IdleFinished'
    <2>1. pc[t] \notin {"none", "exit"} /\ \A u \in Threads \ {t} : pc'[u] = pc[u]
      BY <1>2, RunStepFrame
    <2>2. /\ \A u \in Threads \ {t} : idle_term'[u] = idle_term[u]
          /\ pc'[t] \notin {"none", "created"}
          /\ pc'[t] = "exit" => idle_term'[t]
      <3>1. CASE Idle(t)
        BY <3>1 DEF Idle, Goto, Shape
      <3>2. CASE Break(t)
        BY <3>2 DEF Break, Goto, Shape
      <3>3. CASE RunStep(t) /\ ~Idle(t) /\ ~Break(t)
        BY <3>3 DEF RunStep, ThreadRun, Take, TakeNothing, DispatchFiber, DispatchCb,
           DispatchSkip, DispatchIdle, IdleOut, SwapIn, SwapOut, Leave,
           PostReady, Requeue, PostFinished, PostHold, Goto, Shape, localVars
      <3>4. CASE CallbackStep(t)
        BY <3>4 DEF CallbackStep, YieldToHold, YieldToReady, Return, Throw, SwitchTo, Goto, Shape,
           localVars
      <3> QED
        BY <1>2, <3>1, <3>2, <3>3, <3>4
    <2> QED
      BY <2>1, <2>2 DEF IdleFinished
  <1>3. ASSUME NEW a \in Threads, ScheduleStep(a) PROVE IdleFinished'
    BY <1>3 DEF ScheduleStep, ScheduleCb, ScheduleFiber, ScheduleBatch, Wake, IdleFinished, localVars
  <1>4. CASE OwnerStep
    <2>1. /\ UNCHANGED idle_term
          /\ \A u \in Threads : pc'[u] = pc[u] \/ pc'[u] = "take" \/ (pc[u] = "none" /\ pc'[u] = "created")
      BY <1>4, SchedulerAssumption DEF OwnerStep, ApiStep, Start, StopBegin, Destroy, StartThread,
         StartDone, StopNoThreads, StopSet, StopRoot, RootCall, StopSwap, StopJoin, Goto, Shape,
         Threads, localVars
    <2> QED
      BY <2>1 DEF IdleFinished
  <1> QED
    BY <1>1, <1>2, <1>3, <1>4 DEF Next, Step, Over

\* When stop() has returned there is nobody left that could be leaving.
LEMMA IdleOwner ==
    ASSUME PoolInv, QuietInv, aborted = "none", api = "idle"
    PROVE  ~Leaving
  BY DEF PoolInv, QuietInv, Leaving, Pool

\* What QuietInv says of the pool once a thread leaves.
Quiet == m_autoStop /\ m_stopping /\ m_fibers = <<>> /\ ActiveThreads = {}

\* stopping() tells that the pool is quiet.
LEMMA StoppingQuiet ==
    ASSUME CountsExact, Stopping
    PROVE  Quiet
  BY NoneActive DEF Stopping, Quiet

\* A step of run() tells a thread to leave only when the pool is quiet.
LEMMA QuietRunStep ==
    ASSUME Shape, CountsExact, Hands, NoReady, QuietInv, aborted = "none",
           NEW t \in Threads, RunStep(t) \/ CallbackStep(t), Leaving'
    PROVE  Quiet'
  <1>1. /\ UNCHANGED <<m_threads, thrs, m_stopping, m_autoStop>>
        /\ api' = api \/ (t = Caller /\ api' = "stopSwap")
    BY RunStepFrame
  <1>2. Leaving => Quiet
    BY DEF QuietInv, Quiet
  <1>3. CASE Leaving
    BY <1>1, <1>2, <1>3, QuietRun DEF Quiet
  <1>4. CASE Idle(t) /\ Stopping
    <2>1. Quiet
      BY <1>4, StoppingQuiet
    <2> QED
      BY <1>1, <2>1, QuietRun DEF Quiet
  <1>5. CASE Idle(t) /\ ~Stopping
    <2>1. UNCHANGED api /\ \A u \in Threads : idle_term'[u] => idle_term[u]
      BY <1>5 DEF Idle, Shape, controlVars
    <2>2. Pool' = Pool /\ Pool \subseteq Threads
      BY <1>1, <2>1 DEF Pool, Shape, Threads
    <2> QED
      BY <1>3, <2>1, <2>2 DEF Leaving
  <1>6. CASE Break(t)
    <2>1. idle_term[t] /\ UNCHANGED idle_term /\ (api' = api \/ (t = Caller /\ api = "root"))
      BY <1>6 DEF Break, RootReturn, Hands, CallerInRoot
    <2>2. Pool' \subseteq Pool
      BY <1>1, <2>1 DEF Pool
    <2>3. t = Caller /\ api = "root" => t \in Pool
      BY DEF Pool
    <2> QED
      BY <1>3, <2>1, <2>2, <2>3 DEF Leaving
  <1>7. CASE ~Idle(t) /\ ~Break(t)
    <2>1. UNCHANGED <<api, idle_term>>
      BY <1>7, Zenon DEF RunStep, ThreadRun, Take, TakeNothing, DispatchFiber, DispatchCb,
         DispatchSkip, DispatchIdle, IdleOut, SwapIn, SwapOut, Leave,
         PostReady, Requeue, PostFinished, PostHold, CallbackStep, YieldToHold, YieldToReady,
         Return, Throw, SwitchTo, controlVars, localVars
    <2> QED
      BY <1>1, <1>3, <2>1 DEF Leaving, Pool
  <1> QED
    BY <1>4, <1>5, <1>6, <1>7

\* The owner's calls neither begin to leave nor fill the list of a pool that
\* some thread is leaving, but for stopping() in stop().
LEMMA QuietOwnerStep ==
    ASSUME Shape, CountsExact, Hands, PoolInv, QuietInv, aborted = "none", aborted' = "none",
           OwnerStep, Leaving'
    PROVE  Quiet'
  <1>1. UNCHANGED <<m_fibers, idle_term, ft, m_activeThreadCount>>
    BY Zenon DEF OwnerStep, ApiStep, Start, StopBegin, Destroy, StartThread, StartDone, StopNoThreads,
       StopSet, StopRoot, RootCall, StopSwap, StopJoin, taskVars, localVars
  <1>2. Leaving => Quiet
    BY DEF QuietInv, Quiet
  <1>3. ASSUME \A u \in Threads : pc'[u] = pc[u] \/ pc'[u] \in {"take", "created"},
               ActiveThreads = {}
        PROVE  ActiveThreads' = {}
    BY <1>1, <1>3 DEF ActiveThreads
  <1>4. \A u \in Threads : pc'[u] = pc[u] \/ pc'[u] \in {"take", "created"}
    BY DEF OwnerStep, ApiStep, Start, StopBegin, Destroy, StartThread, StartDone, StopNoThreads,
       StopSet, StopRoot, RootCall, StopSwap, StopJoin, Goto, Shape
  <1>5. CASE Start
    <2>1. Pool' = Pool /\ api = "idle" /\ api' = "starting"
      BY <1>5 DEF Start, Pool
    <2> QED
      BY <1>1, <2>1, IdleOwner DEF Leaving
  <1>6. CASE \E w \in Workers, ran \in BOOLEAN : StartThread(w, ran)
    <2>1. PICK w \in Workers, ran \in BOOLEAN : StartThread(w, ran)
      BY <1>6
    <2>2. Pool' = Pool \cup {w} /\ ~idle_term[w] /\ api = "starting" /\ UNCHANGED api
      BY <2>1 DEF StartThread, Pool, QuietInv, IdleFinished, Threads
    <2>3. Leaving
      BY <1>1, <2>2 DEF Leaving
    <2> QED
      BY <1>2, <2>2, <2>3 DEF PoolInv, Quiet
  <1>7. CASE StopRoot
    <2>1. CASE Stopping
      <3>1. Quiet /\ UNCHANGED <<m_autoStop, m_stopping>>
        BY <1>7, <2>1, StoppingQuiet DEF StopRoot
      <3> QED
        BY <1>1, <1>3, <1>4, <3>1 DEF Quiet
    <2>2. CASE ~Stopping
      <3>1. pc[Caller] # "exit" /\ api = "stopRoot" /\ api' = "root" /\ UNCHANGED <<m_autoStop, m_stopping>>
            /\ UNCHANGED <<m_threads, thrs>>
        BY <1>7, <2>2 DEF StopRoot, RootCall, Check
      <3>2. ~idle_term[Caller]
        BY <3>1 DEF Hands, CallerInRoot, QuietInv, IdleFinished, Threads
      <3>3. Pool' = Pool \cup {Caller}
        BY <3>1 DEF Pool
      <3>4. Leaving
        BY <1>1, <3>1, <3>2, <3>3 DEF Leaving
      <3> QED
        BY <1>1, <1>2, <1>3, <1>4, <3>1, <3>4 DEF Quiet
    <2> QED
      BY <2>1, <2>2
  <1>8. CASE \/ StartDone \/ StopBegin \/ StopNoThreads \/ StopSet \/ StopSwap \/ StopJoin \/ Destroy
    <2>1. Pool' \subseteq Pool
      BY <1>8 DEF StartDone, StopBegin, StopNoThreads, StopSet, StopSwap, StopJoin, Destroy, Pool
    <2>2. UseCaller /\ api' \in {"stopSwap", "stopJoin"} => api \in {"stopSwap", "stopJoin"}
      BY <1>8 DEF StartDone, StopBegin, StopNoThreads, StopSet, StopSwap, StopJoin, Destroy
    <2>3. Leaving
      BY <1>1, <2>1, <2>2 DEF Leaving
    <2>4. /\ m_autoStop' = m_autoStop \/ m_autoStop' = TRUE
          /\ m_stopping' = m_stopping \/ m_stopping' = TRUE
      BY <1>8, Zenon DEF StartDone, StopBegin, StopNoThreads, StopSet, StopSwap, StopJoin, Destroy
    <2>5. m_autoStop = TRUE /\ m_stopping = TRUE
      BY <1>2, <2>3 DEF Quiet, Shape
    <2>6. m_autoStop' = TRUE /\ m_stopping' = TRUE
      BY <2>4, <2>5
    <2> QED
      BY <1>1, <1>2, <1>3, <1>4, <2>3, <2>6 DEF Quiet
  <1> QED
    BY <1>5, <1>6, <1>7, <1>8 DEF OwnerStep, ApiStep

\* Every step keeps QuietInv when the callbacks do not call YieldToReady.
LEMMA QuietInvNext ==
    ASSUME CountInv, PoolInv, NoReady, QuietInv, [Next]_vars
    PROVE  QuietInv'
  <1>1. Shape /\ CountsExact /\ Hands
    BY CountInvParts
  <1>2. IdleFinished'
    BY <1>1, IdleFinishedNext DEF QuietInv
  <1>3. ASSUME aborted' = "none", Leaving' PROVE Quiet'
    <2>1. CASE UNCHANGED vars
      <3>1. UNCHANGED <<m_fibers, m_autoStop, m_stopping, pc, ft, idle_term, m_threads, thrs, api, aborted>>
        BY <2>1 DEF vars, taskVars, controlVars, localVars
      <3>2. Leaving /\ aborted = "none"
        BY <1>3, <3>1 DEF Leaving, Pool
      <3> QED
        BY <3>1, <3>2 DEF QuietInv, Quiet, ActiveThreads
    <2>2. ASSUME aborted = "none", NEW t \in Threads, RunStep(t) \/ CallbackStep(t) PROVE Quiet'
      BY <1>1, <1>3, <2>2, QuietRunStep
    <2>3. ASSUME aborted = "none", NEW a \in Threads, ScheduleStep(a) PROVE Quiet'
      <3>1. UNCHANGED <<controlVars, pc, localVars>> /\ CanCall(a)
        BY <2>3 DEF ScheduleStep, ScheduleCb, ScheduleFiber, ScheduleBatch, Wake
      <3>2. Leaving
        BY <1>3, <3>1 DEF Leaving, Pool, controlVars, localVars
      <3>3. Quiet
        BY <2>3, <3>2 DEF QuietInv, Quiet
      <3>4. a \notin ActiveThreads
        BY <3>3 DEF Quiet
      <3>5. api = "idle"
        BY <2>3, <3>1, <3>4 DEF CanCall, Running, ActiveThreads
      <3> QED
        BY <2>3, <3>2, <3>5, IdleOwner
    <2>4. ASSUME aborted = "none", OwnerStep PROVE Quiet'
      BY <1>1, <1>3, <2>4, QuietOwnerStep
    <2> QED
      BY <2>1, <2>2, <2>3, <2>4 DEF Next, Step, Over
  <1> QED
    BY <1>2, <1>3 DEF QuietInv, Quiet

\* What the three invariants say of a thread that leaves.
LEMMA QuietMeans ==
    ASSUME Shape, NoReady, QuietInv
    PROVE  QuietExit
  <1> SUFFICES ASSUME aborted = "none", NEW t \in Pool, idle_term[t]
               PROVE  m_fibers = <<>> /\ \A u \in Threads : ~Busy(u)
    BY DEF QuietExit
  <1>1. Quiet
    BY DEF QuietInv, Quiet, Leaving
  <1>2. ASSUME NEW u \in Threads PROVE ~Busy(u)
    <2>1. Cur(u) \in Fibers \/ Cur(u) = NoFiber
      BY CurType
    <2> QED
      BY <1>1, <2>1 DEF Busy, Quiet, NoReady, OnFiber
  <1> QED
    BY <1>1, <1>2 DEF Quiet

\* Without YieldToReady, from the moment a thread is told to leave on, the
\* pool stays stopped, the list empty and no thread active.
THEOREM QuietKept == ASSUME ~ReadyYields PROVE Spec => [](NoReady /\ QuietInv)
  <1> DEFINE Inv == CountInv /\ PoolInv /\ NoReady /\ QuietInv
  <1>1. Init => Inv
    BY CountInvInit, PoolInvInit, NoReadyInit, QuietInvInit
  <1>2. Inv /\ [Next]_vars => Inv'
    BY CountInvNext, PoolInvNext, NoReadyNext, QuietInvNext
  <1> QED
    BY <1>1, <1>2, PTL DEF Spec

\* A thread of the pool is told to leave only when no task is queued and no
\* thread has one in hand, whatever the callbacks do short of YieldToReady:
\* a READY fiber is for a moment neither in the list nor counted as active.
THEOREM LeavesWhenQuiet == ASSUME ~ReadyYields PROVE Spec => []QuietExit
  <1>1. Spec => []CountInv
    BY CountsKept
  <1>2. CountInv /\ NoReady /\ QuietInv => QuietExit
    BY QuietMeans, CountInvParts
  <1> QED
    BY <1>1, <1>2, QuietKept, PTL

-----------------------------------------------------------------------------
(***************************************************************************)
(* Lemmas about counting the elements of a list.                           *)
(***************************************************************************)

\* Where list s has an element of M.
Places(s, M) == {i \in 1..Len(s) : s[i] \in M}

\* Append(s, x) has one place more, if x is in M.
LEMMA PlacesAppend ==
    ASSUME NEW S, NEW s \in Seq(S), NEW x \in S, NEW M
    PROVE  /\ Cardinality(Places(s, M)) \in Nat
           /\ Cardinality(Places(Append(s, x), M))
                = Cardinality(Places(s, M)) + (IF x \in M THEN 1 ELSE 0)
  <1>1. Len(s) \in Nat
    BY LenProperties
  <1>2. IsFiniteSet(Places(s, M))
    <2>1. IsFiniteSet(1..Len(s)) /\ Places(s, M) \subseteq 1..Len(s)
      BY <1>1, FS_Interval DEF Places
    <2> QED
      BY <2>1, FS_Subset
  <1>3. /\ Len(Append(s, x)) = Len(s) + 1
        /\ \A i \in 1..(Len(s) + 1) : Append(s, x)[i] = IF i <= Len(s) THEN s[i] ELSE x
    BY <1>1, AppendProperties
  <1>4. CASE x \in M
    <2>1. Places(Append(s, x), M) = Places(s, M) \cup {Len(s) + 1}
      BY <1>1, <1>3, <1>4 DEF Places
    <2>2. Len(s) + 1 \notin Places(s, M)
      BY <1>1 DEF Places
    <2> QED
      BY <1>2, <1>4, <2>1, <2>2, FS_AddElement, FS_CardinalityType
  <1>5. CASE x \notin M
    <2>1. Places(Append(s, x), M) = Places(s, M)
      BY <1>1, <1>3, <1>5 DEF Places
    <2> QED
      BY <1>2, <1>5, <2>1, FS_CardinalityType
  <1> QED
    BY <1>4, <1>5

\* Without(s, i) has one place less, if s[i] is in M.
LEMMA PlacesWithout ==
    ASSUME NEW S, NEW s \in Seq(S), NEW i \in 1..Len(s), NEW M
    PROVE  /\ Cardinality(Places(s, M)) \in Nat
           /\ Cardinality(Places(Without(s, i), M))
                = Cardinality(Places(s, M)) - (IF s[i] \in M THEN 1 ELSE 0)
  <1> DEFINE r == Without(s, i)
             A == Places(s, M) \ {i}
             B == Places(r, M)
             moved(k) == IF k < i THEN k ELSE k + 1
             F == [k \in B |-> moved(k)]
  <1>1. /\ Len(s) \in Nat /\ Len(r) = Len(s) - 1
        /\ \A k \in 1..Len(r) : r[k] = s[moved(k)]
    BY WithoutProperties, LenProperties
  <1> HIDE DEF r
  <1>2. F \in [B -> A]
    BY <1>1 DEF Places
  <1>3. \A k, l \in B : F[k] = F[l] => k = l
    BY <1>1 DEF Places
  <1>4. ASSUME NEW j \in A PROVE \E k \in B : F[k] = j
    <2> DEFINE k == IF j < i THEN j ELSE j - 1
    <2>1. k \in 1..Len(r) /\ moved(k) = j
      BY <1>1 DEF Places
    <2>2. k \in B
      BY <1>1, <2>1 DEF Places
    <2> QED
      BY <2>1, <2>2
  <1>5. IsFiniteSet(Places(s, M))
    <2>1. IsFiniteSet(1..Len(s)) /\ Places(s, M) \subseteq 1..Len(s)
      BY <1>1, FS_Interval DEF Places
    <2> QED
      BY <2>1, FS_Subset
  <1>6. IsFiniteSet(B)
    <2>1. B \subseteq 1..Len(r)
      BY DEF Places
    <2>2. IsFiniteSet(1..Len(r))
      BY <1>1, FS_Interval
    <2> QED
      BY <2>1, <2>2, FS_Subset
  <1>7. Cardinality(A) = Cardinality(B)
    <2>1. F \in Bijection(B, A)
      BY <1>2, <1>3, <1>4 DEF Bijection, Injection, Surjection, IsInjective
    <2> QED
      BY <1>6, <2>1, FS_Bijection, Zenon DEF ExistsBijection
  <1>8. Cardinality(A) = IF i \in Places(s, M) THEN Cardinality(Places(s, M)) - 1
                                                ELSE Cardinality(Places(s, M))
    BY <1>5, FS_RemoveElement
  <1>9. i \in Places(s, M) <=> s[i] \in M
    BY DEF Places
  <1> QED
    BY <1>5, <1>7, <1>8, <1>9, FS_CardinalityType DEF r

-----------------------------------------------------------------------------
(***************************************************************************)
(* Where a callback waits.                                                 *)
(***************************************************************************)

\* Fiber f will call c when it is first swapped in.
WillCall(f, c) == m_state[f] = "INIT" /\ m_cb[f] = c

\* Task x calls c, or its fiber will.
Brings(x, c) == x.cb = c \/ (x.fiber # NoFiber /\ WillCall(x.fiber, c))

\* Thread t is about to call c.
HasInHand(t, c) ==
    \/ pc[t] = "dispatch" /\ ft[t].cb = c
    \/ pc[t] \in {"dispatch", "swapin"} /\ Cur(t) # NoFiber /\ WillCall(Cur(t), c)

\* TasksConserved for one callback.
Conserved(c) ==
    Cardinality(QueuedAt(c)) + Cardinality(InHandAt(c)) + entered[c]
        = IF c \in submitted THEN 1 ELSE 0

\* The same after the step.
CallsNext(f, c) == m_state'[f] = "INIT" /\ m_cb'[f] = c

\* The fibers in P go on to call c, or not to.
Keep(P, c) == \A f \in P : CallsNext(f, c) <=> WillCall(f, c)

QueuedFibers == {f \in Fibers : Queued(f)}

\* The tasks that bring c after the step.
BringsNext(c) ==
    {x \in FiberAndThread : x.cb = c \/ (x.fiber # NoFiber /\ CallsNext(x.fiber, c))}

\* What QueuedAt counts before and after a step, when the fibers in the list
\* keep what they will call.
LEMMA QueuePlaces ==
    ASSUME Shape, m_fibers' \in Seq(FiberAndThread), NEW c, Keep(QueuedFibers, c)
    PROVE  /\ QueuedAt(c) = Places(m_fibers, BringsNext(c))
           /\ QueuedAt(c)' = Places(m_fibers', BringsNext(c))
  <1>1. QueuedAt(c) = {i \in 1..Len(m_fibers) : Brings(m_fibers[i], c)}
    BY DEF QueuedAt, Brings, WillCall
  <1>2. QueuedAt(c)' = {i \in 1..Len(m_fibers') :
            \/ m_fibers'[i].cb = c
            \/ m_fibers'[i].fiber # NoFiber /\ CallsNext(m_fibers'[i].fiber, c)}
    BY DEF QueuedAt, CallsNext
  <1>3. ASSUME NEW i \in 1..Len(m_fibers)
        PROVE  Brings(m_fibers[i], c) <=> m_fibers[i] \in BringsNext(c)
    <2>1. CASE m_fibers[i].fiber # NoFiber
      <3>1. m_fibers[i].fiber \in QueuedFibers
        BY <2>1, TaskType DEF Queued, QueuedFibers
      <3>2. CallsNext(m_fibers[i].fiber, c) <=> WillCall(m_fibers[i].fiber, c)
        BY <3>1 DEF Keep
      <3> QED
        BY <3>2, TaskType DEF Brings, BringsNext
    <2>2. CASE m_fibers[i].fiber = NoFiber
      BY <2>2, TaskType DEF Brings, BringsNext
    <2> QED
      BY <2>1, <2>2
  <1>4. \A i \in 1..Len(m_fibers') : m_fibers'[i] \in FiberAndThread
    BY ElementOfSeq
  <1>5. QueuedAt(c)' = Places(m_fibers', BringsNext(c))
    BY <1>2, <1>4 DEF Places, BringsNext
  <1>6. QueuedAt(c) = Places(m_fibers, BringsNext(c))
    BY <1>1, <1>3 DEF Places
  <1> QED
    BY <1>5, <1>6

\* A task x goes to the end of the list.
LEMMA QueueGrows ==
    ASSUME Shape, NEW x \in FiberAndThread, x.fiber # NoFiber \/ x.cb # NoCb,
           m_fibers' = ScheduleNoLock(m_fibers, x), NEW c, Keep(QueuedFibers, c)
    PROVE  /\ Cardinality(QueuedAt(c)) \in Nat
           /\ Cardinality(QueuedAt(c)') = Cardinality(QueuedAt(c)) + (IF x \in BringsNext(c) THEN 1 ELSE 0)
  <1>1. m_fibers \in Seq(FiberAndThread) /\ m_fibers' = Append(m_fibers, x)
    BY DEF Shape, ScheduleNoLock
  <1>2. m_fibers' \in Seq(FiberAndThread)
    BY <1>1, AppendProperties
  <1> QED
    BY <1>1, <1>2, QueuePlaces, PlacesAppend

\* The list is what it was.
LEMMA QueueStays ==
    ASSUME Shape, UNCHANGED m_fibers, NEW c, Keep(QueuedFibers, c)
    PROVE  /\ Cardinality(QueuedAt(c)) \in Nat
           /\ QueuedAt(c)' = QueuedAt(c)
  <1>1. m_fibers \in Seq(FiberAndThread)
    BY DEF Shape
  <1>2. IsFiniteSet(QueuedAt(c))
    <2>1. QueuedAt(c) \subseteq 1..Len(m_fibers)
      BY DEF QueuedAt
    <2>2. IsFiniteSet(1..Len(m_fibers))
      BY <1>1, LenProperties, FS_Interval
    <2> QED
      BY <2>1, <2>2, FS_Subset
  <1> QED
    BY <1>1, <1>2, QueuePlaces, FS_CardinalityType

\* Task i is taken from the list.
LEMMA QueueShrinks ==
    ASSUME Shape, NEW i \in 1..Len(m_fibers), m_fibers' = Without(m_fibers, i),
           NEW c, Keep(QueuedFibers, c)
    PROVE  /\ Cardinality(QueuedAt(c)) \in Nat
           /\ Cardinality(QueuedAt(c)')
                = Cardinality(QueuedAt(c)) - (IF m_fibers[i] \in BringsNext(c) THEN 1 ELSE 0)
  <1>1. m_fibers \in Seq(FiberAndThread)
    BY DEF Shape
  <1>2. m_fibers' \in Seq(FiberAndThread)
    BY <1>1, WithoutProperties
  <1> QED
    BY <1>1, <1>2, QueuePlaces, PlacesWithout

\* Thread t moves; what the other threads hold keeps what it will call.
LEMMA HandMoves ==
    ASSUME Shape, NEW t \in Threads, OthersStay(t), NEW c,
           \A u \in Threads \ {t} : Keep({f \in Fibers : Holds(u, f)}, c)
    PROVE  /\ Cardinality(InHandAt(c)) \in Nat
           /\ (HasInHand(t, c) <=> HasInHand(t, c)')
              => Cardinality(InHandAt(c)') = Cardinality(InHandAt(c))
           /\ ~HasInHand(t, c) /\ HasInHand(t, c)'
              => Cardinality(InHandAt(c)') = Cardinality(InHandAt(c)) + 1
           /\ HasInHand(t, c) /\ ~HasInHand(t, c)'
              => Cardinality(InHandAt(c)') = Cardinality(InHandAt(c)) - 1
  <1>1. InHandAt(c) = {u \in Threads : HasInHand(u, c)}
    BY DEF InHandAt, HasInHand, WillCall
  <1>2. InHandAt(c)' = {u \in Threads : HasInHand(u, c)'}
    BY DEF InHandAt, HasInHand, WillCall
  <1>3. ASSUME NEW u \in Threads \ {t} PROVE HasInHand(u, c)' <=> HasInHand(u, c)
    <2>1. pc'[u] = pc[u] /\ ft'[u] = ft[u] /\ Cur(u)' = Cur(u)
      BY DEF OthersStay, Cur
    <2>2. Cur(u) # NoFiber => Cur(u) \in Fibers /\ Holds(u, Cur(u))
      BY CurType DEF Holds, Cur
    <2>3. Cur(u) # NoFiber => (CallsNext(Cur(u), c) <=> WillCall(Cur(u), c))
      BY <2>2 DEF Keep
    <2> QED
      BY <2>1, <2>3 DEF HasInHand, WillCall, CallsNext
  <1>4. /\ InHandAt(c) \in SUBSET Threads /\ InHandAt(c)' \in SUBSET Threads
        /\ \A u \in Threads \ {t} : u \in InHandAt(c) <=> u \in InHandAt(c)'
        /\ t \in InHandAt(c) <=> HasInHand(t, c)
        /\ t \in InHandAt(c)' <=> HasInHand(t, c)'
    BY <1>1, <1>2, <1>3
  <1> QED
    BY <1>4, FiniteThreads, OneElementMoves

-----------------------------------------------------------------------------
(***************************************************************************)
(* No callback is lost or called twice.                                    *)
(***************************************************************************)

\* The history is what the code does not keep: only its type is needed.
LEMMA HistoryType ==
    ASSUME Shape, NEW c \in Cbs
    PROVE  entered[c] \in Nat
  BY DEF Shape

\* Thread t moves with the list as it is: what it no longer has in hand has
\* been called.
LEMMA ConservedStep ==
    ASSUME Shape, NEW c \in Cbs, Conserved(c), UNCHANGED <<m_fibers, submitted>>,
           NEW t \in Threads, OthersStay(t), Keep(QueuedFibers, c),
           \A u \in Threads \ {t} : Keep({f \in Fibers : Holds(u, f)}, c),
           entered'[c] + (IF HasInHand(t, c)' THEN 1 ELSE 0)
              = entered[c] + (IF HasInHand(t, c) THEN 1 ELSE 0),
           entered'[c] \in Nat
    PROVE  Conserved(c)'
  <1>1. Cardinality(QueuedAt(c)) \in Nat /\ QueuedAt(c)' = QueuedAt(c)
    BY QueueStays
  <1>2. entered[c] \in Nat
    BY HistoryType
  <1>3. Cardinality(QueuedAt(c)') = Cardinality(QueuedAt(c))
    BY <1>1
  <1>4. Cardinality(InHandAt(c)) \in Nat
    BY HandMoves
  <1>5. CASE HasInHand(t, c) <=> HasInHand(t, c)'
    <2>1. Cardinality(InHandAt(c)') = Cardinality(InHandAt(c))
      BY <1>5, HandMoves
    <2>2. entered'[c] = entered[c]
      BY <1>2, <1>5
    <2> QED
      BY <1>3, <2>1, <2>2 DEF Conserved
  <1>6. CASE HasInHand(t, c) /\ ~HasInHand(t, c)'
    <2>1. Cardinality(InHandAt(c)') = Cardinality(InHandAt(c)) - 1
      BY <1>6, HandMoves
    <2>2. entered'[c] = entered[c] + 1
      BY <1>2, <1>6
    <2> QED
      BY <1>1, <1>2, <1>3, <1>4, <2>1, <2>2 DEF Conserved
  <1>7. CASE ~HasInHand(t, c) /\ HasInHand(t, c)'
    <2>1. Cardinality(InHandAt(c)') = Cardinality(InHandAt(c)) + 1
      BY <1>7, HandMoves
    <2>2. entered'[c] = entered[c] - 1
      BY <1>2, <1>7
    <2> QED
      BY <1>1, <1>2, <1>3, <1>4, <2>1, <2>2 DEF Conserved
  <1> QED
    BY <1>5, <1>6, <1>7

\* The same when no fiber begins or ceases to wait for its first turn.
LEMMA ConservedMove ==
    ASSUME Shape, NEW c \in Cbs, Conserved(c), UNCHANGED <<m_fibers, submitted, entered>>,
           NEW t \in Threads, OthersStay(t), Keep(Fibers, c),
           HasInHand(t, c)' <=> HasInHand(t, c)
    PROVE  Conserved(c)'
  <1>1. Keep(QueuedFibers, c) /\ \A u \in Threads \ {t} : Keep({f \in Fibers : Holds(u, f)}, c)
    BY DEF Keep, QueuedFibers
  <1>2. entered[c] \in Nat
    BY HistoryType
  <1> QED
    BY <1>1, <1>2, ConservedStep

\* A thread whose ft has no callback, outside swapin, has none in hand.
LEMMA SpareIsNoCall ==
    ASSUME Shape, Hands, FiberInv, NEW t \in Threads, NEW c \in Cbs,
           pc[t] \notin {"dispatch", "swapin"} \/ (pc[t] = "dispatch" /\ ft[t] = NoTask)
    PROVE  ~HasInHand(t, c)
  <1>1. c # NoCb /\ NoTask.cb = NoCb /\ NoTask.fiber = NoFiber
    BY FiberAssumption DEF NoTask
  <1>2. pc[t] = "dispatch" => Cur(t) = cb_fiber[t]
    BY <1>1 DEF Cur
  <1>3. SpareEmpty(t)
    BY DEF FiberInv, HandsOrdered
  <1> QED
    BY <1>1, <1>2, <1>3 DEF HasInHand, WillCall, SpareEmpty, OnFiber

\* run() keeps the counts: the steps that leave the fibers alone.
LEMMA ConservedMoves ==
    ASSUME Shape, Hands, FiberInv, NEW c \in Cbs, Conserved(c), NEW t \in Threads,
           \/ ThreadRun(t) \/ TakeNothing(t) \/ DispatchFiber(t) \/ DispatchIdle(t) \/ DispatchSkip(t)
           \/ Idle(t) \/ IdleOut(t) \/ Break(t) \/ SwapOut(t) \/ Leave(t) \/ PostReady(t)
           \/ YieldToHold(t)
    PROVE  Conserved(c)'
  <1>1. UNCHANGED <<m_state, m_cb, m_fibers, submitted, entered>>
    BY DEF ThreadRun, TakeNothing, DispatchFiber, DispatchIdle, DispatchSkip, Idle, IdleOut, Break,
       SwapOut, Leave, PostReady, YieldToHold, FiberYieldToHold, fiberVars, taskVars, historyVars
  <1>2. OthersStay(t)
    BY DEF ThreadRun, TakeNothing, DispatchFiber, DispatchIdle, DispatchSkip, Idle, IdleOut, Break,
       SwapOut, Leave, PostReady, YieldToHold, Goto, localVars, OthersStay, Shape
  <1>3. Keep(Fibers, c)
    BY <1>1 DEF Keep, CallsNext, WillCall
  <1>4. c # NoCb /\ NoTask.cb = NoCb /\ NoTask.fiber = NoFiber
    BY FiberAssumption DEF NoTask
  <1>5. CASE DispatchFiber(t)
    <2>1. /\ pc[t] = "dispatch" /\ pc'[t] = "swapin" /\ UNCHANGED <<ft, cb_fiber>>
          /\ ft[t].fiber # NoFiber
      BY <1>5 DEF DispatchFiber, Goto, localVars, Shape
    <2>2. ft[t].cb = NoCb
      BY <2>1 DEF FiberInv, TasksDistinct
    <2>3. HasInHand(t, c)' <=> HasInHand(t, c)
      BY <1>1, <1>4, <2>1, <2>2 DEF HasInHand, WillCall, Cur
    <2> QED
      BY <1>1, <1>2, <1>3, <2>3, ConservedMove
  <1>6. CASE DispatchSkip(t)
    <2>1. pc[t] = "dispatch" /\ ft[t].fiber # NoFiber /\ Finished(ft[t].fiber) /\ pc'[t] = "take"
      BY <1>6 DEF DispatchSkip, Goto, Shape
    <2>2. ft[t].cb = NoCb
      BY <2>1 DEF FiberInv, TasksDistinct
    <2>3. ~HasInHand(t, c) /\ ~HasInHand(t, c)'
      BY <1>4, <2>1, <2>2 DEF HasInHand, WillCall, Cur, Finished
    <2> QED
      BY <1>1, <1>2, <1>3, <2>3, ConservedMove
  <1>7. CASE TakeNothing(t)
    <2>1. pc[t] = "take" /\ pc'[t] = "dispatch" /\ UNCHANGED <<ft, cb_fiber>> /\ ft[t] = NoTask
      BY <1>7 DEF TakeNothing, Goto, localVars, Shape, Hands, HandsEmpty
    <2>2. Cur(t)' = cb_fiber[t] /\ SpareEmpty(t)
      BY <1>4, <2>1 DEF Cur, FiberInv, HandsOrdered
    <2>3. ~HasInHand(t, c) /\ ~HasInHand(t, c)'
      BY <1>1, <1>4, <2>1, <2>2 DEF HasInHand, WillCall, SpareEmpty, OnFiber
    <2> QED
      BY <1>1, <1>2, <1>3, <2>3, ConservedMove
  <1>8. CASE \/ ThreadRun(t) \/ DispatchIdle(t) \/ Idle(t) \/ IdleOut(t) \/ Break(t)
             \/ SwapOut(t) \/ Leave(t) \/ PostReady(t) \/ YieldToHold(t)
    <2>1. /\ pc[t] \notin {"dispatch", "swapin"} \/ (pc[t] = "dispatch" /\ ft[t] = NoTask)
          /\ pc'[t] \notin {"dispatch", "swapin"}
      BY <1>8 DEF ThreadRun, DispatchIdle, Idle, IdleOut, Break, SwapOut, Leave, PostReady,
         YieldToHold, Running, Goto, Shape
    <2>2. ~HasInHand(t, c)
      BY <2>1, SpareIsNoCall
    <2>3. ~HasInHand(t, c)'
      BY <2>1 DEF HasInHand
    <2> QED
      BY <1>1, <1>2, <1>3, <2>2, <2>3, ConservedMove
  <1> QED
    BY <1>5, <1>6, <1>7, <1>8

\* The steps that change the state of the fiber a thread is on: swapIn()
\* calls the callback, and no other of them makes or unmakes a fiber INIT
\* with a callback.
LEMMA ConservedCur ==
    ASSUME Shape, Hands, FiberInv, NEW c \in Cbs, Conserved(c), NEW t \in Threads,
           \/ SwapIn(t) \/ YieldToReady(t) \/ Return(t) \/ Throw(t)
           \/ PostFinished(t) \/ PostHold(t)
    PROVE  Conserved(c)'
  <1> DEFINE f == Cur(t)
  <1>1. pc[t] \in {"swapin", "exec", "post"} /\ UNCHANGED <<m_fibers, submitted>>
    BY DEF SwapIn, YieldToReady, Return, Throw, PostFinished, PostHold, Running, taskVars, historyVars
  <1>2. f \in Fibers /\ \A u \in Threads \ {t} : ~Holds(u, f)
    <2>1. f # NoFiber
      BY <1>1 DEF FiberInv, HandsOrdered, CurState, OnFiber
    <2> QED
      BY <2>1, CurHeld
  <1>3. /\ m_state \in [Fibers -> State] /\ m_cb \in [Fibers -> Cbs \cup {NoCb}]
        /\ entered \in [Cbs -> Nat] /\ c # NoCb
    BY FiberAssumption DEF Shape, FiberTypeOK
  <1>4. CurState(t)
    BY DEF FiberInv, HandsOrdered
  <1>5. OthersStay(t)
    BY DEF SwapIn, YieldToReady, Return, Throw, PostFinished, PostHold, DropCbFiber, Goto, localVars,
       OthersStay, Shape
  <1>6. CASE SwapIn(t)
    <2>1. /\ pc[t] = "swapin" /\ pc'[t] = "exec" /\ FiberSwapIn(f)
          /\ entered'[c] = IF WillCall(f, c) THEN entered[c] + 1 ELSE entered[c]
      BY <1>6 DEF SwapIn, Goto, Shape, WillCall
    <2>2. f # NoFiber /\ ~Queued(f)
      BY <1>2, <2>1, CurHeld, FiberAssumption DEF FiberInv, QueuedWhenLeaving
    <2> HIDE DEF f
    <2>3. /\ Keep(QueuedFibers, c)
          /\ \A u \in Threads \ {t} : Keep({h \in Fibers : Holds(u, h)}, c)
      <3>1. \A h \in Fibers \ {f} : CallsNext(h, c) <=> WillCall(h, c)
        BY <1>3, <2>1 DEF FiberSwapIn, CallsNext, WillCall
      <3> QED
        BY <1>2, <2>2, <3>1 DEF Keep, QueuedFibers
    <2>4. HasInHand(t, c) <=> WillCall(f, c)
      BY <2>1, <2>2 DEF HasInHand, f
    <2>5. ~HasInHand(t, c)'
      BY <2>1 DEF HasInHand
    <2>6. entered[c] \in Nat
      BY <1>3
    <2> QED
      BY <1>1, <1>5, <2>1, <2>3, <2>4, <2>5, <2>6, ConservedStep
  <1>7. CASE YieldToReady(t) \/ Return(t) \/ Throw(t) \/ PostFinished(t) \/ PostHold(t)
    <2>1. pc[t] \in {"exec", "post"} /\ pc'[t] \in {"swapout", "take"} /\ UNCHANGED entered
      BY <1>7 DEF YieldToReady, Return, Throw, PostFinished, PostHold, Running, Goto, Shape, historyVars
    <2>2. m_state[f] # "INIT"
      BY <1>4, <2>1 DEF CurState
    <2> HIDE DEF f
    <2>3. OnlyFiber(f) /\ ~CallsNext(f, c)
      <3>1. CASE YieldToReady(t)
        BY <1>2, <1>3, <3>1 DEF YieldToReady, FiberYieldToReady, OnlyFiber, CallsNext, f
      <3>2. CASE Return(t)
        BY <1>2, <1>3, <3>2 DEF Return, MainFuncReturn, OnlyFiber, CallsNext, f
      <3>3. CASE Throw(t)
        BY <1>2, <1>3, <3>3 DEF Throw, MainFuncThrow, OnlyFiber, CallsNext, f
      <3>4. CASE PostFinished(t)
        <4>1. IF IsCbFiber(t) THEN Reset(f, NoCb) ELSE UNCHANGED fiberVars
          BY <3>4 DEF PostFinished, f
        <4> QED
          BY <1>2, <1>3, <2>2, <4>1 DEF Reset, OnlyFiber, CallsNext, fiberVars
      <3>5. CASE PostHold(t)
        BY <1>2, <1>3, <3>5 DEF PostHold, StoreHold, OnlyFiber, CallsNext, f
      <3> QED
        BY <1>7, <3>1, <3>2, <3>3, <3>4, <3>5
    <2>4. Keep(Fibers, c)
      BY <2>2, <2>3 DEF Keep, OnlyFiber, CallsNext, WillCall
    <2>5. ~HasInHand(t, c) /\ ~HasInHand(t, c)'
      BY <2>1 DEF HasInHand
    <2> QED
      BY <1>1, <1>5, <2>1, <2>4, <2>5, ConservedMove
  <1> QED
    BY <1>6, <1>7

\* A callback in hand is put in a fiber in hand.
LEMMA ConservedDispatchCb ==
    ASSUME Shape, Hands, FiberInv, NEW c \in Cbs, Conserved(c), NEW t \in Threads, DispatchCb(t)
    PROVE  Conserved(c)'
  <1>1. /\ pc[t] = "dispatch" /\ ft[t].cb # NoCb /\ ft[t].fiber = NoFiber
        /\ pc' = [pc EXCEPT ![t] = "swapin"]
        /\ ft' = [ft EXCEPT ![t] = NoTask]
        /\ UNCHANGED <<m_fibers, submitted, entered>>
    BY DEF DispatchCb, Goto, taskVars, historyVars, FiberInv, TasksDistinct
  <1>2. PICK g \in Fibers :
          /\ cb_fiber' = [cb_fiber EXCEPT ![t] = g]
          /\ OnlyFiber(g) /\ m_state'[g] = "INIT" /\ m_cb'[g] = ft[t].cb
          /\ m_state[g] = "INIT" => m_cb[g] = NoCb
          /\ ~Queued(g) /\ \A u \in Threads \ {t} : ~Holds(u, g)
    BY CbFiber
  <1>3. /\ OthersStay(t) /\ ft'[t] = NoTask /\ cb_fiber'[t] = g /\ pc'[t] = "swapin"
        /\ NoTask.fiber = NoFiber /\ g # NoFiber /\ c # NoCb
    BY <1>1, <1>2, FiberAssumption DEF Shape, OthersStay, NoTask
  <1>4. /\ Keep(QueuedFibers, c)
        /\ \A u \in Threads \ {t} : Keep({h \in Fibers : Holds(u, h)}, c)
    BY <1>2 DEF Keep, QueuedFibers, OnlyFiber, CallsNext, WillCall
  <1>5. HasInHand(t, c) <=> ft[t].cb = c
    <2>1. Cur(t) = cb_fiber[t] /\ SpareEmpty(t)
      BY <1>1 DEF Cur, FiberInv, HandsOrdered
    <2> QED
      BY <1>1, <1>3, <2>1 DEF HasInHand, SpareEmpty, OnFiber, WillCall
  <1>6. HasInHand(t, c)' <=> ft[t].cb = c
    BY <1>2, <1>3 DEF HasInHand, Cur, WillCall
  <1>7. entered[c] \in Nat
    BY HistoryType
  <1> QED
    BY <1>1, <1>3, <1>4, <1>5, <1>6, <1>7, ConservedStep

\* A task taken from the list is in hand.
LEMMA ConservedTake ==
    ASSUME Shape, Hands, FiberInv, NEW c \in Cbs, Conserved(c), NEW t \in Threads, Take(t)
    PROVE  Conserved(c)'
  <1>1. PICK i \in 1..Len(m_fibers) :
          /\ ft' = [ft EXCEPT ![t] = m_fibers[i]]
          /\ m_fibers' = Without(m_fibers, i)
    BY DEF Take
  <1> DEFINE x == m_fibers[i]
  <1>2. /\ pc[t] = "take" /\ pc' = [pc EXCEPT ![t] = "dispatch"]
        /\ UNCHANGED <<m_state, m_cb, cb_fiber, submitted, entered>>
        /\ ft[t] = NoTask /\ c # NoCb
    BY FiberAssumption DEF Take, Goto, fiberVars, historyVars, Hands, HandsEmpty
  <1>3. x \in FiberAndThread /\ (x.fiber # NoFiber => x.cb = NoCb)
    BY TaskType DEF FiberInv, TasksDistinct
  <1>4. /\ Cardinality(QueuedAt(c)) \in Nat
        /\ Cardinality(QueuedAt(c)') = Cardinality(QueuedAt(c)) - (IF x \in BringsNext(c) THEN 1 ELSE 0)
    <2>1. Keep(QueuedFibers, c)
      BY <1>2 DEF Keep, CallsNext, WillCall
    <2> QED
      BY <1>1, <2>1, QueueShrinks
  <1> HIDE DEF x
  <1>5. OthersStay(t) /\ ft'[t] = x /\ pc'[t] = "dispatch"
    BY <1>1, <1>2 DEF Shape, OthersStay, x
  <1>6. HasInHand(t, c)' <=> x \in BringsNext(c)
    <2>1. Cur(t)' = IF x.fiber # NoFiber THEN x.fiber ELSE cb_fiber[t]
      BY <1>2, <1>5 DEF Cur
    <2>2. SpareEmpty(t)
      BY DEF FiberInv, HandsOrdered
    <2>3. CASE x.fiber # NoFiber
      BY <1>2, <1>3, <1>5, <2>1, <2>3 DEF HasInHand, WillCall, BringsNext, CallsNext
    <2>4. CASE x.fiber = NoFiber
      BY <1>2, <1>3, <1>5, <2>1, <2>2, <2>4 DEF HasInHand, WillCall, BringsNext, SpareEmpty, OnFiber
    <2> QED
      BY <2>3, <2>4
  <1>7. ~HasInHand(t, c)
    BY <1>2 DEF HasInHand
  <1>8. \A u \in Threads \ {t} : Keep({h \in Fibers : Holds(u, h)}, c)
    BY <1>2 DEF Keep, CallsNext, WillCall
  <1>9. entered[c] \in Nat /\ Cardinality(InHandAt(c)) \in Nat
    BY <1>5, <1>8, HistoryType, HandMoves
  <1>10. Cardinality(InHandAt(c)') = Cardinality(InHandAt(c)) + (IF x \in BringsNext(c) THEN 1 ELSE 0)
    <2>1. CASE x \in BringsNext(c)
      BY <1>5, <1>6, <1>7, <1>8, <1>9, <2>1, HandMoves
    <2>2. CASE x \notin BringsNext(c)
      <3>1. Cardinality(InHandAt(c)') = Cardinality(InHandAt(c))
        BY <1>5, <1>6, <1>7, <1>8, <2>2, HandMoves
      <3> QED
        BY <1>9, <2>2, <3>1
    <2> QED
      BY <2>1, <2>2
  <1> QED
    BY <1>2, <1>4, <1>9, <1>10 DEF Conserved

\* Task x goes to the end of the list: a new callback, or a fiber that has
\* made its call.
LEMMA ConservedSchedule ==
    ASSUME Shape, NEW c \in Cbs, Conserved(c), NEW t \in Threads, OthersStay(t), UNCHANGED entered,
           NEW x \in FiberAndThread, x.fiber # NoFiber \/ x.cb # NoCb,
           m_fibers' = ScheduleNoLock(m_fibers, x), Keep(QueuedFibers, c),
           \A u \in Threads \ {t} : Keep({f \in Fibers : Holds(u, f)}, c),
           HasInHand(t, c)' <=> HasInHand(t, c),
           x \in BringsNext(c) => c \notin submitted,
           c \in submitted' <=> c \in submitted \/ x \in BringsNext(c)
    PROVE  Conserved(c)'
  <1>1. /\ Cardinality(QueuedAt(c)) \in Nat
        /\ Cardinality(QueuedAt(c)') = Cardinality(QueuedAt(c)) + (IF x \in BringsNext(c) THEN 1 ELSE 0)
    BY QueueGrows
  <1>2. Cardinality(InHandAt(c)) \in Nat /\ Cardinality(InHandAt(c)') = Cardinality(InHandAt(c))
    BY HandMoves
  <1>3. entered[c] \in Nat
    BY HistoryType
  <1>4. CASE x \in BringsNext(c)
    BY <1>1, <1>2, <1>3, <1>4 DEF Conserved
  <1>5. CASE x \notin BringsNext(c)
    BY <1>1, <1>2, <1>3, <1>5 DEF Conserved
  <1> QED
    BY <1>4, <1>5

\* A fiber that has been entered is scheduled again.
LEMMA ConservedAgain ==
    ASSUME Shape, Hands, FiberInv, NEW c \in Cbs, Conserved(c), NEW t \in Threads,
           \/ Requeue(t) \/ \E thread \in Threads : SwitchTo(t, thread)
           \/ Disciplined /\ \E f \in Fibers, thread \in Threads \cup {AnyThread} : Wake(t, f, thread)
    PROVE  Conserved(c)'
  <1>1. PICK f \in Fibers, thread \in Threads \cup {AnyThread} :
          /\ m_fibers' = ScheduleNoLock(m_fibers, FiberTask(f, thread))
          /\ m_state[f] # "INIT"
          /\ \/ pc[t] \in {"requeue", "exec"} /\ pc'[t] \in {"take", "hold"}
             \/ UNCHANGED <<pc, ft, cb_fiber>>
    <2>1. ASSUME pc[t] \in {"requeue", "exec"}
          PROVE  Cur(t) \in Fibers /\ m_state[Cur(t)] # "INIT"
      <3>1. CurState(t) /\ Cur(t) # NoFiber
        BY <2>1 DEF FiberInv, HandsOrdered, CurState, OnFiber
      <3> QED
        BY <2>1, <3>1, CurType DEF CurState
    <2>2. CASE Requeue(t)
      <3>1. pc[t] = "requeue" /\ pc'[t] = "take"
        BY <2>2 DEF Requeue, Goto, Shape
      <3> QED
        BY <2>1, <2>2, <3>1 DEF Requeue
    <2>3. CASE \E thread \in Threads : SwitchTo(t, thread)
      <3>1. PICK thread \in Threads : SwitchTo(t, thread)
        BY <2>3
      <3>2. pc[t] = "exec" /\ pc'[t] = "hold"
        BY <3>1 DEF SwitchTo, Running, Goto, Shape
      <3> QED
        BY <2>1, <3>1, <3>2 DEF SwitchTo
    <2>4. CASE Disciplined /\ \E f \in Fibers, thread \in Threads \cup {AnyThread} : Wake(t, f, thread)
      <3>1. PICK f \in Fibers, thread \in Threads \cup {AnyThread} : Wake(t, f, thread)
        BY <2>4
      <3>2. m_state[f] # "INIT"
        BY <2>4, <3>1 DEF Wake, Suspended, Stale, Finished
      <3> QED
        BY <3>1, <3>2 DEF Wake, localVars
    <2> QED
      BY <2>2, <2>3, <2>4
  <1>2. /\ OthersStay(t) /\ UNCHANGED <<m_state, m_cb, submitted, entered>>
    BY DEF Requeue, SwitchTo, Wake, DropCbFiber, Goto, OthersStay, Shape, fiberVars, localVars, historyVars
  <1> DEFINE x == FiberTask(f, thread)
  <1>3. x \in FiberAndThread /\ x.fiber = f /\ x.cb = NoCb /\ f # NoFiber /\ c # NoCb
    BY FiberAssumption DEF FiberTask, FiberAndThread
  <1> HIDE DEF x
  <1>4. x \notin BringsNext(c)
    BY <1>1, <1>2, <1>3 DEF BringsNext, CallsNext
  <1>5. /\ Keep(QueuedFibers, c)
        /\ \A u \in Threads \ {t} : Keep({h \in Fibers : Holds(u, h)}, c)
    BY <1>2 DEF Keep, CallsNext, WillCall
  <1>6. HasInHand(t, c)' <=> HasInHand(t, c)
    <2>1. CASE UNCHANGED <<pc, ft, cb_fiber>>
      BY <1>2, <2>1 DEF HasInHand, Cur, WillCall
    <2>2. CASE pc[t] \in {"requeue", "exec"} /\ pc'[t] \in {"take", "hold"}
      BY <2>2 DEF HasInHand
    <2> QED
      BY <1>1, <2>1, <2>2
  <1> QED
    BY <1>1, <1>2, <1>3, <1>4, <1>5, <1>6, ConservedSchedule DEF x

\* A callback is given to the scheduler, itself or in a new fiber.
LEMMA ConservedSubmit ==
    ASSUME Shape, Hands, FiberInv, NEW c \in Cbs, Conserved(c), NEW a \in Threads, NEW d \in Cbs,
           NEW thread \in Threads \cup {AnyThread},
           ScheduleCb(a, d, thread) \/ \E f \in Fibers : ScheduleFiber(a, f, d, thread)
    PROVE  Conserved(c)'
  <1>1. /\ UNCHANGED <<pc, ft, cb_fiber, entered>>
        /\ d \notin submitted /\ submitted' = submitted \cup {d}
    BY DEF ScheduleCb, ScheduleFiber, localVars
  <1>2. OthersStay(a) /\ c # NoCb /\ d # NoCb
    BY <1>1, FiberAssumption DEF OthersStay
  <1>3. PICK x \in FiberAndThread :
          /\ m_fibers' = ScheduleNoLock(m_fibers, x)
          /\ x.fiber # NoFiber \/ x.cb # NoCb
          /\ x \in BringsNext(c) <=> c = d
          /\ Keep(QueuedFibers, c)
          /\ \A u \in Threads : Keep({h \in Fibers : Holds(u, h)}, c)
    <2>1. CASE ScheduleCb(a, d, thread)
      <3> DEFINE x == CbTask(d, thread)
      <3>1. x \in FiberAndThread /\ x.fiber = NoFiber /\ x.cb = d
        BY DEF CbTask, FiberAndThread
      <3>2. m_fibers' = ScheduleNoLock(m_fibers, x) /\ UNCHANGED <<m_state, m_cb>>
        BY <2>1 DEF ScheduleCb, fiberVars
      <3> HIDE DEF x
      <3>3. x \in BringsNext(c) <=> c = d
        BY <3>1 DEF BringsNext
      <3>4. Keep(QueuedFibers, c) /\ \A u \in Threads : Keep({h \in Fibers : Holds(u, h)}, c)
        BY <3>2 DEF Keep, CallsNext, WillCall
      <3> QED
        BY <1>2, <3>1, <3>2, <3>3, <3>4
    <2>2. CASE \E f \in Fibers : ScheduleFiber(a, f, d, thread)
      <3>1. PICK f \in Fibers : ScheduleFiber(a, f, d, thread)
        BY <2>2
      <3> DEFINE x == FiberTask(f, thread)
      <3>2. x \in FiberAndThread /\ x.fiber = f /\ x.cb = NoCb /\ f # NoFiber
        BY FiberAssumption DEF FiberTask, FiberAndThread
      <3>3. m_fibers' = ScheduleNoLock(m_fibers, x) /\ Construct(f, d)
        BY <3>1 DEF ScheduleFiber
      <3> HIDE DEF x
      <3>4. /\ m_state[f] = "NONE" /\ m_state'[f] = "INIT" /\ m_cb'[f] = d
            /\ OnlyFiber(f)
        BY <3>3 DEF Construct, OnlyFiber, Shape, FiberTypeOK
      <3>5. x \in BringsNext(c) <=> c = d
        BY <1>2, <3>2, <3>4 DEF BringsNext, CallsNext
      <3>6. ~Queued(f) /\ \A u \in Threads : ~Holds(u, f)
        BY <3>2, <3>4, HeldBuilt DEF Queued, FiberInv, TasksDistinct
      <3>7. Keep(QueuedFibers, c) /\ \A u \in Threads : Keep({h \in Fibers : Holds(u, h)}, c)
        BY <3>4, <3>6 DEF Keep, QueuedFibers, OnlyFiber, CallsNext, WillCall
      <3> QED
        BY <3>2, <3>3, <3>5, <3>7
    <2> QED
      BY <2>1, <2>2
  <1>4. HasInHand(a, c)' <=> HasInHand(a, c)
    <2>1. Cur(a)' = Cur(a)
      BY <1>1 DEF Cur
    <2>2. Cur(a) # NoFiber => Cur(a) \in {h \in Fibers : Holds(a, h)}
      BY CurHeld
    <2>3. Cur(a) # NoFiber => (CallsNext(Cur(a), c) <=> WillCall(Cur(a), c))
      BY <1>3, <2>2 DEF Keep
    <2> QED
      BY <1>1, <2>1, <2>3 DEF HasInHand, WillCall, CallsNext
  <1> QED
    BY <1>1, <1>2, <1>3, <1>4, ConservedSchedule

\* Two callbacks are given to the scheduler under one lock.
LEMMA ConservedBatch ==
    ASSUME Shape, NEW c \in Cbs, Conserved(c), NEW a \in Threads,
           NEW d \in Cbs, NEW e \in Cbs, ScheduleBatch(a, d, e)
    PROVE  Conserved(c)'
  <1> DEFINE x == CbTask(d, AnyThread)
             y == CbTask(e, AnyThread)
             q == ScheduleNoLock(m_fibers, x)
  <1>1. /\ x \in FiberAndThread /\ x.fiber = NoFiber /\ x.cb = d
        /\ y \in FiberAndThread /\ y.fiber = NoFiber /\ y.cb = e
        /\ d # NoCb /\ e # NoCb
    BY FiberAssumption DEF CbTask, FiberAndThread
  <1>2. /\ m_fibers' = ScheduleNoLock(q, y)
        /\ UNCHANGED <<m_state, m_cb, pc, ft, cb_fiber, entered>>
        /\ d \notin submitted /\ e \notin submitted /\ d # e
        /\ submitted' = submitted \cup {d, e}
    BY DEF ScheduleBatch, fiberVars, localVars
  <1> HIDE DEF x, y
  <1>3. m_fibers \in Seq(FiberAndThread) /\ q = Append(m_fibers, x)
    BY <1>1 DEF Shape, ScheduleNoLock
  <1> HIDE DEF q
  <1>4. q \in Seq(FiberAndThread) /\ m_fibers' = Append(q, y) /\ m_fibers' \in Seq(FiberAndThread)
    BY <1>1, <1>2, <1>3, AppendProperties DEF ScheduleNoLock
  <1>5. (x \in BringsNext(c) <=> c = d) /\ (y \in BringsNext(c) <=> c = e)
    BY <1>1 DEF BringsNext
  <1>6. Keep(QueuedFibers, c) /\ \A u \in Threads \ {a} : Keep({h \in Fibers : Holds(u, h)}, c)
    BY <1>2 DEF Keep, CallsNext, WillCall
  <1>7. QueuedAt(c) = Places(m_fibers, BringsNext(c)) /\ QueuedAt(c)' = Places(m_fibers', BringsNext(c))
    BY <1>4, <1>6, QueuePlaces
  <1>8. /\ Cardinality(Places(m_fibers, BringsNext(c))) \in Nat
        /\ Cardinality(Places(q, BringsNext(c)))
             = Cardinality(Places(m_fibers, BringsNext(c))) + (IF x \in BringsNext(c) THEN 1 ELSE 0)
        /\ Cardinality(Places(m_fibers', BringsNext(c)))
             = Cardinality(Places(q, BringsNext(c))) + (IF y \in BringsNext(c) THEN 1 ELSE 0)
    BY <1>1, <1>3, <1>4, PlacesAppend
  <1>9. Cardinality(InHandAt(c)) \in Nat /\ Cardinality(InHandAt(c)') = Cardinality(InHandAt(c))
    <2>1. OthersStay(a) /\ (HasInHand(a, c)' <=> HasInHand(a, c))
      BY <1>2 DEF OthersStay, HasInHand, Cur, WillCall
    <2> QED
      BY <1>6, <2>1, HandMoves
  <1>10. entered[c] \in Nat
    BY HistoryType
  <1>11. Cardinality(QueuedAt(c)) \in Nat
         /\ Cardinality(QueuedAt(c)') = Cardinality(QueuedAt(c)) + (IF c \in {d, e} THEN 1 ELSE 0)
    BY <1>2, <1>5, <1>7, <1>8
  <1>12. CASE c \in {d, e}
    BY <1>2, <1>9, <1>10, <1>11, <1>12 DEF Conserved
  <1>13. CASE c \notin {d, e}
    BY <1>2, <1>9, <1>10, <1>11, <1>13 DEF Conserved
  <1> QED
    BY <1>12, <1>13

\* The threads start() and stop() move have nothing in hand.
LEMMA ConservedOwner ==
    ASSUME Shape, Hands, FiberInv, NEW c \in Cbs, Conserved(c), OwnerStep
    PROVE  Conserved(c)'
  <1>1. UNCHANGED <<m_fibers, m_state, m_cb, ft, cb_fiber, submitted, entered>>
    BY Zenon DEF OwnerStep, ApiStep, Start, StopBegin, Destroy, StartThread, StartDone, StopNoThreads,
       StopSet, StopRoot, RootCall, StopSwap, StopJoin, Joined, fiberVars, taskVars, localVars,
       historyVars
  <1>2. PICK t \in Threads :
          /\ \A u \in Threads \ {t} : pc'[u] = pc[u]
          /\ UNCHANGED pc \/ (pc[t] \in {"none", "exit"} /\ pc'[t] \in {"take", "created"})
    <2>1. Caller \in Threads
      BY DEF Threads
    <2>2. CASE StopRoot
      BY <2>1, <2>2 DEF StopRoot, RootCall, Goto, Shape, Hands, CallerInRoot
    <2>3. CASE \E w \in Workers, ran \in BOOLEAN : StartThread(w, ran)
      <3>1. PICK w \in Workers, ran \in BOOLEAN : StartThread(w, ran)
        BY <2>3
      <3> QED
        BY <3>1 DEF StartThread, Goto, Shape, Threads
    <2>4. CASE Start \/ StopBegin \/ Destroy \/ StartDone \/ StopNoThreads \/ StopSet \/ StopSwap \/ StopJoin
      BY <2>1, <2>4, Zenon DEF Start, StopBegin, Destroy, StartDone, StopNoThreads, StopSet, StopSwap,
         StopJoin
    <2> QED
      BY <2>2, <2>3, <2>4 DEF OwnerStep, ApiStep
  <1>3. OthersStay(t)
    BY <1>1, <1>2 DEF OthersStay
  <1>4. Keep(Fibers, c)
    BY <1>1 DEF Keep, CallsNext, WillCall
  <1>5. HasInHand(t, c)' <=> HasInHand(t, c)
    BY <1>1, <1>2 DEF HasInHand, Cur, WillCall
  <1> QED
    BY <1>1, <1>3, <1>4, <1>5, ConservedMove

\* Every step that disciplined callers allow conserves the callbacks.
LEMMA TasksConservedNext ==
    ASSUME Disciplined, CountInv, FiberInv, TasksConserved, [Next]_vars
    PROVE  TasksConserved'
  <1>1. Shape /\ Hands
    BY CountInvParts
  <1> SUFFICES ASSUME NEW c \in Cbs PROVE Conserved(c)'
    BY DEF TasksConserved, Conserved
  <1>2. Conserved(c)
    BY DEF TasksConserved, Conserved
  <1>3. CASE OwnerStep
    BY <1>1, <1>2, <1>3, ConservedOwner
  <1>4. ASSUME NEW t \in Threads, RunStep(t) \/ CallbackStep(t) PROVE Conserved(c)'
    BY <1>1, <1>2, <1>4, ConservedMoves, ConservedCur, ConservedDispatchCb, ConservedTake, ConservedAgain
       DEF RunStep, CallbackStep
  <1>5. ASSUME NEW a \in Threads, ScheduleStep(a) PROVE Conserved(c)'
    BY <1>1, <1>2, <1>5, ConservedSubmit, ConservedBatch, ConservedAgain DEF ScheduleStep
  <1>6. CASE UNCHANGED vars
    <2>1. UNCHANGED <<m_fibers, m_state, m_cb, pc, ft, cb_fiber, submitted, entered>>
      BY <1>6 DEF vars, fiberVars, taskVars, localVars, historyVars
    <2> QED
      BY <1>2, <2>1 DEF Conserved, QueuedAt, InHandAt, Cur
  <1> QED
    BY <1>3, <1>4, <1>5, <1>6 DEF Next, Step, Over

\* A scheduler that has been constructed has been given no callback.
LEMMA TasksConservedInit == Init => TasksConserved
  <1> SUFFICES ASSUME Init, NEW c \in Cbs
               PROVE  Cardinality(QueuedAt(c)) + Cardinality(InHandAt(c)) + entered[c]
                        = IF c \in submitted THEN 1 ELSE 0
    BY DEF TasksConserved
  <1>1. QueuedAt(c) = {} /\ InHandAt(c) = {}
    BY DEF Init, QueuedAt, InHandAt
  <1> QED
    BY <1>1, FS_EmptySet DEF Init

\* With disciplined callers no callback given to schedule() is lost or
\* called twice, for any number of threads, fibers and callbacks: it is in
\* one place, the list or one thread's hands, until it is called.
THEOREM CallbacksConserved == ASSUME Disciplined PROVE Spec => []TasksConserved
  <1> DEFINE Inv == CountInv /\ FiberInv /\ TasksConserved
  <1>1. Init => Inv
    BY CountInvInit, FiberInvInit, TasksConservedInit
  <1>2. Inv /\ [Next]_vars => Inv'
    BY CountInvNext, FiberInvNext, TasksConservedNext
  <1>3. Inv => TasksConserved
    OBVIOUS
  <1> QED
    BY <1>1, <1>2, <1>3, PTL DEF Spec

-----------------------------------------------------------------------------
(***************************************************************************)
(* What stop() leaves behind.                                              *)
(***************************************************************************)

\* In a quiet pool every callback has been called.
LEMMA QuietDone ==
    ASSUME Shape, Hands, FiberInv, TasksConserved, m_fibers = <<>>, ActiveThreads = {},
           NEW c \in submitted
    PROVE  entered[c] = 1
  <1>1. c \in Cbs /\ c # NoCb
    BY FiberAssumption DEF Shape
  <1>2. ASSUME NEW t \in Threads PROVE ~HasInHand(t, c)
    <2>1. pc[t] # "swapin" /\ (pc[t] = "dispatch" => ft[t] = NoTask)
      BY DEF ActiveThreads
    <2> QED
      BY <1>1, <2>1, SpareIsNoCall
  <1>3. QueuedAt(c) = {}
    BY DEF QueuedAt
  <1>4. InHandAt(c) = {}
    BY <1>2 DEF InHandAt, HasInHand, WillCall
  <1>5. Cardinality(QueuedAt(c)) = 0 /\ Cardinality(InHandAt(c)) = 0
    BY <1>3, <1>4, FS_EmptySet
  <1>6. Cardinality(QueuedAt(c)) + Cardinality(InHandAt(c)) + entered[c] = 1
    BY <1>1 DEF TasksConserved
  <1>7. entered[c] \in Nat
    BY <1>1, HistoryType
  <1> QED
    BY <1>5, <1>6, <1>7

\* When stop() returns from its joins, or at once, the pool is quiet.
LEMMA StopQuiet ==
    ASSUME CountInv, PoolInv, QuietInv, Next, api' # api,
           \/ api = "stopJoin" /\ api' = "idle" /\ (UseCaller \/ thrs # {})
           \/ api = "stopNoThreads" /\ api' = "idle"
    PROVE  m_fibers = <<>> /\ ActiveThreads = {}
  <1>1. Shape /\ CountsExact /\ Hands
    BY CountInvParts
  <1>2. aborted = "none" /\ (StopJoin \/ StopNoThreads)
    <2>1. ~(UNCHANGED vars)
      BY DEF vars, controlVars
    <2>2. ASSUME NEW t \in Threads, RunStep(t) \/ CallbackStep(t) PROVE FALSE
      BY <1>1, <2>2, RunStepFrame
    <2>3. ASSUME NEW a \in Threads, ScheduleStep(a) PROVE FALSE
      BY <2>3 DEF ScheduleStep, ScheduleCb, ScheduleFiber, ScheduleBatch, Wake, controlVars
    <2>4. aborted = "none" /\ OwnerStep
      BY <2>1, <2>2, <2>3 DEF Next, Step, Over
    <2> QED
      BY <2>4 DEF OwnerStep, ApiStep, Start, StopBegin, Destroy, StartThread, StartDone,
         StopSet, StopRoot, RootCall, StopSwap
  <1>3. CASE StopNoThreads
    BY <1>1, <1>3, NoneActive DEF StopNoThreads
  <1>4. CASE StopJoin
    <2>1. api = "stopJoin" /\ \A w \in thrs : pc[w] = "exit" /\ w \in Threads /\ w \in Pool
      BY <1>1, <1>4 DEF StopJoin, Joined, Shape, Threads, Pool
    <2>2. \A w \in thrs : idle_term[w]
      BY <2>1 DEF QuietInv, IdleFinished
    <2>3. Leaving
      BY <1>4, <2>1, <2>2 DEF Leaving, StopJoin
    <2> QED
      BY <1>2, <2>3 DEF QuietInv
  <1> QED
    BY <1>2, <1>3, <1>4

\* stop() returns only when every callback given to the scheduler has been
\* called, if the callers are disciplined and call no YieldToReady: there
\* is a thread to run them, and it leaves when there is nothing to run.
THEOREM StopDrained == ASSUME Disciplined, ~ReadyYields PROVE Spec => StopDrains
  <1> DEFINE Inv == CountInv /\ PoolInv /\ NoReady /\ QuietInv /\ FiberInv /\ TasksConserved
             Returns == \/ api = "stopJoin" /\ api' = "idle" /\ (UseCaller \/ thrs # {})
                        \/ api = "stopNoThreads" /\ api' = "idle"
             Drained == m_fibers = <<>> /\ \A c \in submitted : entered[c] = 1
  <1>1. Init => Inv
    BY CountInvInit, PoolInvInit, NoReadyInit, QuietInvInit, FiberInvInit, TasksConservedInit
  <1>2. Inv /\ [Next]_vars => Inv'
    BY CountInvNext, PoolInvNext, NoReadyNext, QuietInvNext, FiberInvNext, TasksConservedNext
  <1>3. Inv /\ [Next]_vars => [Returns => Drained]_vars
    <2> SUFFICES ASSUME Inv, Next, Returns PROVE Drained
      BY DEF vars, controlVars
    <2>1. m_fibers = <<>> /\ ActiveThreads = {}
      BY StopQuiet
    <2> QED
      BY <2>1, QuietDone, CountInvParts
  <1> QED
    BY <1>1, <1>2, <1>3, PTL DEF Spec, StopDrains


-----------------------------------------------------------------------------
(***************************************************************************)
(* The scheduler keeps what WorkPool promises.  With disciplined callers   *)
(* every step is a step of WorkPool, or changes nothing its users see.     *)
(***************************************************************************)

\* Where start() and stop() leave the pool: it is started only with threads
\* or its caller to run it, and is told to stop before the root fiber runs.
StartInv ==
    /\ api \in {"stopNoThreads", "stopRoot", "root"} => UseCaller
    /\ api \in {"stopRoot", "root", "stopSwap", "stopJoin", "gone"} => m_stopping
    /\ ~m_stopping /\ api # "starting" => HasThreads

\* A scheduler that has been constructed is stopped.
LEMMA StartInvInit == Init => StartInv
  BY DEF Init, StartInv

\* No thread outside start() and stop() changes what a scheduler has threads for.
LEMMA ControlStays ==
    ASSUME CountInv, NEW t \in Threads, RunStep(t) \/ CallbackStep(t) \/ ScheduleStep(t)
    PROVE  /\ UNCHANGED <<m_stopping, m_threads, thrs>>
           /\ api' = api \/ (api = "root" /\ api' = "stopSwap")
  <1>1. Shape /\ Hands
    BY CountInvParts
  <1>2. CASE RunStep(t) \/ CallbackStep(t)
    <2>1. /\ pc[t] \notin {"none", "exit"}
          /\ UNCHANGED <<m_stopping, m_threads, thrs>>
          /\ api' = api \/ (t = Caller /\ api' = "stopSwap")
      BY <1>1, <1>2, RunStepFrame
    <2> QED
      BY <1>1, <2>1 DEF Hands, CallerInRoot
  <1>3. CASE ScheduleStep(t)
    BY <1>3 DEF ScheduleStep, ScheduleCb, ScheduleFiber, ScheduleBatch, Wake, controlVars
  <1> QED
    BY <1>2, <1>3

\* start() leaves a pool without threads only if the caller is one of them.
LEMMA StartInvNext ==
    ASSUME Disciplined, CountInv, PoolInv, StartInv, [Next]_vars
    PROVE  StartInv'
  <1>1. CASE UNCHANGED vars
    BY <1>1 DEF vars, controlVars, StartInv, HasThreads
  <1>2. ASSUME NEW t \in Threads, RunStep(t) \/ CallbackStep(t) \/ ScheduleStep(t)
        PROVE  StartInv'
    <2>1. /\ UNCHANGED <<m_stopping, m_threads, thrs>>
          /\ api' = api \/ (api = "root" /\ api' = "stopSwap")
      BY <1>2, ControlStays
    <2> QED
      BY <2>1 DEF StartInv, HasThreads
  <1>3. CASE Start \/ StopBegin \/ Destroy
    BY <1>3 DEF Start, StopBegin, Destroy, StartInv, HasThreads
  <1>4. CASE \E w \in Workers, ran \in BOOLEAN : StartThread(w, ran)
    BY <1>4 DEF StartThread, StartInv, HasThreads
  <1>5. CASE StartDone
    <2>1. m_threads = {} => 0 \in ThreadCounts
      BY <1>5, FS_EmptySet DEF StartDone, PoolInv
    <2>2. HasThreads'
      BY <1>5, <2>1, SchedulerAssumption DEF StartDone, HasThreads
    <2> QED
      BY <1>5, <2>2 DEF StartDone, StartInv
  <1>6. CASE StopNoThreads \/ StopSet \/ StopJoin
    BY <1>6 DEF StopNoThreads, StopSet, StopJoin, StartInv, HasThreads
  <1>7. CASE StopRoot \/ StopSwap
    BY <1>7 DEF StopRoot, RootCall, StopSwap, StartInv, HasThreads
  <1> QED
    BY <1>1, <1>2, <1>3, <1>4, <1>5, <1>6, <1>7 DEF Next, Step, Over, OwnerStep, ApiStep

\* A thread in run() is one of a pool that is started, or that stop() is in
\* the middle of stopping.
LEMMA ThreadsOnlyWhile ==
    ASSUME CountInv, PoolInv, StartInv, aborted = "none",
           NEW t \in Threads, pc[t] \notin {"none", "exit"}
    PROVE  Status \in {"running", "stopping"}
  <1>1. Shape /\ Hands
    BY CountInvParts
  <1>2. CASE t = Caller
    BY <1>1, <1>2 DEF Hands, CallerInRoot, StartInv, Status, InStop, HasThreads
  <1>3. CASE t \in Workers
    <2>1. t \in m_threads \cup thrs
      BY <1>3 DEF PoolInv
    <2>2. HasThreads
      BY <2>1 DEF HasThreads
    <2>3. CASE InStop
      BY <2>2, <2>3 DEF Status, InStop
    <2>4. CASE ~InStop
      <3>1. api \in {"idle", "starting", "gone"} /\ t \in m_threads
        BY <1>1, <2>1, <2>4 DEF Shape, Api, InStop, PoolInv
      <3>2. ~m_stopping /\ api # "gone"
        BY <3>1 DEF PoolInv, StartInv
      <3> QED
        BY <2>4, <3>2 DEF Status
    <2> QED
      BY <2>3, <2>4
  <1> QED
    BY <1>2, <1>3 DEF Threads


\* What the users see after a step that moves none of them.
LEMMA StatusStays ==
    ASSUME StartInv, UNCHANGED <<m_stopping, m_threads, thrs>>,
           api' = api \/ (api = "root" /\ api' = "stopSwap")
    PROVE  Status' = Status
  BY DEF Status, InStop, HasThreads

\* A callback that has not been given has not been called; one that waits
\* with a thread that is about to call it was given, and not called before.
LEMMA WaitsUntilCalled ==
    ASSUME Shape, TasksConserved, NEW c \in Cbs
    PROVE  /\ c \notin submitted => entered[c] = 0
           /\ (\E t \in Threads : HasInHand(t, c)) => c \in submitted /\ entered[c] = 0
  <1>1. entered[c] \in Nat
    BY HistoryType
  <1>2. Cardinality(InHandAt(c)) \in Nat /\ (InHandAt(c) # {} => Cardinality(InHandAt(c)) # 0)
    <2>1. IsFiniteSet(InHandAt(c))
      BY FiniteThreads, FS_Subset DEF InHandAt
    <2> QED
      BY <2>1, FS_CardinalityType, FS_EmptySet
  <1>3. Cardinality(QueuedAt(c)) \in Nat
    <2>1. IsFiniteSet(1..Len(m_fibers)) /\ QueuedAt(c) \subseteq 1..Len(m_fibers)
      BY FS_Interval DEF Shape, QueuedAt
    <2> QED
      BY <2>1, FS_Subset, FS_CardinalityType
  <1>4. Cardinality(QueuedAt(c)) + Cardinality(InHandAt(c)) + entered[c]
          = IF c \in submitted THEN 1 ELSE 0
    BY DEF TasksConserved
  <1>5. (\E t \in Threads : HasInHand(t, c)) => InHandAt(c) # {}
    BY DEF InHandAt, HasInHand, WillCall
  <1> QED
    BY <1>1, <1>2, <1>3, <1>4, <1>5

\* The steps of run() and of callbacks: entering a callback is a call of one
\* that waits, the others change nothing.
LEMMA RunKeepsPromise ==
    ASSUME CountInv, PoolInv, StartInv, FiberInv, TasksConserved, aborted = "none",
           NEW t \in Threads, RunStep(t) \/ CallbackStep(t)
    PROVE  (\E c \in Cbs : Promise!Call(c)) \/ UNCHANGED <<Waiting, entered, Status>>
  <1>1. Shape /\ Hands
    BY CountInvParts
  <1>2. Status' = Status
    BY ControlStays, StatusStays
  <1>3. CASE SwapIn(t)
    <2> DEFINE f == Cur(t)
    <2>1. /\ pc[t] = "swapin" /\ submitted' = submitted
          /\ entered' = [c \in Cbs |-> IF m_state[f] = "INIT" /\ m_cb[f] = c
                                       THEN entered[c] + 1 ELSE entered[c]]
      BY <1>3 DEF SwapIn
    <2>2. f # NoFiber /\ f \in Fibers
      BY <1>1, <2>1, CurType DEF FiberInv, HandsOrdered, CurState, OnFiber
    <2> HIDE DEF f
    <2>3. entered \in [Cbs -> Nat] /\ submitted \subseteq Cbs
      BY <1>1 DEF Shape
    <2>4. CASE m_state[f] = "INIT" /\ m_cb[f] # NoCb
      <3> DEFINE c == m_cb[f]
      <3>1. c \in Cbs
        BY <1>1, <2>2, <2>4 DEF Shape, FiberTypeOK
      <3>2. HasInHand(t, c)
        BY <2>1, <2>2, <2>4 DEF HasInHand, WillCall, f
      <3> HIDE DEF c
      <3>3. c \in submitted /\ entered[c] = 0
        BY <1>1, <3>1, <3>2, WaitsUntilCalled
      <3>4. entered' = [entered EXCEPT ![c] = @ + 1]
        BY <2>1, <2>3, <2>4 DEF c
      <3>5. Waiting' = Waiting \ {c}
        BY <2>1, <2>3, <3>1, <3>3, <3>4 DEF Waiting
      <3>6. Status \in {"running", "stopping"}
        BY <2>1, ThreadsOnlyWhile
      <3>7. Promise!Call(c)
        BY <1>2, <3>3, <3>4, <3>5, <3>6 DEF Promise!Call, Waiting
      <3> QED
        BY <3>1, <3>7
    <2>5. CASE ~(m_state[f] = "INIT" /\ m_cb[f] # NoCb)
      <3>1. entered' = entered
        BY <2>1, <2>3, <2>5, FiberAssumption
      <3> QED
        BY <1>2, <2>1, <3>1 DEF Waiting
    <2> QED
      BY <2>4, <2>5
  <1>4. CASE ~SwapIn(t)
    <2>1. UNCHANGED <<submitted, entered>>
      BY <1>4, Zenon DEF RunStep, CallbackStep, ThreadRun, Take, TakeNothing, DispatchFiber,
         DispatchCb, DispatchSkip, DispatchIdle, Break, Idle, IdleOut, SwapOut, Leave, PostReady,
         Requeue, PostFinished, PostHold, YieldToHold, YieldToReady, Return, Throw, SwitchTo,
         historyVars
    <2> QED
      BY <1>2, <2>1 DEF Waiting
  <1> QED
    BY <1>3, <1>4

\* The calls of schedule(): callbacks are given to a scheduler that exists.
LEMMA ScheduleKeepsPromise ==
    ASSUME CountInv, PoolInv, StartInv, TasksConserved, aborted = "none",
           NEW a \in Threads, ScheduleStep(a)
    PROVE  (\E S \in SUBSET Cbs : Promise!Submit(S)) \/ UNCHANGED <<Waiting, entered, Status>>
  <1>1. Shape /\ Hands
    BY CountInvParts
  <1>2. Status' = Status
    BY ControlStays, StatusStays
  <1>3. Status # "destroyed"
    <2>1. CanCall(a)
      BY DEF ScheduleStep, ScheduleCb, ScheduleFiber, ScheduleBatch, Wake
    <2>2. CASE api = "idle"
      BY <2>2 DEF Status
    <2>3. CASE Running(a)
      BY <2>3, ThreadsOnlyWhile DEF Running
    <2> QED
      BY <2>1, <2>2, <2>3 DEF CanCall
  <1>4. PICK S \in SUBSET Cbs :
          /\ S \cap submitted = {} /\ submitted' = submitted \cup S
          /\ entered' = entered
    <2>1. CASE \E f \in Fibers, thread \in Threads \cup {AnyThread} : Wake(a, f, thread)
      <3>1. submitted' = submitted \cup {} /\ entered' = entered
        BY <2>1 DEF Wake
      <3>2. {} \in SUBSET Cbs /\ {} \cap submitted = {}
        OBVIOUS
      <3> QED
        BY <3>1, <3>2, Zenon
    <2>2. CASE \E c \in Cbs, thread \in Threads \cup {AnyThread} :
                  ScheduleCb(a, c, thread) \/ \E f \in Fibers : ScheduleFiber(a, f, c, thread)
      <3>1. PICK c \in Cbs : /\ c \notin submitted
                             /\ submitted' = submitted \cup {c} /\ entered' = entered
        BY <2>2 DEF ScheduleCb, ScheduleFiber
      <3> QED
        BY <3>1
    <2>3. CASE \E c, d \in Cbs : ScheduleBatch(a, c, d)
      <3>1. PICK c \in Cbs, d \in Cbs : /\ {c, d} \cap submitted = {}
                                        /\ submitted' = submitted \cup {c, d} /\ entered' = entered
        BY <2>3 DEF ScheduleBatch
      <3> QED
        BY <3>1
    <2> QED
      BY <2>1, <2>2, <2>3 DEF ScheduleStep
  <1>5. \A c \in S : c \notin Waiting /\ entered[c] = 0
    BY <1>1, <1>4, WaitsUntilCalled DEF Waiting
  <1>6. Waiting' = Waiting \cup S
    BY <1>4, <1>5 DEF Waiting
  <1>7. CASE S = {}
    BY <1>2, <1>4, <1>6, <1>7
  <1>8. CASE S # {}
    BY <1>2, <1>3, <1>4, <1>5, <1>6, <1>8 DEF Promise!Submit
  <1> QED
    BY <1>7, <1>8


\* start(), stop() and the destructor: stop() reports the pool stopped when
\* no callback waits, except for a scheduler that has no thread.
LEMMA OwnerKeepsPromise ==
    ASSUME Disciplined, CountInv, PoolInv, QuietInv, StartInv, FiberInv, TasksConserved,
           aborted = "none", OwnerStep
    PROVE  Promise!Next \/ UNCHANGED <<Waiting, entered, Status>>
  <1>1. Shape /\ Hands
    BY CountInvParts
  <1>2. UNCHANGED <<submitted, entered>>
    BY Zenon DEF OwnerStep, ApiStep, Start, StopBegin, Destroy, StartThread, StartDone, StopNoThreads,
       StopSet, StopRoot, StopSwap, StopJoin, historyVars
  <1>3. UNCHANGED <<Waiting, entered>>
    BY <1>2 DEF Waiting
  <1>4. CASE Start
    <2>1. Promise!Start
      BY <1>3, <1>4 DEF Start, Promise!Start, Status, InStop
    <2> QED
      BY <2>1 DEF Promise!Next
  <1>5. CASE Destroy
    <2>1. Promise!Destroy
      BY <1>3, <1>5 DEF Destroy, Promise!Destroy, Status, InStop
    <2> QED
      BY <2>1 DEF Promise!Next
  <1>6. CASE StopBegin
    <2>1. api = "idle" /\ InStop' /\ ~InStop /\ api' # "gone" /\ UNCHANGED <<m_stopping, HasThreads>>
      BY <1>6 DEF StopBegin, InStop, HasThreads
    <2>2. CASE HasThreads
      <3>1. Promise!Stop
        BY <1>3, <2>1, <2>2 DEF Promise!Stop, Status
      <3> QED
        BY <3>1 DEF Promise!Next
    <2>3. CASE ~HasThreads
      <3>1. Status' = Status
        BY <2>1, <2>3 DEF Status, StartInv
      <3> QED
        BY <1>3, <3>1
    <2> QED
      BY <2>2, <2>3
  <1>7. CASE (\E w \in Workers, ran \in BOOLEAN : StartThread(w, ran)) \/ StartDone
    <2>1. Status' = Status
      BY <1>7 DEF StartThread, StartDone, Status, InStop
    <2> QED
      BY <1>3, <2>1
  <1>8. CASE StopSet \/ StopRoot \/ StopSwap
    <2>1. InStop /\ InStop' /\ (HasThreads' <=> HasThreads)
      BY <1>8 DEF StopSet, StopRoot, RootCall, StopSwap, InStop, HasThreads, PoolInv
    <2>2. api # "gone" /\ api' # "gone" /\ (m_stopping' = m_stopping \/ HasThreads)
      BY <1>1, <1>8 DEF StopSet, StopRoot, RootCall, StopSwap, StartInv, Shape
    <2>3. Status' = Status
      BY <2>1, <2>2 DEF Status
    <2> QED
      BY <1>3, <2>3
  <1>9. CASE StopNoThreads \/ StopJoin
    <2>1. InStop /\ api # "gone" /\ m_stopping' /\ (api' = "idle" \/ api' = "stopSet")
      BY <1>9 DEF StopNoThreads, StopJoin, InStop, StartInv
    <2>2. CASE api' = "stopSet"
      <3>1. StopNoThreads /\ HasThreads /\ InStop' /\ HasThreads'
        BY <1>9, <2>2 DEF StopNoThreads, StopJoin, InStop, StartInv, HasThreads
      <3> QED
        BY <1>3, <2>1, <2>2, <3>1 DEF Status
    <2>3. CASE api' = "idle" /\ HasThreads
      <3>1. \/ api = "stopJoin" /\ (UseCaller \/ thrs # {})
            \/ api = "stopNoThreads"
        BY <1>9, <2>3 DEF StopNoThreads, StopJoin, HasThreads, PoolInv
      <3>2. Next /\ api' # api
        BY <2>3, <3>1 DEF Next, Step
      <3>3. m_fibers = <<>> /\ ActiveThreads = {}
        BY <2>3, <3>1, <3>2, StopQuiet
      <3>4. \A c \in submitted : entered[c] = 1
        BY <1>1, <3>3, QuietDone
      <3>5. Waiting = {}
        BY <3>4 DEF Waiting
      <3>6. Status = "stopping" /\ Status' = "stopped"
        BY <2>1, <2>3 DEF Status, InStop
      <3>7. Promise!Stopped
        BY <1>3, <3>5, <3>6 DEF Promise!Stopped
      <3> QED
        BY <3>7 DEF Promise!Next
    <2>4. CASE api' = "idle" /\ ~HasThreads
      <3>1. Status = "stopped" /\ Status' = "stopped"
        BY <2>1, <2>4 DEF Status, InStop, StartInv
      <3> QED
        BY <1>3, <3>1
    <2> QED
      BY <2>1, <2>2, <2>3, <2>4
  <1> QED
    BY <1>4, <1>5, <1>6, <1>7, <1>8, <1>9 DEF OwnerStep, ApiStep

\* The scheduler does what WorkPool promises, for any number of threads,
\* fibers and callbacks, if its callers are disciplined and call no
\* YieldToReady: a callback it was given is called once, between start() and
\* the return of stop(), and stop() returns when none waits.
THEOREM KeepsPromise == ASSUME Disciplined, ~ReadyYields PROVE Spec => ImplementsWorkPool
  <1> DEFINE Inv == /\ CountInv /\ PoolInv /\ NoReady /\ QuietInv /\ StartInv
                    /\ FiberInv /\ TasksConserved
  <1>1. Init => Inv
    BY CountInvInit, PoolInvInit, NoReadyInit, QuietInvInit, StartInvInit, FiberInvInit,
       TasksConservedInit
  <1>2. Inv /\ [Next]_vars => Inv'
    BY CountInvNext, PoolInvNext, NoReadyNext, QuietInvNext, StartInvNext, FiberInvNext,
       TasksConservedNext
  <1>3. Init => Promise!Init
    BY DEF Init, Promise!Init, Waiting, Status, InStop
  <1>4. Inv /\ [Next]_vars => [Promise!Next]_<<Waiting, entered, Status>>
    <2> SUFFICES ASSUME Inv, [Next]_vars
                 PROVE  Promise!Next \/ UNCHANGED <<Waiting, entered, Status>>
      OBVIOUS
    <2>1. CASE UNCHANGED vars
      BY <2>1 DEF vars, historyVars, controlVars, Waiting, Status, InStop, HasThreads
    <2>2. CASE aborted = "none" /\ OwnerStep
      BY <2>2, OwnerKeepsPromise
    <2>3. ASSUME aborted = "none", NEW t \in Threads, RunStep(t) \/ CallbackStep(t)
          PROVE  Promise!Next \/ UNCHANGED <<Waiting, entered, Status>>
      BY <2>3, RunKeepsPromise DEF Promise!Next
    <2>4. ASSUME aborted = "none", NEW a \in Threads, ScheduleStep(a)
          PROVE  Promise!Next \/ UNCHANGED <<Waiting, entered, Status>>
      BY <2>4, ScheduleKeepsPromise DEF Promise!Next
    <2> QED
      BY <2>1, <2>2, <2>3, <2>4 DEF Next, Step, Over
  <1> QED
    BY <1>1, <1>2, <1>3, <1>4, PTL DEF Spec, ImplementsWorkPool, Promise!Spec
=============================================================================
