----------------------------- MODULE Scheduler -----------------------------
(***************************************************************************)
(* The N:M scheduler of src/scheduler: worker threads, and with use_caller *)
(* the thread that built the scheduler, take fibers and callbacks from one *)
(* locked list (m_fibers) and run them until they finish or yield.         *)
(*                                                                         *)
(* A thread of the pool is a process whose pc names its place in           *)
(* Scheduler::run(); the thread that calls start() and stop() is Caller,   *)
(* whose place in those calls is api.  The critical sections of m_mutex    *)
(* are atomic steps; start() holds m_mutex over several steps and is the   *)
(* api value "starting".  Code between two accesses of shared state is one *)
(* step.  Every SYLAR_ASSERT / SHS_ASSERT that fails stores a label in     *)
(* aborted, after which nothing happens: the program has aborted.          *)
(***************************************************************************)
EXTENDS Fiber, Sequences, Integers, FiniteSets

CONSTANTS
    Workers,        \* kernel thread ids that start() can create, each once
    Caller,         \* the thread that builds, starts and stops the scheduler
    AnyThread,      \* thread id -1
    ThreadCounts,   \* sizes of the pool, after the constructor's --threads
    UseCaller,      \* the constructor's use_caller
    \* What the callbacks and the owner do.
    Pinning,        \* they schedule onto a given thread, or call switchTo
    ReadyYields,    \* they call YieldToReady
    Disciplined,    \* a suspended fiber is scheduled by one party, once, and
                    \* the scheduler is destroyed only after stop()
    \* Bounds.
    MaxYields,      \* yields and wake-ups
    MaxStops        \* calls of stop()

Threads == Workers \cup {Caller}

\* The constructor asserts threads > 0 before it gives one to the caller.
ASSUME SchedulerAssumption ==
    /\ IsFiniteSet(Workers)
    /\ Caller \notin Workers
    /\ AnyThread \notin Threads
    /\ ThreadCounts \subseteq Nat
    /\ {UseCaller, Pinning, ReadyYields, Disciplined} \subseteq BOOLEAN
    /\ 0 \in ThreadCounts => UseCaller
    /\ MaxYields \in Nat
    /\ MaxStops \in Nat

VARIABLES
    m_fibers,               \* the list of tasks
    m_activeThreadCount,
    m_idleThreadCount,
    m_threadCount,
    m_stopping,
    m_autoStop,
    m_threads,              \* the pool, as a set
    m_threadIds,
    thrs,                   \* stop()'s local: the threads still to join
    api,                    \* where Caller is in start() / stop()
    pc,                     \* where each thread is in run()
    ft,                     \* run()'s local ft
    cb_fiber,               \* run()'s local cb_fiber
    idle_term,              \* run()'s idle_fiber is TERM
    aborted,                \* the assertion that failed, or "none"
    \* History.
    submitted,              \* callbacks given to the scheduler so far
    entered,                \* how often each callback was called
    yields,
    stops

taskVars    == <<m_fibers, m_activeThreadCount, m_idleThreadCount>>
controlVars == <<m_threadCount, m_stopping, m_autoStop, m_threads, m_threadIds,
                 thrs, api, stops>>
localVars   == <<ft, cb_fiber, idle_term>>
historyVars == <<submitted, entered, yields>>
vars == <<fiberVars, taskVars, controlVars, pc, localVars, historyVars, aborted>>

\* struct FiberAndThread, and its value after reset().
FiberAndThread == [fiber : Fibers \cup {NoFiber}, cb : Cbs \cup {NoCb},
                   thread : Threads \cup {AnyThread}]
NoTask == [fiber |-> NoFiber, cb |-> NoCb, thread |-> AnyThread]

PC == {"none", "created", "take", "dispatch", "swapin", "exec", "hold",
       "swapout", "leave", "post", "requeue", "idle", "idleout", "exit"}

Api == {"idle", "starting", "stopNoThreads", "stopSet", "stopRoot", "root",
        "stopSwap", "stopJoin", "gone"}

\* The assertions that depend on what threads and clients did, and "none"
\* while none has failed.
Failure == {"none", "start: m_threads.empty()", "CallerMainFunc: never reach",
            "MainFunc: never reach",
            "~Scheduler: m_stopping", "YieldToHold: EXEC", "YieldToReady: EXEC",
            "reset: TERM, EXCEPT or INIT", "swapIn: not EXEC"}

\* Scheduler::Scheduler(threads, use_caller): the caller's id is recorded,
\* m_rootFiber is built (INIT: pc[Caller] = "none"), no thread runs.
Init ==
    /\ FiberInit
    /\ m_fibers = <<>>
    /\ m_activeThreadCount = 0
    /\ m_idleThreadCount = 0
    /\ m_threadCount \in ThreadCounts
    /\ m_stopping = TRUE
    /\ m_autoStop = FALSE
    /\ m_threads = {}
    /\ m_threadIds = IF UseCaller THEN <<Caller>> ELSE <<>>
    /\ thrs = {}
    /\ api = "idle"
    /\ pc = [t \in Threads |-> "none"]
    /\ ft = [t \in Threads |-> NoTask]
    /\ cb_fiber = [t \in Threads |-> NoFiber]
    /\ idle_term = [t \in Threads |-> FALSE]
    /\ aborted = "none"
    /\ submitted = {}
    /\ entered = [c \in Cbs |-> 0]
    /\ yields = 0
    /\ stops = 0

-----------------------------------------------------------------------------
\* m_mutex is free: start() is the one that keeps it between two steps.
LockFree == api # "starting"

\* An assertion of the code, in the step that evaluates it.
Check(condition, label) == aborted' = IF condition THEN "none" ELSE label

\* The fiber thread t is about to run, runs, or has just run: ft.fiber, or
\* cb_fiber in the branch that has reset ft.
Cur(t) == IF ft[t].fiber # NoFiber THEN ft[t].fiber ELSE cb_fiber[t]

\* Mutants of Stopping: one of its two tests of the work left is missing.
StoppingAnyActive == m_autoStop /\ m_stopping /\ m_fibers = <<>>
StoppingAnyQueue == m_autoStop /\ m_stopping /\ m_activeThreadCount = 0

\* stopping(): the pool has nothing to do and was told to stop.
Stopping == /\ m_autoStop /\ m_stopping
            /\ m_fibers = <<>> /\ m_activeThreadCount = 0

\* scheduleNoLock(fc, thread): the task goes to the back of the list.
\* tickle() only writes a log line, here and everywhere.
ScheduleNoLock(tasks, task) ==
    IF task.fiber # NoFiber \/ task.cb # NoCb THEN Append(tasks, task) ELSE tasks

CbTask(c, thread) == [fiber |-> NoFiber, cb |-> c, thread |-> thread]
FiberTask(f, thread) == [fiber |-> f, cb |-> NoCb, thread |-> thread]

Goto(t, label) == pc' = [pc EXCEPT ![t] = label]

-----------------------------------------------------------------------------
(***************************************************************************)
(* start(), stop() and the destructor, on thread Caller.                   *)
(***************************************************************************)

\* start(): under m_mutex; a started scheduler is left alone.
Start ==
    /\ api = "idle"
    /\ stops < MaxStops
    /\ m_stopping
    /\ Cardinality({w \in Workers : pc[w] = "none"}) >= m_threadCount
    /\ m_stopping' = FALSE
    /\ Check(m_threads = {}, "start: m_threads.empty()")
    /\ api' = "starting"
    /\ UNCHANGED <<fiberVars, taskVars, m_threadCount, m_autoStop, m_threads, m_threadIds,
                   thrs, stops, pc, localVars, historyVars>>

\* Thread::Thread and then getId(): the constructor does not wait for the
\* new thread, so this is its id only if the thread was faster (ran) in
\* storing it.
GetId(w, ran) == IF ran THEN w ELSE AnyThread

\* One turn of start()'s loop.
StartThread(w, ran) ==
    /\ api = "starting"
    /\ Cardinality(m_threads) < m_threadCount
    /\ pc[w] = "none"
    /\ m_threads' = m_threads \cup {w}
    /\ m_threadIds' = Append(m_threadIds, GetId(w, ran))
    /\ Goto(w, IF ran THEN "take" ELSE "created")
    /\ UNCHANGED <<fiberVars, taskVars, m_threadCount, m_stopping, m_autoStop, thrs, api,
                   stops, localVars, historyVars, aborted>>

\* start() releases m_mutex.
StartDone ==
    /\ api = "starting"
    /\ Cardinality(m_threads) = m_threadCount
    /\ api' = "idle"
    /\ UNCHANGED <<fiberVars, taskVars, m_threadCount, m_stopping, m_autoStop, m_threads,
                   m_threadIds, thrs, stops, pc, localVars, historyVars, aborted>>

\* stop(): m_autoStop, and the test for a pool of the caller alone whose
\* root fiber is INIT or TERM.
StopBegin ==
    /\ api = "idle"
    /\ stops < MaxStops
    /\ m_autoStop' = TRUE
    /\ stops' = stops + 1
    /\ api' = IF UseCaller /\ m_threadCount = 0 /\ pc[Caller] \in {"none", "exit"}
              THEN "stopNoThreads" ELSE "stopSet"
    /\ UNCHANGED <<fiberVars, taskVars, m_threadCount, m_stopping, m_threads, m_threadIds,
                   thrs, pc, localVars, historyVars, aborted>>

\* stop(), inside that test: it returns at once when nothing is queued.
StopNoThreads ==
    /\ api = "stopNoThreads"
    /\ m_stopping' = TRUE
    /\ api' = IF m_fibers = <<>> /\ m_activeThreadCount = 0 THEN "idle" ELSE "stopSet"
    /\ UNCHANGED <<fiberVars, taskVars, m_threadCount, m_autoStop, m_threads, m_threadIds,
                   thrs, stops, pc, localVars, historyVars, aborted>>

StopSet ==
    /\ api = "stopSet"
    /\ m_stopping' = TRUE
    /\ api' = IF UseCaller THEN "stopRoot" ELSE "stopSwap"
    /\ UNCHANGED <<fiberVars, taskVars, m_threadCount, m_autoStop, m_threads, m_threadIds,
                   thrs, stops, pc, localVars, historyVars, aborted>>

\* m_rootFiber->call(): the caller goes on in run().  A root fiber that is
\* TERM resumes in CallerMainFunc after back(), at its "never reach" assertion.
RootCall ==
    /\ Check(pc[Caller] # "exit", "CallerMainFunc: never reach")
    /\ api' = "root"
    /\ Goto(Caller, "take")

\* stop(): m_rootFiber->call() unless stopping().
StopRoot ==
    /\ api = "stopRoot"
    /\ IF Stopping
       THEN api' = "stopSwap" /\ UNCHANGED <<pc, aborted>>
       ELSE RootCall
    /\ UNCHANGED <<fiberVars, taskVars, m_threadCount, m_stopping, m_autoStop, m_threads,
                   m_threadIds, thrs, stops, localVars, historyVars>>

\* Mutant of StopSwap: the threads are copied, not swapped out.
StopSwapCopy ==
    /\ api = "stopSwap"
    /\ thrs' = m_threads
    /\ api' = "stopJoin"
    /\ UNCHANGED <<fiberVars, taskVars, m_threadCount, m_stopping, m_autoStop, m_threads,
                   m_threadIds, stops, pc, localVars, historyVars, aborted>>

StopSwap ==
    /\ api = "stopSwap"
    /\ thrs' = m_threads
    /\ m_threads' = {}
    /\ api' = "stopJoin"
    /\ UNCHANGED <<fiberVars, taskVars, m_threadCount, m_stopping, m_autoStop, m_threadIds,
                   stops, pc, localVars, historyVars, aborted>>

\* Mutant of StopJoin: stop() does not wait for the threads.
StopJoinNoWait ==
    /\ api = "stopJoin"
    /\ thrs' = {}
    /\ api' = "idle"
    /\ UNCHANGED <<fiberVars, taskVars, m_threadCount, m_stopping, m_autoStop, m_threads,
                   m_threadIds, stops, pc, localVars, historyVars, aborted>>

\* Thread::join() returns when the thread has ended.
Joined(w) == pc[w] = "exit"

\* stop() has joined every thread and returns.
StopJoin ==
    /\ api = "stopJoin"
    /\ \A w \in thrs : Joined(w)
    /\ thrs' = {}
    /\ api' = "idle"
    /\ UNCHANGED <<fiberVars, taskVars, m_threadCount, m_stopping, m_autoStop, m_threads,
                   m_threadIds, stops, pc, localVars, historyVars, aborted>>

\* ~Scheduler()
Destroy ==
    /\ api = "idle"
    /\ Disciplined => m_stopping
    /\ Check(m_stopping, "~Scheduler: m_stopping")
    /\ api' = "gone"
    /\ UNCHANGED <<fiberVars, taskVars, m_threadCount, m_stopping, m_autoStop, m_threads,
                   m_threadIds, thrs, stops, pc, localVars, historyVars>>

-----------------------------------------------------------------------------
(***************************************************************************)
(* What the program built on the scheduler does: thread a is Caller        *)
(* between two calls, or a thread on a fiber that runs its callback.       *)
(***************************************************************************)
Running(t) == pc[t] = "exec" /\ m_cb[Cur(t)] # NoCb

CanCall(a) == LockFree /\ ((a = Caller /\ api = "idle") \/ Running(a))

\* The ids a task can be given: -1, or a thread of the pool that has not
\* been joined.
Targets == {AnyThread} \cup
    IF Pinning
    THEN {w \in m_threads \cup thrs : pc[w] # "created"} \cup
         (IF UseCaller THEN {Caller} ELSE {})
    ELSE {}

\* schedule(std::function, thread)
ScheduleCb(a, c, thread) ==
    /\ CanCall(a)
    /\ c \notin submitted
    /\ thread \in Targets
    /\ m_fibers' = ScheduleNoLock(m_fibers, CbTask(c, thread))
    /\ submitted' = submitted \cup {c}
    /\ UNCHANGED <<fiberVars, m_activeThreadCount, m_idleThreadCount, controlVars,
                   pc, localVars, entered, yields, aborted>>

\* schedule(Fiber::ptr(new Fiber(c)), thread)
ScheduleFiber(a, f, c, thread) ==
    /\ CanCall(a)
    /\ c \notin submitted
    /\ thread \in Targets
    /\ Construct(f, c)
    /\ m_fibers' = ScheduleNoLock(m_fibers, FiberTask(f, thread))
    /\ submitted' = submitted \cup {c}
    /\ UNCHANGED <<m_activeThreadCount, m_idleThreadCount, controlVars,
                   pc, localVars, entered, yields, aborted>>

\* schedule(begin, end): the whole range under one lock, for any thread.
ScheduleBatch(a, c, d) ==
    /\ CanCall(a)
    /\ {c, d} \cap submitted = {}
    /\ c # d
    /\ m_fibers' = ScheduleNoLock(ScheduleNoLock(m_fibers, CbTask(c, AnyThread)),
                                  CbTask(d, AnyThread))
    /\ submitted' = submitted \cup {c, d}
    /\ UNCHANGED <<fiberVars, m_activeThreadCount, m_idleThreadCount, controlVars,
                   pc, localVars, entered, yields, aborted>>

Queued(f) == \E i \in 1..Len(m_fibers) : m_fibers[i].fiber = f
InHand(f) == \E t \in Threads : pc[t] \in {"dispatch", "swapin"} /\ Cur(t) = f

\* The fiber has called YieldToHold and nobody has scheduled it yet: it is
\* HOLD, or still EXEC on its way back to run().
Suspended(f) ==
    /\ \/ m_state[f] = "HOLD"
       \/ /\ m_state[f] = "EXEC"
          /\ \E t \in Threads : pc[t] \in {"swapout", "leave", "post"} /\ Cur(t) = f
    /\ ~Queued(f)
    /\ ~InHand(f)

\* A fiber built with ScheduleFiber that has finished: schedule() accepts it.
Stale(f) == Finished(f) /\ ~Queued(f) /\ \A t \in Threads : Cur(t) # f

\* schedule(Fiber::ptr, thread) of a fiber that exists.
Wake(a, f, thread) ==
    /\ CanCall(a)
    /\ yields < MaxYields
    /\ m_state[f] # "NONE"
    /\ Disciplined => Suspended(f) \/ Stale(f)
    /\ thread \in Targets
    /\ m_fibers' = ScheduleNoLock(m_fibers, FiberTask(f, thread))
    /\ yields' = yields + 1
    /\ UNCHANGED <<fiberVars, m_activeThreadCount, m_idleThreadCount, controlVars,
                   pc, localVars, submitted, entered, aborted>>

\* switchTo(thread), inside a fiber: schedules the running fiber, then must
\* yield.  It returns at once for -1 and for the thread it is on.
SwitchTo(t, thread) ==
    /\ LockFree
    /\ Running(t)
    /\ yields < MaxYields
    /\ thread \in Targets \ {AnyThread, t}
    /\ m_fibers' = ScheduleNoLock(m_fibers, FiberTask(Cur(t), thread))
    /\ yields' = yields + 1
    /\ Goto(t, "hold")
    /\ UNCHANGED <<fiberVars, m_activeThreadCount, m_idleThreadCount, controlVars,
                   localVars, submitted, entered, aborted>>

\* Fiber::YieldToHold(), from the callback or from switchTo.
YieldToHold(t) ==
    /\ \/ Running(t) /\ yields < MaxYields /\ yields' = yields + 1
       \/ pc[t] = "hold" /\ UNCHANGED yields
    /\ Check(CanYield(Cur(t)), "YieldToHold: EXEC")
    /\ FiberYieldToHold(Cur(t))
    /\ Goto(t, "swapout")
    /\ UNCHANGED <<taskVars, controlVars, localVars, submitted, entered>>

\* Fiber::YieldToReady()
YieldToReady(t) ==
    /\ ReadyYields
    /\ Running(t)
    /\ yields < MaxYields
    /\ yields' = yields + 1
    /\ Check(CanYield(Cur(t)), "YieldToReady: EXEC")
    /\ FiberYieldToReady(Cur(t))
    /\ Goto(t, "swapout")
    /\ UNCHANGED <<taskVars, controlVars, localVars, submitted, entered>>

\* Fiber::MainFunc(): the callback returned.
Return(t) ==
    /\ Running(t)
    /\ MainFuncReturn(Cur(t))
    /\ Goto(t, "swapout")
    /\ UNCHANGED <<taskVars, controlVars, localVars, historyVars, aborted>>

\* Fiber::MainFunc(): the callback threw.
Throw(t) ==
    /\ pc[t] = "exec"
    /\ MainFuncThrow(Cur(t))
    /\ Goto(t, "swapout")
    /\ UNCHANGED <<taskVars, controlVars, localVars, historyVars, aborted>>

-----------------------------------------------------------------------------
(***************************************************************************)
(* run(), on thread t.                                                     *)
(***************************************************************************)

\* The new thread reaches Thread::run and then the loop of Scheduler::run.
ThreadRun(t) ==
    /\ pc[t] = "created"
    /\ Goto(t, "take")
    /\ UNCHANGED <<fiberVars, taskVars, controlVars, localVars, historyVars, aborted>>

\* Mutant of Takeable: a fiber that is still executing can be taken.
TakeableExec(t, task) == task.thread \in {AnyThread, t}

\* The tests of the loop over m_fibers.
Takeable(t, task) ==
    /\ task.thread \in {AnyThread, t}
    /\ task.fiber # NoFiber => m_state[task.fiber] # "EXEC"

\* Mutant of Without: the task taken stays in the list.
WithoutNone(tasks, i) == tasks

Without(tasks, i) == SubSeq(tasks, 1, i - 1) \o SubSeq(tasks, i + 1, Len(tasks))

\* Under m_mutex: the first task the thread may take.
Take(t) ==
    /\ pc[t] = "take"
    /\ LockFree
    /\ \E i \in 1..Len(m_fibers) :
          /\ Takeable(t, m_fibers[i])
          /\ \A j \in 1..(i - 1) : ~Takeable(t, m_fibers[j])
          /\ ft' = [ft EXCEPT ![t] = m_fibers[i]]
          /\ m_fibers' = Without(m_fibers, i)
    /\ m_activeThreadCount' = m_activeThreadCount + 1
    /\ Goto(t, "dispatch")
    /\ UNCHANGED <<fiberVars, m_idleThreadCount, controlVars, cb_fiber, idle_term,
                   historyVars, aborted>>

\* Under m_mutex: no task for this thread.
TakeNothing(t) ==
    /\ pc[t] = "take"
    /\ LockFree
    /\ \A i \in 1..Len(m_fibers) : ~Takeable(t, m_fibers[i])
    /\ Goto(t, "dispatch")
    /\ UNCHANGED <<fiberVars, taskVars, controlVars, localVars, historyVars, aborted>>

\* ft holds a fiber that can run: swapIn is next.
DispatchFiber(t) ==
    /\ pc[t] = "dispatch"
    /\ ft[t].fiber # NoFiber
    /\ ~Finished(ft[t].fiber)
    /\ Goto(t, "swapin")
    /\ UNCHANGED <<fiberVars, taskVars, controlVars, localVars, historyVars, aborted>>

\* ft holds a callback: it gets the thread's spare fiber, or a new one.
DispatchCb(t) ==
    /\ pc[t] = "dispatch"
    /\ ft[t].cb # NoCb
    /\ IF cb_fiber[t] # NoFiber
       THEN /\ Check(CanReset(cb_fiber[t]), "reset: TERM, EXCEPT or INIT")
            /\ Reset(cb_fiber[t], ft[t].cb)
            /\ UNCHANGED cb_fiber
       ELSE \E f \in Fibers :
            /\ Construct(f, ft[t].cb)
            /\ cb_fiber' = [cb_fiber EXCEPT ![t] = f]
            /\ UNCHANGED aborted
    /\ ft' = [ft EXCEPT ![t] = NoTask]
    /\ Goto(t, "swapin")
    /\ UNCHANGED <<taskVars, controlVars, idle_term, historyVars>>

\* Mutant of DispatchSkip: the loop goes on without --m_activeThreadCount.
DispatchSkipUncounted(t) ==
    /\ pc[t] = "dispatch"
    /\ ft[t].fiber # NoFiber
    /\ Finished(ft[t].fiber)
    /\ ft' = [ft EXCEPT ![t] = NoTask]
    /\ Goto(t, "take")
    /\ UNCHANGED <<fiberVars, taskVars, controlVars, cb_fiber, idle_term,
                   historyVars, aborted>>

\* ft holds a finished fiber: it is dropped.
DispatchSkip(t) ==
    /\ pc[t] = "dispatch"
    /\ ft[t].fiber # NoFiber
    /\ Finished(ft[t].fiber)
    /\ m_activeThreadCount' = m_activeThreadCount - 1
    /\ ft' = [ft EXCEPT ![t] = NoTask]
    /\ Goto(t, "take")
    /\ UNCHANGED <<fiberVars, m_fibers, m_idleThreadCount, controlVars, cb_fiber,
                   idle_term, historyVars, aborted>>

\* Mutant of DispatchIdle: ++m_idleThreadCount is missing.
DispatchIdleUncounted(t) ==
    /\ pc[t] = "dispatch"
    /\ ft[t] = NoTask
    /\ ~idle_term[t]
    /\ Goto(t, "idle")
    /\ UNCHANGED <<fiberVars, taskVars, controlVars, localVars, historyVars, aborted>>

\* ft is empty: the idle fiber runs, unless it has finished.
DispatchIdle(t) ==
    /\ pc[t] = "dispatch"
    /\ ft[t] = NoTask
    /\ ~idle_term[t]
    /\ m_idleThreadCount' = m_idleThreadCount + 1
    /\ Goto(t, "idle")
    /\ UNCHANGED <<fiberVars, m_fibers, m_activeThreadCount, controlVars, localVars,
                   historyVars, aborted>>

\* Where CallerMainFunc takes the caller after run(): TERM, and back() to
\* stop().  Other threads just end.
RootReturn(t) == api' = IF t = Caller THEN "stopSwap" ELSE api

\* The idle fiber has finished: run() returns, and with it the thread, or
\* the root fiber.
Break(t) ==
    /\ pc[t] = "dispatch"
    /\ ft[t] = NoTask
    /\ idle_term[t]
    /\ Goto(t, "exit")
    /\ cb_fiber' = [cb_fiber EXCEPT ![t] = NoFiber]
    /\ RootReturn(t)
    /\ UNCHANGED <<fiberVars, taskVars, m_threadCount, m_stopping, m_autoStop, m_threads,
                   m_threadIds, thrs, stops, ft, idle_term, historyVars, aborted>>

\* idle(): one evaluation of stopping(); the fiber yields or finishes.
Idle(t) ==
    /\ pc[t] = "idle"
    /\ LockFree
    /\ idle_term' = [idle_term EXCEPT ![t] = Stopping]
    /\ Goto(t, "idleout")
    /\ UNCHANGED <<fiberVars, taskVars, controlVars, ft, cb_fiber, historyVars, aborted>>

IdleOut(t) ==
    /\ pc[t] = "idleout"
    /\ m_idleThreadCount' = m_idleThreadCount - 1
    /\ Goto(t, "take")
    /\ UNCHANGED <<fiberVars, m_fibers, m_activeThreadCount, controlVars, localVars,
                   historyVars, aborted>>

\* swapIn(): the thread is on the fiber's stack; an INIT fiber enters
\* MainFunc and calls its callback, one that has finished goes on behind the
\* swapOut() that left it, at the end of MainFunc.
SwapIn(t) ==
    LET f == Cur(t) IN
    /\ pc[t] = "swapin"
    /\ Check(CanSwapIn(f) /\ ~Finished(f),
             IF CanSwapIn(f) THEN "MainFunc: never reach" ELSE "swapIn: not EXEC")
    /\ FiberSwapIn(f)
    /\ entered' = [c \in Cbs |-> IF m_state[f] = "INIT" /\ m_cb[f] = c
                                 THEN entered[c] + 1 ELSE entered[c]]
    /\ Goto(t, "exec")
    /\ UNCHANGED <<taskVars, controlVars, localVars, submitted, yields>>

\* swapOut(): the fiber's context is saved and the thread is back in run().
SwapOut(t) ==
    /\ pc[t] = "swapout"
    /\ Goto(t, "leave")
    /\ UNCHANGED <<fiberVars, taskVars, controlVars, localVars, historyVars, aborted>>

\* Mutant of Leave: --m_activeThreadCount is missing.
LeaveUncounted(t) ==
    /\ pc[t] = "leave"
    /\ Goto(t, "post")
    /\ UNCHANGED <<fiberVars, taskVars, controlVars, localVars, historyVars, aborted>>

\* run(), after swapIn returned: --m_activeThreadCount.
Leave(t) ==
    /\ pc[t] = "leave"
    /\ m_activeThreadCount' = m_activeThreadCount - 1
    /\ Goto(t, "post")
    /\ UNCHANGED <<fiberVars, m_fibers, m_idleThreadCount, controlVars, localVars,
                   historyVars, aborted>>

\* The fiber in hand is the thread's cb_fiber, not ft.fiber.
IsCbFiber(t) == ft[t].fiber = NoFiber

DropCbFiber(t) ==
    cb_fiber' = IF IsCbFiber(t) THEN [cb_fiber EXCEPT ![t] = NoFiber] ELSE cb_fiber

\* The fiber is READY: schedule(fiber) is next.
PostReady(t) ==
    /\ pc[t] = "post"
    /\ m_state[Cur(t)] = "READY"
    /\ Goto(t, "requeue")
    /\ UNCHANGED <<fiberVars, taskVars, controlVars, localVars, historyVars, aborted>>

\* schedule(fiber): for any thread, whatever thread it was scheduled for.
Requeue(t) ==
    /\ pc[t] = "requeue"
    /\ LockFree
    /\ m_fibers' = ScheduleNoLock(m_fibers, FiberTask(Cur(t), AnyThread))
    /\ ft' = [ft EXCEPT ![t] = NoTask]
    /\ DropCbFiber(t)
    /\ Goto(t, "take")
    /\ UNCHANGED <<fiberVars, m_activeThreadCount, m_idleThreadCount, controlVars,
                   idle_term, historyVars, aborted>>

\* The fiber has finished: a cb_fiber is reset(nullptr) and kept.
PostFinished(t) ==
    /\ pc[t] = "post"
    /\ Finished(Cur(t))
    /\ IF IsCbFiber(t) THEN Reset(Cur(t), NoCb) ELSE UNCHANGED fiberVars
    /\ ft' = [ft EXCEPT ![t] = NoTask]
    /\ Goto(t, "take")
    /\ UNCHANGED <<taskVars, controlVars, cb_fiber, idle_term, historyVars, aborted>>

\* Otherwise it yielded to hold: HOLD is stored now that its stack is free.
PostHold(t) ==
    /\ pc[t] = "post"
    /\ ~Finished(Cur(t))
    /\ m_state[Cur(t)] # "READY"
    /\ StoreHold(Cur(t))
    /\ ft' = [ft EXCEPT ![t] = NoTask]
    /\ DropCbFiber(t)
    /\ Goto(t, "take")
    /\ UNCHANGED <<taskVars, controlVars, idle_term, historyVars, aborted>>

-----------------------------------------------------------------------------
\* The steps of run() outside callbacks.
RunStep(t) ==
    \/ ThreadRun(t) \/ Take(t) \/ TakeNothing(t)
    \/ DispatchFiber(t) \/ DispatchCb(t) \/ DispatchSkip(t) \/ DispatchIdle(t)
    \/ Break(t) \/ Idle(t) \/ IdleOut(t)
    \/ SwapIn(t) \/ SwapOut(t) \/ Leave(t)
    \/ PostReady(t) \/ Requeue(t) \/ PostFinished(t) \/ PostHold(t)

\* The steps with which a callback leaves its thread.
CallbackStep(t) ==
    \/ YieldToHold(t) \/ YieldToReady(t) \/ Return(t) \/ Throw(t)
    \/ \E thread \in Threads : SwitchTo(t, thread)

ScheduleStep(a) ==
    \/ \E c \in Cbs, thread \in Threads \cup {AnyThread} : ScheduleCb(a, c, thread)
    \/ \E f \in Fibers, c \in Cbs, thread \in Threads \cup {AnyThread} :
          ScheduleFiber(a, f, c, thread)
    \/ \E c, d \in Cbs : ScheduleBatch(a, c, d)
    \/ \E f \in Fibers, thread \in Threads \cup {AnyThread} : Wake(a, f, thread)

\* The rest of a start() or stop() that has begun.
ApiStep ==
    \/ \E w \in Workers, ran \in BOOLEAN : StartThread(w, ran)
    \/ StartDone \/ StopNoThreads \/ StopSet \/ StopRoot \/ StopSwap \/ StopJoin

OwnerStep == Start \/ StopBegin \/ Destroy \/ ApiStep

Step ==
    \/ OwnerStep
    \/ \E t \in Threads : RunStep(t) \/ CallbackStep(t) \/ ScheduleStep(t)

\* The process is over: the scheduler is destroyed, or an assertion failed.
Over == (api = "gone" \/ aborted # "none") /\ UNCHANGED vars

Next == (aborted = "none" /\ Step) \/ Over

\* A started call of start() or stop() goes on, no thread is starved by the
\* operating system, and callbacks return or yield.
Fairness ==
    /\ WF_vars(aborted = "none" /\ ApiStep)
    /\ \A t \in Threads : /\ WF_vars(aborted = "none" /\ RunStep(t))
                          /\ WF_vars(aborted = "none" /\ CallbackStep(t))

Spec == Init /\ [][Next]_vars

FairSpec == Spec /\ Fairness

-----------------------------------------------------------------------------
(***************************************************************************)
(* Properties.                                                             *)
(***************************************************************************)

\* Every variable has the shape of the C++ member or local it stands for;
\* in particular neither counter (std::atomic<size_t>) goes below zero.
TypeOK ==
    /\ FiberTypeOK
    /\ m_fibers \in Seq(FiberAndThread)
    /\ m_activeThreadCount \in Nat
    /\ m_idleThreadCount \in Nat
    /\ m_stopping \in BOOLEAN
    /\ m_autoStop \in BOOLEAN
    /\ m_threads \subseteq Workers
    /\ m_threadIds \in Seq(Threads \cup {AnyThread})
    /\ thrs \subseteq Workers
    /\ api \in Api
    /\ pc \in [Threads -> PC]
    /\ ft \in [Threads -> FiberAndThread]
    /\ cb_fiber \in [Threads -> Fibers \cup {NoFiber}]
    /\ idle_term \in [Threads -> BOOLEAN]
    /\ aborted \in Failure
    /\ submitted \subseteq Cbs
    /\ entered \in [Cbs -> Nat]
    /\ yields \in Nat
    /\ stops \in Nat

\* The threads m_activeThreadCount and m_idleThreadCount are to count.
ActiveThreads ==
    {t \in Threads : \/ pc[t] \in {"swapin", "exec", "hold", "swapout", "leave"}
                     \/ pc[t] = "dispatch" /\ ft[t] # NoTask}
IdleThreads == {t \in Threads : pc[t] \in {"idle", "idleout"}}

\* The counters that stopping() and hasIdleThreads() read are exact: every
\* path through run(), the one that drops a finished fiber included, gives
\* back what it took.  A counter too high keeps stop() from ever returning,
\* one too low lets it return with work in progress.
CountsExact ==
    /\ m_activeThreadCount = Cardinality(ActiveThreads)
    /\ m_idleThreadCount = Cardinality(IdleThreads)

\* No two threads of the pool have the same fiber in hand, from the moment
\* one takes it until it is done with it: a fiber's stack and context are
\* never used by two threads, although YieldToHold lets other threads
\* schedule the fiber while it is still on its stack.
FiberExclusive ==
    \A t, u \in Threads : t # u /\ Cur(t) # NoFiber => Cur(t) # Cur(u)

\* Where callback c waits to be called: as a task, in a fiber that is a
\* task, or with a thread that is about to call it.
QueuedAt(c) == {i \in 1..Len(m_fibers) :
    \/ m_fibers[i].cb = c
    \/ /\ m_fibers[i].fiber # NoFiber
       /\ m_state[m_fibers[i].fiber] = "INIT"
       /\ m_cb[m_fibers[i].fiber] = c}
InHandAt(c) == {t \in Threads :
    \/ pc[t] = "dispatch" /\ ft[t].cb = c
    \/ /\ pc[t] \in {"dispatch", "swapin"}
       /\ Cur(t) # NoFiber
       /\ m_state[Cur(t)] = "INIT"
       /\ m_cb[Cur(t)] = c}

\* No callback given to schedule() is lost or run twice: it is in exactly
\* one place (the list, one thread's hands) until it is called, and in none
\* once it has been.
TasksConserved ==
    \A c \in Cbs :
        Cardinality(QueuedAt(c)) + Cardinality(InHandAt(c)) + entered[c]
            = IF c \in submitted THEN 1 ELSE 0

\* No assertion of fiber.cpp or scheduler.cpp that depends on what threads and
\* clients did fails: those of swapIn, reset, the yields, start(), ~Scheduler,
\* and the ends of MainFunc and CallerMainFunc.
NoAbort == aborted = "none"

\* Between stop() and the next start(), and after the destructor, no thread
\* of the pool is left running: none can touch the scheduler once its owner
\* may free it, and start() does not find threads of an earlier start().
StoppedMeansJoined ==
    /\ aborted = "none" /\ m_stopping /\ api \in {"idle", "gone"} =>
          \A w \in Workers : pc[w] \in {"none", "exit"}
    /\ aborted # "start: m_threads.empty()"

\* Thread t has a task in hand, or a READY fiber it will put back.
Busy(t) ==
    \/ t \in ActiveThreads
    \/ pc[t] \in {"post", "requeue"} /\ m_state[Cur(t)] = "READY"

\* The threads stop() waits for, and the caller while it runs the root fiber.
Pool == m_threads \cup thrs \cup (IF api = "root" THEN {Caller} ELSE {})

\* A thread of the pool leaves (its idle fiber has finished) only when no
\* task is queued and no thread has one in hand or will put one back: what
\* stopping() is to tell.  Were one to leave earlier, a task scheduled for
\* that thread afterwards would never run.
QuietExit ==
    aborted = "none" =>
      \A t \in Pool : idle_term[t] => m_fibers = <<>> /\ \A u \in Threads : ~Busy(u)

\* stop() returns only when everything scheduled before and during the stop
\* has run: the list is empty and every callback given to the scheduler has
\* been called.  (A stop() of a scheduler without threads of its own, never
\* started, has nobody to run them.)
StopDrains ==
    [][(api = "stopJoin" /\ api' = "idle" /\ (UseCaller \/ thrs # {}))
        \/ (api = "stopNoThreads" /\ api' = "idle")
       => m_fibers = <<>> /\ \A c \in submitted : entered[c] = 1]_vars

\* stop() returns.
StopReturns ==
    api \in {"stopNoThreads", "stopSet", "stopRoot", "root", "stopSwap", "stopJoin"}
        ~> api = "idle"

\* The list holds f, or c, for a thread of the pool: the caller serves it
\* only in stop().
Served(x) ==
    /\ m_threadCount > 0
    /\ \E i \in 1..Len(m_fibers) :
        x \in {m_fibers[i].fiber, m_fibers[i].cb} /\ m_fibers[i].thread # Caller

\* While the scheduler is started every callback given to it is called in
\* the end, and every fiber that was scheduled again is taken up again, also
\* one scheduled while it was still on its way out of YieldToHold.
TasksRun ==
    /\ \A c \in Cbs : (Served(c) /\ ~m_stopping) ~> entered[c] = 1
    /\ \A f \in Fibers : (Served(f) /\ ~m_stopping) ~> ~Queued(f)

\* What the users of the scheduler see of it: the callbacks that wait, and
\* whether it is stopped.  stop() of a scheduler that has no thread, because
\* it was not started and its caller is none, changes nothing for them.
Waiting == {c \in submitted : entered[c] = 0}
InStop == api \in {"stopNoThreads", "stopSet", "stopRoot", "root", "stopSwap", "stopJoin"}
HasThreads == UseCaller \/ m_threads \cup thrs # {}
Status ==
    IF api = "gone" THEN "destroyed"
    ELSE IF InStop /\ HasThreads THEN "stopping"
    ELSE IF m_stopping THEN "stopped" ELSE "running"

Promise == INSTANCE WorkPool WITH waiting <- Waiting, calls <- entered, status <- Status

\* With disciplined callers that do not yield READY the scheduler keeps what
\* WorkPool promises: each callback is called once, by a thread that exists
\* only from start() to the return of stop(), and stop() returns to its
\* caller when none waits (scheduler.h:46-80, scheduler.cpp:51-135).
ImplementsWorkPool == Promise!Spec

(***************************************************************************)
(* Inductive invariants: what the proofs of TypeOK, CountsExact and        *)
(* StoppedMeansJoined (SchedulerProofs.tla) rest on.                       *)
(***************************************************************************)

\* scheduleNoLock() lets no empty task into the list.
TasksNonEmpty ==
    \A i \in 1..Len(m_fibers) : m_fibers[i].fiber # NoFiber \/ m_fibers[i].cb # NoCb

\* A thread that has no task in hand has an empty ft.
HandsEmpty ==
    \A t \in Threads :
        pc[t] \in {"none", "created", "take", "idle", "idleout", "exit"} => ft[t] = NoTask

\* The caller is inside run() only while stop() is in m_rootFiber->call().
CallerInRoot == pc[Caller] \in {"none", "exit"} \/ api = "root"

\* What run() keeps to in order that its counters are exact.
CountInv == TypeOK /\ CountsExact /\ TasksNonEmpty /\ HandsEmpty /\ CallerInRoot

\* The workers that exist are those start() created and stop() has not
\* joined; none exists while the scheduler is stopped.
PoolInv ==
    /\ m_threadCount \in ThreadCounts
    /\ \A w \in Workers : pc[w] \in {"none", "exit"} \/ w \in m_threads \cup thrs
    /\ thrs # {} => api = "stopJoin"
    /\ api = "stopJoin" => m_threads = {}
    /\ api = "starting" => ~m_stopping
    /\ m_threadCount = 0 => m_threads = {}
    /\ api = "stopNoThreads" => m_threadCount = 0
    /\ aborted = "none" /\ m_stopping /\ api \in {"idle", "gone", "stopNoThreads", "stopSet"}
          => m_threads = {}
    /\ aborted # "start: m_threads.empty()"

(***************************************************************************)
(* What FiberExclusive, TasksConserved, QuietExit and StopDrains rest on   *)
(* (SchedulerTaskProofs.tla).                                              *)
(***************************************************************************)

\* A thread holds the fiber of its task and, beside it, its spare fiber.
Holds(t, f) == f \in {ft[t].fiber, cb_fiber[t]}

\* run() is past the dispatch: Cur(t) is the fiber it is dealing with.
OnFiber(t) == pc[t] \in {"swapin", "exec", "hold", "swapout", "leave", "post", "requeue"}

\* No fiber is held twice, by two threads or as task and spare of one.
HeldOnce ==
    /\ \A f \in Fibers : \A t, u \in Threads : Holds(t, f) /\ Holds(u, f) => t = u
    /\ \A t \in Threads : ft[t].fiber # NoFiber => ft[t].fiber # cb_fiber[t]

\* A task is a fiber that has been built or a callback, and no fiber is two
\* tasks.
TasksDistinct ==
    /\ \A i \in 1..Len(m_fibers) :
          m_fibers[i].fiber # NoFiber =>
             /\ m_fibers[i].cb = NoCb
             /\ m_state[m_fibers[i].fiber] # "NONE"
             /\ \A j \in 1..Len(m_fibers) \ {i} : m_fibers[j].fiber # m_fibers[i].fiber
    /\ \A t \in Threads : ft[t].fiber # NoFiber => ft[t].cb = NoCb

\* A fiber that is a task and yet held has yielded to hold: it was scheduled
\* on its way back to run(), and is EXEC, so that nobody takes it.
QueuedWhenLeaving ==
    \A f \in Fibers : \A t \in Threads :
        Queued(f) /\ Holds(t, f) =>
           /\ Cur(t) = f
           /\ pc[t] \in {"hold", "swapout", "leave", "post"}
           /\ m_state[f] = "EXEC"

\* The state of the fiber a thread deals with, place by place.
CurState(t) ==
    /\ OnFiber(t) => Cur(t) # NoFiber
    /\ pc[t] = "dispatch" /\ ft[t].fiber # NoFiber =>
          m_state[ft[t].fiber] \notin {"NONE", "EXEC"}
    /\ pc[t] = "swapin" => m_state[Cur(t)] \in {"INIT", "HOLD", "READY"}
    /\ pc[t] \in {"exec", "hold"} => m_state[Cur(t)] = "EXEC"
    /\ pc[t] \in {"swapout", "leave", "post"} =>
          m_state[Cur(t)] \in {"EXEC", "READY", "TERM", "EXCEPT"}
    /\ pc[t] = "requeue" => m_state[Cur(t)] = "READY"

\* A spare fiber has been reset(nullptr): nothing is lost when it is used.
SpareEmpty(t) ==
    cb_fiber[t] # NoFiber /\ (OnFiber(t) => ft[t].fiber # NoFiber) =>
       m_state[cb_fiber[t]] = "INIT" /\ m_cb[cb_fiber[t]] = NoCb

HandsOrdered == \A t \in Threads : CurState(t) /\ SpareEmpty(t)

\* With disciplined callers fibers, list and hands stay apart.
FiberInv == HeldOnce /\ TasksDistinct /\ QueuedWhenLeaving /\ HandsOrdered

\* A thread ends when its idle fiber has finished, and starts with a new one.
IdleFinished ==
    \A t \in Threads : /\ pc[t] \in {"none", "created"} => ~idle_term[t]
                       /\ pc[t] = "exit" => idle_term[t]

\* A thread has been told to leave, or run() on the caller has returned.
Leaving == (\E t \in Pool : idle_term[t]) \/ (UseCaller /\ api \in {"stopSwap", "stopJoin"})

\* From then on the pool stays stopped and nothing is there to be run.
QuietInv ==
    /\ IdleFinished
    /\ aborted = "none" /\ Leaving =>
          m_autoStop /\ m_stopping /\ m_fibers = <<>> /\ ActiveThreads = {}

\* m_rootFiber has not run when stop() calls it, if stop() is called once.
RootFresh ==
    /\ api = "stopRoot" => UseCaller
    /\ api \in {"stopNoThreads", "stopSet", "stopRoot"} => stops # 0
    /\ ~UseCaller \/ stops = 0 \/ api \in {"stopNoThreads", "stopSet", "stopRoot"}
          => pc[Caller] = "none"
=============================================================================
