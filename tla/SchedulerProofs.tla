-------------------------- MODULE SchedulerProofs --------------------------
(***************************************************************************)
(* Proofs about Scheduler.tla, for every number of threads, fibers and     *)
(* callbacks, every client profile and every bound.                        *)
(***************************************************************************)
EXTENDS Scheduler, TLAPS, FiniteSetTheorems, SequenceTheorems

-----------------------------------------------------------------------------
(***************************************************************************)
(* Lemmas about the operators.                                             *)
(***************************************************************************)

\* Without(s, i), the list after erase, is a list of the same tasks: each of
\* its elements is an element of s.
LEMMA WithoutProperties ==
    ASSUME NEW S, NEW s \in Seq(S), NEW i \in 1..Len(s)
    PROVE  /\ Without(s, i) \in Seq(S)
           /\ Len(Without(s, i)) = Len(s) - 1
           /\ \A k \in 1..Len(Without(s, i)) :
                 Without(s, i)[k] = IF k < i THEN s[k] ELSE s[k + 1]
  <1> DEFINE a == SubSeq(s, 1, i - 1)
             b == SubSeq(s, i + 1, Len(s))
  <1>1. Len(s) \in Nat
    BY LenProperties
  <1>2. /\ a \in Seq(S)
        /\ Len(a) = i - 1
        /\ \A k \in 1..(i - 1) : a[k] = s[k]
    BY <1>1, SubSeqProperties
  <1>3. /\ b \in Seq(S)
        /\ Len(b) = Len(s) - i
        /\ \A k \in 1..(Len(s) - i) : b[k] = s[i + k]
    BY <1>1, SubSeqProperties
  <1>4. /\ a \o b \in Seq(S)
        /\ Len(a \o b) = Len(a) + Len(b)
        /\ \A k \in 1..(Len(a) + Len(b)) :
              (a \o b)[k] = IF k <= Len(a) THEN a[k] ELSE b[k - Len(a)]
    BY <1>2, <1>3, ConcatProperties
  <1> HIDE DEF a, b
  <1>5. Without(s, i) = a \o b
    BY DEF Without, a, b
  <1>6. ASSUME NEW k \in 1..(Len(s) - 1)
        PROVE  (a \o b)[k] = IF k < i THEN s[k] ELSE s[k + 1]
    <2>1. CASE k < i
      BY <2>1, <1>1, <1>2, <1>3, <1>4
    <2>2. CASE ~(k < i)
      <3>1. k - (i - 1) \in 1..(Len(s) - i) /\ ~(k <= Len(a))
        BY <2>2, <1>1, <1>2
      <3>2. (a \o b)[k] = b[k - (i - 1)]
        BY <3>1, <1>1, <1>2, <1>3, <1>4
      <3>3. b[k - (i - 1)] = s[i + (k - (i - 1))]
        BY <3>1, <1>3
      <3>4. i + (k - (i - 1)) = k + 1
        BY <1>1
      <3> QED
        BY <2>2, <3>2, <3>3, <3>4
    <2> QED
      BY <2>1, <2>2
  <1>7. Len(a \o b) = Len(s) - 1
    BY <1>1, <1>2, <1>3, <1>4
  <1> QED
    BY <1>4, <1>5, <1>6, <1>7

\* scheduleNoLock() keeps the list a list of tasks, and lets only a task with
\* a fiber or a callback in.
LEMMA ScheduleNoLockProperties ==
    ASSUME NEW s \in Seq(FiberAndThread), NEW x \in FiberAndThread,
           \A i \in 1..Len(s) : s[i].fiber # NoFiber \/ s[i].cb # NoCb
    PROVE  LET r == ScheduleNoLock(s, x) IN
           /\ r \in Seq(FiberAndThread)
           /\ \A i \in 1..Len(r) : r[i].fiber # NoFiber \/ r[i].cb # NoCb
  BY AppendProperties, LenProperties DEF ScheduleNoLock

\* Two subsets of a finite set that agree outside one element t differ in
\* cardinality by what they say of t.
LEMMA OneElementMoves ==
    ASSUME NEW T, IsFiniteSet(T), NEW A \in SUBSET T, NEW B \in SUBSET T,
           NEW t \in T, \A u \in T \ {t} : u \in A <=> u \in B
    PROVE  /\ Cardinality(A) \in Nat
           /\ (t \in A <=> t \in B) => Cardinality(B) = Cardinality(A)
           /\ t \notin A /\ t \in B => Cardinality(B) = Cardinality(A) + 1
           /\ t \in A /\ t \notin B => Cardinality(B) = Cardinality(A) - 1
  <1>1. IsFiniteSet(A)
    BY FS_Subset
  <1>2. Cardinality(A) \in Nat
    BY <1>1, FS_CardinalityType
  <1>3. ASSUME t \in A <=> t \in B PROVE Cardinality(B) = Cardinality(A)
    <2>1. A = B
      BY <1>3
    <2> QED
      BY <2>1
  <1>4. ASSUME t \notin A, t \in B PROVE Cardinality(B) = Cardinality(A) + 1
    <2>1. B = A \cup {t}
      BY <1>4
    <2> QED
      BY <2>1, <1>1, <1>4, FS_AddElement
  <1>5. ASSUME t \in A, t \notin B PROVE Cardinality(B) = Cardinality(A) - 1
    <2>1. B = A \ {t}
      BY <1>5
    <2> QED
      BY <2>1, <1>1, <1>5, FS_RemoveElement
  <1> QED
    BY <1>2, <1>3, <1>4, <1>5

\* The pool and its caller are finitely many threads: counting them is sound.
LEMMA FiniteThreads == IsFiniteSet(Threads)
  BY SchedulerAssumption, FS_AddElement DEF Threads

\* A step in which only thread t moves changes the exact counts by t.
LEMMA OneThreadMoves ==
    ASSUME NEW t \in Threads,
           \A u \in Threads \ {t} : pc'[u] = pc[u] /\ ft'[u] = ft[u]
    PROVE  /\ Cardinality(ActiveThreads) \in Nat
           /\ Cardinality(IdleThreads) \in Nat
           /\ (t \in ActiveThreads <=> t \in ActiveThreads')
              => Cardinality(ActiveThreads') = Cardinality(ActiveThreads)
           /\ t \notin ActiveThreads /\ t \in ActiveThreads'
              => Cardinality(ActiveThreads') = Cardinality(ActiveThreads) + 1
           /\ t \in ActiveThreads /\ t \notin ActiveThreads'
              => Cardinality(ActiveThreads') = Cardinality(ActiveThreads) - 1
           /\ (t \in IdleThreads <=> t \in IdleThreads')
              => Cardinality(IdleThreads') = Cardinality(IdleThreads)
           /\ t \notin IdleThreads /\ t \in IdleThreads'
              => Cardinality(IdleThreads') = Cardinality(IdleThreads) + 1
           /\ t \in IdleThreads /\ t \notin IdleThreads'
              => Cardinality(IdleThreads') = Cardinality(IdleThreads) - 1
  <1>1. /\ \A u \in Threads \ {t} : u \in ActiveThreads <=> u \in ActiveThreads'
        /\ \A u \in Threads \ {t} : u \in IdleThreads <=> u \in IdleThreads'
    BY DEF ActiveThreads, IdleThreads
  <1>2. /\ ActiveThreads \in SUBSET Threads /\ ActiveThreads' \in SUBSET Threads
        /\ IdleThreads \in SUBSET Threads /\ IdleThreads' \in SUBSET Threads
    BY DEF ActiveThreads, IdleThreads
  <1> DEFINE Moves(A, B) ==
               /\ Cardinality(A) \in Nat
               /\ (t \in A <=> t \in B) => Cardinality(B) = Cardinality(A)
               /\ t \notin A /\ t \in B => Cardinality(B) = Cardinality(A) + 1
               /\ t \in A /\ t \notin B => Cardinality(B) = Cardinality(A) - 1
  <1>3. ASSUME NEW A \in SUBSET Threads, NEW B \in SUBSET Threads,
               \A u \in Threads \ {t} : u \in A <=> u \in B
        PROVE  Moves(A, B)
    <2>1. IsFiniteSet(Threads)
      BY FiniteThreads
    <2> QED
      BY <1>3, <2>1, OneElementMoves
  <1> HIDE DEF Moves
  <1>4. Moves(ActiveThreads, ActiveThreads') /\ Moves(IdleThreads, IdleThreads')
    BY <1>1, <1>2, <1>3
  <1> QED
    BY <1>4 DEF Moves

-----------------------------------------------------------------------------
(***************************************************************************)
(* Type correctness and exact counters.  The counters are in Nat           *)
(* because they are exact, so both are proved together (CountInv).         *)
(***************************************************************************)

\* TypeOK without the two counters.
Shape ==
    /\ FiberTypeOK
    /\ m_fibers \in Seq(FiberAndThread)
    /\ m_stopping \in BOOLEAN
    /\ m_autoStop \in BOOLEAN
    /\ m_threads \subseteq Workers
    /\ m_threadIds \in Seq(Threads \cup {AnyThread})
    /\ thrs \subseteq Workers
    /\ api \in Api
    /\ pc \in [Threads -> PC]
    /\ ft \in [Threads -> FiberAndThread]
    /\ cb_fiber \in [Threads -> Fibers \cup {NoFiber}]
    /\ idle_term \in [Threads -> BOOLEAN]
    /\ aborted \in Failure
    /\ submitted \subseteq Cbs
    /\ entered \in [Cbs -> Nat]
    /\ yields \in Nat
    /\ stops \in Nat

\* The parts of CountInv that are not about numbers.
Hands == TasksNonEmpty /\ HandsEmpty /\ CallerInRoot

\* CountInv from its parts: a counter that equals the cardinality of a set of
\* threads is a natural number, so its type needs no argument of its own.
LEMMA CountInvParts == CountInv <=> Shape /\ CountsExact /\ Hands
  <1>1. Cardinality(ActiveThreads) \in Nat /\ Cardinality(IdleThreads) \in Nat
    <2>1. ActiveThreads \subseteq Threads /\ IdleThreads \subseteq Threads
      BY DEF ActiveThreads, IdleThreads
    <2> QED
      BY <2>1, FiniteThreads, FS_Subset, FS_CardinalityType
  <1> QED
    BY <1>1 DEF CountInv, TypeOK, Shape, CountsExact, Hands

\* What reset() leaves in ft is a FiberAndThread.
LEMMA NoTaskType == NoTask \in FiberAndThread
  BY DEF NoTask, FiberAndThread

\* The fiber in hand is a fiber, or null.
LEMMA CurType ==
    ASSUME Shape, NEW t \in Threads
    PROVE  Cur(t) \in Fibers \cup {NoFiber}
  BY DEF Shape, Cur, FiberAndThread

\* A scheduler that has been constructed and not started satisfies CountInv.
LEMMA CountInvInit == Init => CountInv
  <1> SUFFICES ASSUME Init PROVE CountInv
    OBVIOUS
  <1>1. Shape
    <2>1. FiberTypeOK
      BY DEF Init, FiberInit, FiberTypeOK, State
    <2>2. m_fibers \in Seq(FiberAndThread) /\ m_threadIds \in Seq(Threads \cup {AnyThread})
      <3>1. m_fibers \in Seq(FiberAndThread)
        BY DEF Init
      <3>2. <<>> \in Seq(Threads \cup {AnyThread}) /\ Caller \in Threads \cup {AnyThread}
        BY DEF Threads
      <3>3. <<Caller>> \in Seq(Threads \cup {AnyThread})
        BY <3>2
      <3> QED
        BY <3>1, <3>2, <3>3 DEF Init
    <2>3. /\ pc \in [Threads -> PC]
          /\ ft \in [Threads -> FiberAndThread]
          /\ cb_fiber \in [Threads -> Fibers \cup {NoFiber}]
          /\ idle_term \in [Threads -> BOOLEAN]
          /\ entered \in [Cbs -> Nat]
      BY NoTaskType DEF Init, PC
    <2>4. api \in Api /\ aborted \in Failure
      BY DEF Init, Api, Failure
    <2> QED
      BY <2>1, <2>2, <2>3, <2>4 DEF Init, Shape
  <1>2. ActiveThreads = {} /\ IdleThreads = {}
    BY DEF Init, ActiveThreads, IdleThreads
  <1>3. CountsExact
    BY <1>2, FS_EmptySet DEF Init, CountsExact
  <1>4. Hands
    BY DEF Init, Hands, TasksNonEmpty, HandsEmpty, CallerInRoot, Threads
  <1> QED
    BY <1>1, <1>3, <1>4, CountInvParts

\* run() keeps CountInv: one step per action.
LEMMA CountInvRun ==
    ASSUME Shape, CountsExact, Hands, NEW t \in Threads, RunStep(t)
    PROVE  Shape' /\ CountsExact' /\ Hands'
  <1>1. CASE ThreadRun(t)
    <2>1. Shape'
      BY <1>1 DEF ThreadRun, fiberVars, taskVars, controlVars, localVars,
         historyVars, Shape, FiberTypeOK, State, PC, Api, Failure, Goto
    <2>2. \A u \in Threads \ {t} : pc'[u] = pc[u] /\ ft'[u] = ft[u]
      BY <1>1 DEF ThreadRun, localVars, Shape, Goto
    <2>3. /\ t \notin ActiveThreads /\ t \notin ActiveThreads'
          /\ t \notin IdleThreads /\ t \notin IdleThreads'
      BY <1>1 DEF ThreadRun, localVars, Shape, Goto, ActiveThreads, IdleThreads
    <2>4. CountsExact'
      BY <1>1, <2>2, <2>3, OneThreadMoves DEF ThreadRun, taskVars, CountsExact
    <2>5. Hands'
      BY <1>1 DEF ThreadRun, taskVars, controlVars, localVars, Shape, Goto, Hands,
         TasksNonEmpty, HandsEmpty, CallerInRoot
    <2> QED
      BY <2>1, <2>4, <2>5
  <1>2. CASE TakeNothing(t)
    <2>1. Shape'
      BY <1>2 DEF TakeNothing, fiberVars, taskVars, controlVars, localVars,
         historyVars, Shape, FiberTypeOK, State, PC, Api, Failure, Goto
    <2>2. \A u \in Threads \ {t} : pc'[u] = pc[u] /\ ft'[u] = ft[u]
      BY <1>2 DEF TakeNothing, localVars, Shape, Goto
    <2>3. /\ t \notin ActiveThreads /\ t \notin ActiveThreads'
          /\ t \notin IdleThreads /\ t \notin IdleThreads'
      BY <1>2 DEF TakeNothing, localVars, Shape, Goto, ActiveThreads, IdleThreads,
         Hands, TasksNonEmpty, HandsEmpty, NoTask
    <2>4. CountsExact'
      BY <1>2, <2>2, <2>3, OneThreadMoves DEF TakeNothing, taskVars, CountsExact
    <2>5. Hands'
      BY <1>2 DEF TakeNothing, taskVars, controlVars, localVars, Shape, Goto, Hands,
         TasksNonEmpty, HandsEmpty, CallerInRoot
    <2> QED
      BY <2>1, <2>4, <2>5
  <1>3. CASE DispatchFiber(t)
    <2>1. Shape'
      BY <1>3 DEF DispatchFiber, fiberVars, taskVars, controlVars, localVars,
         historyVars, Shape, FiberTypeOK, State, PC, Api, Failure, Goto
    <2>2. \A u \in Threads \ {t} : pc'[u] = pc[u] /\ ft'[u] = ft[u]
      BY <1>3 DEF DispatchFiber, localVars, Shape, Goto
    <2>3. /\ t \in ActiveThreads /\ t \in ActiveThreads'
          /\ t \notin IdleThreads /\ t \notin IdleThreads'
      BY <1>3 DEF DispatchFiber, localVars, Shape, Goto, ActiveThreads, IdleThreads,
         Hands, TasksNonEmpty, HandsEmpty, NoTask
    <2>4. CountsExact'
      BY <1>3, <2>2, <2>3, OneThreadMoves DEF DispatchFiber, taskVars, CountsExact
    <2>5. Hands'
      <3>1. /\ pc[t] = "dispatch" /\ pc' = [pc EXCEPT ![t] = "swapin"]
            /\ m_fibers' = m_fibers /\ ft' = ft /\ api' = api
        BY <1>3 DEF DispatchFiber, Goto, taskVars, controlVars, localVars
      <3> QED
        BY <3>1 DEF Shape, Hands, TasksNonEmpty, HandsEmpty, CallerInRoot
    <2> QED
      BY <2>1, <2>4, <2>5
  <1>4. CASE DispatchCb(t)
    <2>1. /\ pc[t] = "dispatch" /\ ft[t] # NoTask
          /\ pc' = [pc EXCEPT ![t] = "swapin"]
          /\ ft' = [ft EXCEPT ![t] = NoTask]
          /\ UNCHANGED <<taskVars, controlVars, idle_term, historyVars>>
      <3>1. ft[t].cb # NoCb => ft[t] # NoTask
        BY DEF NoTask
      <3> QED
        BY <1>4, <3>1, Zenon DEF DispatchCb, Goto
    <2>2. FiberTypeOK' /\ cb_fiber' \in [Threads -> Fibers \cup {NoFiber}] /\ aborted' \in Failure
      <3>1. ft[t].cb \in Cbs \cup {NoCb}
        BY DEF Shape, FiberAndThread
      <3>2. CASE cb_fiber[t] # NoFiber
        BY <1>4, <3>1, <3>2 DEF DispatchCb, Check, CanReset, Reset, Shape, FiberTypeOK, State, Failure
      <3>3. CASE cb_fiber[t] = NoFiber
        <4>1. PICK f \in Fibers : /\ Construct(f, ft[t].cb)
                                  /\ cb_fiber' = [cb_fiber EXCEPT ![t] = f]
                                  /\ UNCHANGED aborted
          BY <1>4, <3>3 DEF DispatchCb
        <4> QED
          BY <3>1, <4>1 DEF Construct, Shape, FiberTypeOK, State
      <3> QED
        BY <3>2, <3>3
    <2>3. Shape'
      BY <2>1, <2>2, NoTaskType DEF taskVars, controlVars, historyVars, Shape, PC
    <2>4. \A u \in Threads \ {t} : pc'[u] = pc[u] /\ ft'[u] = ft[u]
      BY <2>1 DEF Shape
    <2>5. /\ t \in ActiveThreads /\ t \in ActiveThreads'
          /\ t \notin IdleThreads /\ t \notin IdleThreads'
      BY <2>1 DEF Shape, ActiveThreads, IdleThreads
    <2>6. CountsExact'
      BY <2>1, <2>4, <2>5, OneThreadMoves DEF taskVars, CountsExact
    <2>7. Hands'
      BY <2>1 DEF taskVars, controlVars, Shape, Hands, TasksNonEmpty, HandsEmpty,
         CallerInRoot
    <2> QED
      BY <2>3, <2>6, <2>7
  <1>5. CASE DispatchSkip(t)
    <2>1. Shape'
      BY <1>5, NoTaskType DEF DispatchSkip, fiberVars, taskVars, controlVars,
         localVars, historyVars, Shape, FiberTypeOK, State, PC, Api, Failure, Goto
    <2>2. \A u \in Threads \ {t} : pc'[u] = pc[u] /\ ft'[u] = ft[u]
      BY <1>5 DEF DispatchSkip, localVars, Shape, Goto
    <2>3. /\ t \in ActiveThreads /\ t \notin ActiveThreads'
          /\ t \notin IdleThreads /\ t \notin IdleThreads'
      BY <1>5 DEF DispatchSkip, localVars, Shape, Goto, ActiveThreads, IdleThreads,
         Hands, TasksNonEmpty, HandsEmpty, NoTask
    <2>4. CountsExact'
      BY <1>5, <2>2, <2>3, OneThreadMoves DEF DispatchSkip, taskVars, CountsExact
    <2>5. Hands'
      BY <1>5, NoTaskType DEF DispatchSkip, taskVars, controlVars, localVars, Shape,
         Goto, Hands, TasksNonEmpty, HandsEmpty, CallerInRoot
    <2> QED
      BY <2>1, <2>4, <2>5
  <1>6. CASE DispatchIdle(t)
    <2>1. Shape'
      BY <1>6 DEF DispatchIdle, fiberVars, taskVars, controlVars, localVars,
         historyVars, Shape, FiberTypeOK, State, PC, Api, Failure, Goto
    <2>2. \A u \in Threads \ {t} : pc'[u] = pc[u] /\ ft'[u] = ft[u]
      BY <1>6 DEF DispatchIdle, localVars, Shape, Goto
    <2>3. /\ t \notin ActiveThreads /\ t \notin ActiveThreads'
          /\ t \notin IdleThreads /\ t \in IdleThreads'
      BY <1>6 DEF DispatchIdle, localVars, Shape, Goto, ActiveThreads, IdleThreads,
         Hands, TasksNonEmpty, HandsEmpty, NoTask
    <2>4. CountsExact'
      BY <1>6, <2>2, <2>3, OneThreadMoves DEF DispatchIdle, taskVars, CountsExact
    <2>5. Hands'
      BY <1>6 DEF DispatchIdle, taskVars, controlVars, localVars, Shape, Goto,
         Hands, TasksNonEmpty, HandsEmpty, CallerInRoot
    <2> QED
      BY <2>1, <2>4, <2>5
  <1>7. CASE Break(t)
    <2>1. Shape'
      BY <1>7 DEF Break, RootReturn, fiberVars, taskVars, controlVars, localVars, historyVars,
         Shape, FiberTypeOK, State, PC, Api, Failure, Goto
    <2>2. \A u \in Threads \ {t} : pc'[u] = pc[u] /\ ft'[u] = ft[u]
      BY <1>7 DEF Break, RootReturn, localVars, Shape, Goto
    <2>3. /\ t \notin ActiveThreads /\ t \notin ActiveThreads'
          /\ t \notin IdleThreads /\ t \notin IdleThreads'
      BY <1>7 DEF Break, RootReturn, localVars, Shape, Goto, ActiveThreads, IdleThreads, Hands,
         TasksNonEmpty, HandsEmpty, NoTask
    <2>4. CountsExact'
      BY <1>7, <2>2, <2>3, OneThreadMoves DEF Break, RootReturn, taskVars, CountsExact
    <2>5. Hands'
      BY <1>7 DEF Break, RootReturn, taskVars, controlVars, localVars, Shape, Goto, Hands,
         TasksNonEmpty, HandsEmpty, CallerInRoot
    <2> QED
      BY <2>1, <2>4, <2>5
  <1>8. CASE Idle(t)
    <2>1. Shape'
      BY <1>8 DEF Idle, Stopping, fiberVars, taskVars, controlVars, localVars,
         historyVars, Shape, FiberTypeOK, State, PC, Api, Failure, Goto
    <2>2. \A u \in Threads \ {t} : pc'[u] = pc[u] /\ ft'[u] = ft[u]
      BY <1>8 DEF Idle, localVars, Shape, Goto
    <2>3. /\ t \notin ActiveThreads /\ t \notin ActiveThreads'
          /\ t \in IdleThreads /\ t \in IdleThreads'
      BY <1>8 DEF Idle, localVars, Shape, Goto, ActiveThreads, IdleThreads, Hands,
         TasksNonEmpty, HandsEmpty, NoTask
    <2>4. CountsExact'
      BY <1>8, <2>2, <2>3, OneThreadMoves DEF Idle, taskVars, CountsExact
    <2>5. Hands'
      BY <1>8 DEF Idle, taskVars, controlVars, localVars, Shape, Goto, Hands,
         TasksNonEmpty, HandsEmpty, CallerInRoot
    <2> QED
      BY <2>1, <2>4, <2>5
  <1>9. CASE IdleOut(t)
    <2>1. Shape'
      BY <1>9 DEF IdleOut, fiberVars, taskVars, controlVars, localVars, historyVars,
         Shape, FiberTypeOK, State, PC, Api, Failure, Goto
    <2>2. \A u \in Threads \ {t} : pc'[u] = pc[u] /\ ft'[u] = ft[u]
      BY <1>9 DEF IdleOut, localVars, Shape, Goto
    <2>3. /\ t \notin ActiveThreads /\ t \notin ActiveThreads'
          /\ t \in IdleThreads /\ t \notin IdleThreads'
      BY <1>9 DEF IdleOut, localVars, Shape, Goto, ActiveThreads, IdleThreads,
         Hands, TasksNonEmpty, HandsEmpty, NoTask
    <2>4. CountsExact'
      BY <1>9, <2>2, <2>3, OneThreadMoves DEF IdleOut, taskVars, CountsExact
    <2>5. Hands'
      BY <1>9 DEF IdleOut, taskVars, controlVars, localVars, Shape, Goto, Hands,
         TasksNonEmpty, HandsEmpty, CallerInRoot
    <2> QED
      BY <2>1, <2>4, <2>5
  <1>10. CASE SwapIn(t)
    <2>1. /\ pc[t] = "swapin"
          /\ pc' = [pc EXCEPT ![t] = "exec"]
          /\ UNCHANGED <<taskVars, controlVars, localVars, submitted, yields>>
      BY <1>10 DEF SwapIn, Goto
    <2>2. FiberTypeOK'
      BY <1>10 DEF SwapIn, FiberSwapIn, Shape, FiberTypeOK, State
    <2>3. entered' \in [Cbs -> Nat] /\ aborted' \in Failure
      <3>1. \A c \in Cbs : entered[c] \in Nat /\ entered[c] + 1 \in Nat
        BY DEF Shape
      <3>2. entered' \in [Cbs -> Nat]
        BY <1>10, <3>1 DEF SwapIn
      <3>3. aborted' \in Failure
        BY <1>10 DEF SwapIn, Check, Failure
      <3> QED
        BY <3>2, <3>3
    <2>4. Shape'
      BY <2>1, <2>2, <2>3 DEF taskVars, controlVars, localVars, Shape, PC
    <2>5. \A u \in Threads \ {t} : pc'[u] = pc[u] /\ ft'[u] = ft[u]
      BY <2>1 DEF localVars, Shape
    <2>6. /\ t \in ActiveThreads /\ t \in ActiveThreads'
          /\ t \notin IdleThreads /\ t \notin IdleThreads'
      BY <2>1 DEF Shape, ActiveThreads, IdleThreads
    <2>7. CountsExact'
      BY <2>1, <2>5, <2>6, OneThreadMoves DEF taskVars, CountsExact
    <2>8. Hands'
      BY <2>1 DEF taskVars, controlVars, localVars, Shape, Hands, TasksNonEmpty,
         HandsEmpty, CallerInRoot
    <2> QED
      BY <2>4, <2>7, <2>8
  <1>11. CASE SwapOut(t)
    <2>1. Shape'
      BY <1>11 DEF SwapOut, fiberVars, taskVars, controlVars, localVars,
         historyVars, Shape, FiberTypeOK, State, PC, Api, Failure, Goto
    <2>2. \A u \in Threads \ {t} : pc'[u] = pc[u] /\ ft'[u] = ft[u]
      BY <1>11 DEF SwapOut, localVars, Shape, Goto
    <2>3. /\ t \in ActiveThreads /\ t \in ActiveThreads'
          /\ t \notin IdleThreads /\ t \notin IdleThreads'
      BY <1>11 DEF SwapOut, localVars, Shape, Goto, ActiveThreads, IdleThreads
    <2>4. CountsExact'
      BY <1>11, <2>2, <2>3, OneThreadMoves DEF SwapOut, taskVars, CountsExact
    <2>5. Hands'
      BY <1>11 DEF SwapOut, taskVars, controlVars, localVars, Shape, Goto, Hands,
         TasksNonEmpty, HandsEmpty, CallerInRoot
    <2> QED
      BY <2>1, <2>4, <2>5
  <1>12. CASE Leave(t)
    <2>1. Shape'
      BY <1>12 DEF Leave, fiberVars, taskVars, controlVars, localVars, historyVars,
         Shape, FiberTypeOK, State, PC, Api, Failure, Goto
    <2>2. \A u \in Threads \ {t} : pc'[u] = pc[u] /\ ft'[u] = ft[u]
      BY <1>12 DEF Leave, localVars, Shape, Goto
    <2>3. /\ t \in ActiveThreads /\ t \notin ActiveThreads'
          /\ t \notin IdleThreads /\ t \notin IdleThreads'
      BY <1>12 DEF Leave, localVars, Shape, Goto, ActiveThreads, IdleThreads
    <2>4. CountsExact'
      BY <1>12, <2>2, <2>3, OneThreadMoves DEF Leave, taskVars, CountsExact
    <2>5. Hands'
      BY <1>12 DEF Leave, taskVars, controlVars, localVars, Shape, Goto, Hands,
         TasksNonEmpty, HandsEmpty, CallerInRoot
    <2> QED
      BY <2>1, <2>4, <2>5
  <1>13. CASE PostReady(t)
    <2>1. Shape'
      BY <1>13 DEF PostReady, fiberVars, taskVars, controlVars, localVars,
         historyVars, Shape, FiberTypeOK, State, PC, Api, Failure, Goto
    <2>2. \A u \in Threads \ {t} : pc'[u] = pc[u] /\ ft'[u] = ft[u]
      BY <1>13 DEF PostReady, localVars, Shape, Goto
    <2>3. /\ t \notin ActiveThreads /\ t \notin ActiveThreads'
          /\ t \notin IdleThreads /\ t \notin IdleThreads'
      BY <1>13 DEF PostReady, localVars, Shape, Goto, ActiveThreads, IdleThreads
    <2>4. CountsExact'
      BY <1>13, <2>2, <2>3, OneThreadMoves DEF PostReady, taskVars, CountsExact
    <2>5. Hands'
      BY <1>13 DEF PostReady, taskVars, controlVars, localVars, Shape, Goto, Hands,
         TasksNonEmpty, HandsEmpty, CallerInRoot
    <2> QED
      BY <2>1, <2>4, <2>5
  <1>14. CASE PostFinished(t)
    <2>1. Shape'
      BY <1>14, NoTaskType DEF PostFinished, Reset, fiberVars, taskVars,
         controlVars, localVars, historyVars, Shape, FiberTypeOK, State, PC, Api,
         Failure, Goto
    <2>2. \A u \in Threads \ {t} : pc'[u] = pc[u] /\ ft'[u] = ft[u]
      BY <1>14 DEF PostFinished, localVars, Shape, Goto
    <2>3. /\ t \notin ActiveThreads /\ t \notin ActiveThreads'
          /\ t \notin IdleThreads /\ t \notin IdleThreads'
      BY <1>14 DEF PostFinished, localVars, Shape, Goto, ActiveThreads, IdleThreads
    <2>4. CountsExact'
      BY <1>14, <2>2, <2>3, OneThreadMoves DEF PostFinished, taskVars, CountsExact
    <2>5. Hands'
      BY <1>14, NoTaskType DEF PostFinished, taskVars, controlVars, localVars,
         Shape, Goto, Hands, TasksNonEmpty, HandsEmpty, CallerInRoot
    <2> QED
      BY <2>1, <2>4, <2>5
  <1>15. CASE PostHold(t)
    <2>1. Shape'
      BY <1>15, NoTaskType DEF PostHold, StoreHold, DropCbFiber, fiberVars,
         taskVars, controlVars, localVars, historyVars, Shape, FiberTypeOK, State,
         PC, Api, Failure, Goto
    <2>2. \A u \in Threads \ {t} : pc'[u] = pc[u] /\ ft'[u] = ft[u]
      BY <1>15 DEF PostHold, localVars, Shape, Goto
    <2>3. /\ t \notin ActiveThreads /\ t \notin ActiveThreads'
          /\ t \notin IdleThreads /\ t \notin IdleThreads'
      BY <1>15 DEF PostHold, localVars, Shape, Goto, ActiveThreads, IdleThreads
    <2>4. CountsExact'
      BY <1>15, <2>2, <2>3, OneThreadMoves DEF PostHold, taskVars, CountsExact
    <2>5. Hands'
      BY <1>15, NoTaskType DEF PostHold, taskVars, controlVars, localVars, Shape,
         Goto, Hands, TasksNonEmpty, HandsEmpty, CallerInRoot
    <2> QED
      BY <2>1, <2>4, <2>5
  <1>16. CASE Take(t)
    <2>1. PICK i \in 1..Len(m_fibers) :
             /\ ft' = [ft EXCEPT ![t] = m_fibers[i]]
             /\ m_fibers' = Without(m_fibers, i)
      BY <1>16 DEF Take
    <2>2. /\ m_fibers' \in Seq(FiberAndThread)
          /\ Len(m_fibers') = Len(m_fibers) - 1
          /\ \A k \in 1..Len(m_fibers') :
                m_fibers'[k] = IF k < i THEN m_fibers[k] ELSE m_fibers[k + 1]
      BY <2>1, WithoutProperties DEF Shape
    <2>3. m_fibers[i] \in FiberAndThread /\ m_fibers[i] # NoTask
      <3>1. m_fibers[i] \in FiberAndThread
        BY ElementOfSeq DEF Shape
      <3>2. m_fibers[i].fiber # NoFiber \/ m_fibers[i].cb # NoCb
        BY DEF Hands, TasksNonEmpty
      <3> QED
        BY <3>1, <3>2 DEF NoTask
    <2>4. Shape'
      <3>1. pc' \in [Threads -> PC]
        BY <1>16 DEF Take, Goto, Shape, PC
      <3>2. ft' \in [Threads -> FiberAndThread]
        BY <2>1, <2>3 DEF Shape
      <3> QED
        BY <1>16, <2>2, <3>1, <3>2 DEF Take, fiberVars, controlVars, historyVars,
           Shape, FiberTypeOK
    <2>5. \A u \in Threads \ {t} : pc'[u] = pc[u] /\ ft'[u] = ft[u]
      BY <1>16, <2>1 DEF Take, Shape, Goto
    <2>6. /\ t \notin ActiveThreads /\ t \in ActiveThreads'
          /\ t \notin IdleThreads /\ t \notin IdleThreads'
      BY <1>16, <2>1, <2>3 DEF Take, Shape, Goto, ActiveThreads, IdleThreads
    <2>7. CountsExact'
      BY <1>16, <2>5, <2>6, OneThreadMoves DEF Take, CountsExact
    <2>8. TasksNonEmpty'
      <3> SUFFICES ASSUME NEW k \in 1..Len(m_fibers')
                   PROVE  m_fibers'[k].fiber # NoFiber \/ m_fibers'[k].cb # NoCb
        BY DEF TasksNonEmpty
      <3>1. Len(m_fibers) \in Nat
        BY LenProperties DEF Shape
      <3>2. PICK j \in 1..Len(m_fibers) : m_fibers'[k] = m_fibers[j]
        BY <2>2, <3>1
      <3> QED
        BY <3>2 DEF Hands, TasksNonEmpty
    <2>9. HandsEmpty' /\ CallerInRoot'
      <3>1. pc[t] = "take" /\ pc' = [pc EXCEPT ![t] = "dispatch"] /\ api' = api
        BY <1>16 DEF Take, Goto, controlVars
      <3> QED
        BY <2>1, <3>1 DEF Shape, Hands, HandsEmpty, CallerInRoot
    <2> QED
      BY <2>4, <2>7, <2>8, <2>9 DEF Hands
  <1>17. CASE Requeue(t)
    <2>1. FiberTask(Cur(t), AnyThread) \in FiberAndThread
      BY CurType, FiberAssumption DEF FiberTask, FiberAndThread
    <2>2. /\ m_fibers' \in Seq(FiberAndThread)
          /\ TasksNonEmpty'
      BY <1>17, <2>1, ScheduleNoLockProperties
         DEF Requeue, Shape, Hands, TasksNonEmpty
    <2>3. Shape'
      BY <1>17, <2>2, NoTaskType DEF Requeue, fiberVars, controlVars, historyVars,
         Shape, FiberTypeOK, PC, Goto, DropCbFiber
    <2>4. \A u \in Threads \ {t} : pc'[u] = pc[u] /\ ft'[u] = ft[u]
      BY <1>17 DEF Requeue, Shape, Goto
    <2>5. /\ t \notin ActiveThreads /\ t \notin ActiveThreads'
          /\ t \notin IdleThreads /\ t \notin IdleThreads'
      BY <1>17 DEF Requeue, Shape, Goto, ActiveThreads, IdleThreads
    <2>6. CountsExact'
      BY <1>17, <2>4, <2>5, OneThreadMoves DEF Requeue, CountsExact
    <2>7. HandsEmpty' /\ CallerInRoot'
      BY <1>17 DEF Requeue, controlVars, Shape, Goto, Hands, HandsEmpty, CallerInRoot
    <2> QED
      BY <2>2, <2>3, <2>6, <2>7 DEF Hands
  <1> QED
    BY <1>1, <1>2, <1>3, <1>4, <1>5, <1>6, <1>7, <1>8, <1>9, <1>10, <1>11, <1>12,
       <1>13, <1>14, <1>15, <1>16, <1>17 DEF RunStep

\* A callback that yields, returns, throws or switches thread keeps CountInv:
\* its thread stays active until run() has it back.
LEMMA CountInvCallback ==
    ASSUME Shape, CountsExact, Hands, NEW t \in Threads, CallbackStep(t)
    PROVE  Shape' /\ CountsExact' /\ Hands'
  <1>1. /\ pc[t] \in {"exec", "hold"}
        /\ pc' = [pc EXCEPT ![t] = pc'[t]]
        /\ pc'[t] \in {"hold", "swapout"}
        /\ UNCHANGED <<m_activeThreadCount, m_idleThreadCount, controlVars, localVars,
                       submitted, entered>>
    BY Zenon DEF CallbackStep, YieldToHold, YieldToReady, Return, Throw, SwitchTo, Running,
       Goto, taskVars, historyVars, Shape
  <1>2. FiberTypeOK'
    BY DEF CallbackStep, YieldToHold, YieldToReady, Return, Throw, SwitchTo,
       FiberYieldToHold, FiberYieldToReady, MainFuncReturn, MainFuncThrow, fiberVars,
       Shape, FiberTypeOK, State
  <1>3. yields' \in Nat /\ aborted' \in Failure
    <2>1. yields' = yields \/ yields' = yields + 1
      BY Zenon DEF CallbackStep, YieldToHold, YieldToReady, Return, Throw, SwitchTo, historyVars
    <2>2. aborted' = aborted \/ aborted' \in {"none", "YieldToHold: EXEC", "YieldToReady: EXEC"}
      BY Zenon DEF CallbackStep, YieldToHold, YieldToReady, Return, Throw, SwitchTo, Check
    <2>3. yields' \in Nat
      BY <2>1 DEF Shape
    <2>4. aborted' \in Failure
      BY <2>2 DEF Shape, Failure
    <2> QED
      BY <2>3, <2>4
  <1>4. m_fibers' \in Seq(FiberAndThread) /\ TasksNonEmpty'
    <2>1. CASE UNCHANGED m_fibers
      BY <2>1 DEF Shape, Hands, TasksNonEmpty
    <2>2. CASE \E thread \in Threads : SwitchTo(t, thread)
      <3>1. PICK thread \in Threads : SwitchTo(t, thread)
        BY <2>2
      <3>2. FiberTask(Cur(t), thread) \in FiberAndThread
        BY CurType, FiberAssumption DEF FiberTask, FiberAndThread
      <3> QED
        BY <3>1, <3>2, ScheduleNoLockProperties
           DEF SwitchTo, Shape, Hands, TasksNonEmpty
    <2> QED
      BY <2>1, <2>2 DEF CallbackStep, YieldToHold, YieldToReady, Return, Throw, taskVars
  <1>5. Shape'
    BY <1>1, <1>2, <1>3, <1>4 DEF Shape, controlVars, localVars, PC
  <1>6. \A u \in Threads \ {t} : pc'[u] = pc[u] /\ ft'[u] = ft[u]
    BY <1>1 DEF Shape, localVars
  <1>7. /\ t \in ActiveThreads /\ t \in ActiveThreads'
        /\ t \notin IdleThreads /\ t \notin IdleThreads'
    BY <1>1 DEF ActiveThreads, IdleThreads
  <1>8. CountsExact'
    BY <1>1, <1>6, <1>7, OneThreadMoves DEF CountsExact
  <1>9. HandsEmpty' /\ CallerInRoot'
    <2>1. HandsEmpty'
      BY <1>1 DEF Shape, Hands, HandsEmpty, localVars
    <2>2. CallerInRoot'
      BY <1>1, <1>6 DEF Hands, CallerInRoot, controlVars, Threads
    <2> QED
      BY <2>1, <2>2
  <1> QED
    BY <1>4, <1>5, <1>8, <1>9 DEF Hands

\* A step that moves no thread and no counter keeps the counts.
LEMMA CountsUnchanged ==
    ASSUME CountsExact, UNCHANGED <<pc, ft, m_activeThreadCount, m_idleThreadCount>>
    PROVE  CountsExact'
  BY DEF CountsExact, ActiveThreads, IdleThreads

\* The calls of schedule() keep CountInv.
LEMMA CountInvSchedule ==
    ASSUME Shape, CountsExact, Hands, NEW a \in Threads, ScheduleStep(a)
    PROVE  Shape' /\ CountsExact' /\ Hands'
  <1> DEFINE Kept == UNCHANGED <<pc, localVars, controlVars, aborted, entered,
                                 m_activeThreadCount, m_idleThreadCount>>
             Known == submitted' \subseteq Cbs /\ yields' \in Nat
  <1>1. Kept /\ Known /\ FiberTypeOK'
    <2>1. ASSUME NEW c \in Cbs, NEW thread \in Threads \cup {AnyThread},
                 ScheduleCb(a, c, thread)
          PROVE  Kept /\ Known /\ FiberTypeOK'
      <3>1. Kept /\ UNCHANGED <<fiberVars, yields>> /\ submitted' = submitted \cup {c}
        BY <2>1 DEF ScheduleCb
      <3>2. Known
        BY <3>1 DEF Shape
      <3>3. FiberTypeOK'
        BY <3>1 DEF Shape, FiberTypeOK, fiberVars
      <3> QED
        BY <3>1, <3>2, <3>3
    <2>2. ASSUME NEW f \in Fibers, NEW c \in Cbs, NEW thread \in Threads \cup {AnyThread},
                 ScheduleFiber(a, f, c, thread)
          PROVE  Kept /\ Known /\ FiberTypeOK'
      <3>1. Kept /\ UNCHANGED yields /\ submitted' = submitted \cup {c} /\ Construct(f, c)
        BY <2>2 DEF ScheduleFiber
      <3>2. Known
        BY <3>1 DEF Shape
      <3>3. FiberTypeOK'
        BY <3>1 DEF Shape, FiberTypeOK, Construct, State
      <3> QED
        BY <3>1, <3>2, <3>3
    <2>3. ASSUME NEW c \in Cbs, NEW d \in Cbs, ScheduleBatch(a, c, d)
          PROVE  Kept /\ Known /\ FiberTypeOK'
      <3>1. Kept /\ UNCHANGED <<fiberVars, yields>> /\ submitted' = submitted \cup {c, d}
        BY <2>3 DEF ScheduleBatch
      <3>2. Known
        BY <3>1 DEF Shape
      <3>3. FiberTypeOK'
        BY <3>1 DEF Shape, FiberTypeOK, fiberVars
      <3> QED
        BY <3>1, <3>2, <3>3
    <2>4. ASSUME NEW f \in Fibers, NEW thread \in Threads \cup {AnyThread}, Wake(a, f, thread)
          PROVE  Kept /\ Known /\ FiberTypeOK'
      <3>1. Kept /\ UNCHANGED <<fiberVars, submitted>> /\ yields' = yields + 1
        BY <2>4 DEF Wake
      <3>2. Known
        BY <3>1 DEF Shape
      <3>3. FiberTypeOK'
        BY <3>1 DEF Shape, FiberTypeOK, fiberVars
      <3> QED
        BY <3>1, <3>2, <3>3
    <2> HIDE DEF Kept, Known
    <2> QED
      BY <2>1, <2>2, <2>3, <2>4 DEF ScheduleStep
  <1>3. m_fibers' \in Seq(FiberAndThread) /\ TasksNonEmpty'
    <2>1. ASSUME NEW c \in Cbs, NEW thread \in Threads \cup {AnyThread}
          PROVE  CbTask(c, thread) \in FiberAndThread
      BY DEF CbTask, FiberAndThread
    <2>2. ASSUME NEW f \in Fibers, NEW thread \in Threads \cup {AnyThread}
          PROVE  FiberTask(f, thread) \in FiberAndThread
      BY DEF FiberTask, FiberAndThread
    <2>3. CASE \E c \in Cbs, thread \in Threads \cup {AnyThread} : ScheduleCb(a, c, thread)
      BY <2>1, <2>3, ScheduleNoLockProperties DEF ScheduleCb, Shape, Hands, TasksNonEmpty
    <2>4. CASE \E f \in Fibers, c \in Cbs, thread \in Threads \cup {AnyThread} :
                  ScheduleFiber(a, f, c, thread)
      BY <2>2, <2>4, ScheduleNoLockProperties DEF ScheduleFiber, Shape, Hands, TasksNonEmpty
    <2>5. CASE \E f \in Fibers, thread \in Threads \cup {AnyThread} : Wake(a, f, thread)
      BY <2>2, <2>5, ScheduleNoLockProperties DEF Wake, Shape, Hands, TasksNonEmpty
    <2>6. CASE \E c, d \in Cbs : ScheduleBatch(a, c, d)
      <3>1. PICK c \in Cbs, d \in Cbs : ScheduleBatch(a, c, d)
        BY <2>6
      <3> DEFINE first == ScheduleNoLock(m_fibers, CbTask(c, AnyThread))
      <3>2. m_fibers' = ScheduleNoLock(first, CbTask(d, AnyThread))
        BY <3>1 DEF ScheduleBatch
      <3>3. /\ first \in Seq(FiberAndThread)
            /\ \A i \in 1..Len(first) : first[i].fiber # NoFiber \/ first[i].cb # NoCb
        BY <2>1, ScheduleNoLockProperties DEF Shape, Hands, TasksNonEmpty
      <3> HIDE DEF first
      <3> QED
        BY <2>1, <3>2, <3>3, ScheduleNoLockProperties DEF TasksNonEmpty
    <2> QED
      BY <2>3, <2>4, <2>5, <2>6 DEF ScheduleStep
  <1>4. Shape'
    BY <1>1, <1>3 DEF Shape, controlVars, localVars
  <1>5. CountsExact'
    BY <1>1, CountsUnchanged DEF localVars
  <1>6. HandsEmpty' /\ CallerInRoot'
    BY <1>1 DEF Hands, HandsEmpty, CallerInRoot, localVars, controlVars
  <1> QED
    BY <1>3, <1>4, <1>5, <1>6 DEF Hands

\* start(), stop() and the destructor keep CountInv.
LEMMA CountInvOwner ==
    ASSUME Shape, CountsExact, Hands, OwnerStep
    PROVE  Shape' /\ CountsExact' /\ Hands'
  <1> USE DEF fiberVars, taskVars, localVars, historyVars
  <1>1. CASE \E w \in Workers, ran \in BOOLEAN : StartThread(w, ran)
    <2>1. PICK w \in Workers, ran \in BOOLEAN : StartThread(w, ran)
      BY <1>1
    <2>2. w \in Threads /\ w # Caller
      BY SchedulerAssumption DEF Threads
    <2>3. m_threadIds' \in Seq(Threads \cup {AnyThread})
      BY <2>1, <2>2, AppendProperties DEF StartThread, GetId, Shape
    <2>4. Shape'
      BY <2>1, <2>2, <2>3 DEF StartThread, GetId, Goto, Shape, FiberTypeOK, PC
    <2>5. \A u \in Threads \ {w} : pc'[u] = pc[u] /\ ft'[u] = ft[u]
      BY <2>1 DEF StartThread, GetId, Goto, Shape
    <2>6. /\ w \notin ActiveThreads /\ w \notin ActiveThreads'
          /\ w \notin IdleThreads /\ w \notin IdleThreads'
      BY <2>1, <2>2 DEF StartThread, GetId, Goto, Shape, ActiveThreads, IdleThreads
    <2>7. CountsExact'
      BY <2>1, <2>2, <2>5, <2>6, OneThreadMoves DEF StartThread, GetId, CountsExact
    <2>8. Hands'
      BY <2>1, <2>2 DEF StartThread, GetId, Goto, Shape, Hands, TasksNonEmpty, HandsEmpty,
         CallerInRoot
    <2> QED
      BY <2>4, <2>7, <2>8
  <1>2. CASE StopRoot
    <2>1. Caller \in Threads
      BY DEF Threads
    <2>2. pc[Caller] \in {"none", "exit"}
      BY <1>2 DEF StopRoot, RootCall, Hands, CallerInRoot
    <2>3. pc' = pc \/ pc' = [pc EXCEPT ![Caller] = "take"]
      BY <1>2 DEF StopRoot, RootCall, Goto
    <2>4. aborted' \in Failure /\ api' \in {"root", "stopSwap"} /\ (pc' # pc => api' = "root")
      BY <1>2 DEF StopRoot, RootCall, Check, Shape, Failure
    <2>5. Shape'
      BY <1>2, <2>1, <2>3, <2>4 DEF StopRoot, RootCall, Shape, FiberTypeOK, PC, Api
    <2>6. \A u \in Threads \ {Caller} : pc'[u] = pc[u] /\ ft'[u] = ft[u]
      BY <1>2, <2>3 DEF StopRoot, RootCall, Shape
    <2>7. /\ Caller \notin ActiveThreads /\ Caller \notin ActiveThreads'
          /\ Caller \notin IdleThreads /\ Caller \notin IdleThreads'
      BY <2>1, <2>2, <2>3 DEF Shape, ActiveThreads, IdleThreads
    <2>8. CountsExact'
      BY <1>2, <2>1, <2>6, <2>7, OneThreadMoves DEF StopRoot, RootCall, CountsExact
    <2>9. Hands'
      BY <1>2, <2>1, <2>2, <2>3, <2>4 DEF StopRoot, RootCall, Shape, Hands, TasksNonEmpty,
         HandsEmpty, CallerInRoot
    <2> QED
      BY <2>5, <2>8, <2>9
  <1>3. CASE \/ Start \/ StopBegin \/ Destroy
             \/ StartDone \/ StopNoThreads \/ StopSet \/ StopSwap \/ StopJoin
    <2>1. /\ UNCHANGED <<fiberVars, taskVars, pc, localVars, historyVars, m_threadIds>>
          /\ api # "root"
      BY <1>3 DEF Start, StopBegin, Destroy, StartDone, StopNoThreads, StopSet,
         StopSwap, StopJoin, Joined
    <2>2. /\ m_threads' \subseteq Workers /\ thrs' \subseteq Workers
          /\ m_stopping' \in BOOLEAN /\ m_autoStop' \in BOOLEAN
          /\ stops' \in Nat
      <3>1. /\ m_threads' \in {m_threads, {}} /\ thrs' \in {thrs, m_threads, {}}
            /\ m_stopping' \in {m_stopping, TRUE, FALSE} /\ m_autoStop' \in {m_autoStop, TRUE}
            /\ stops' \in {stops, stops + 1}
        BY <1>3, Zenon DEF Start, StopBegin, Destroy, StartDone, StopNoThreads, StopSet,
           StopSwap, StopJoin, Joined
      <3>2. m_stopping' \in BOOLEAN /\ m_autoStop' \in BOOLEAN
        BY <3>1, Zenon DEF Shape
      <3> QED
        BY <3>1, <3>2 DEF Shape
    <2>3. api' \in Api /\ aborted' \in Failure
      BY <1>3 DEF Start, StopBegin, Destroy, StartDone, StopNoThreads, StopSet,
         StopSwap, StopJoin, Joined, Check, Shape, Api, Failure
    <2>4. Shape'
      BY <2>1, <2>2, <2>3 DEF Shape, FiberTypeOK
    <2>5. CountsExact'
      BY <2>1, CountsUnchanged
    <2>6. Hands'
      BY <2>1 DEF Hands, TasksNonEmpty, HandsEmpty, CallerInRoot
    <2> QED
      BY <2>4, <2>5, <2>6
  <1> QED
    BY <1>1, <1>2, <1>3 DEF OwnerStep, ApiStep

\* Every step of the program keeps CountInv.
LEMMA CountInvNext == CountInv /\ [Next]_vars => CountInv'
  <1> SUFFICES ASSUME CountInv, [Next]_vars PROVE CountInv'
    OBVIOUS
  <1>1. Shape /\ CountsExact /\ Hands
    BY CountInvParts
  <1>2. Shape' /\ CountsExact' /\ Hands'
    <2>1. CASE OwnerStep
      BY <1>1, <2>1, CountInvOwner
    <2>2. CASE \E t \in Threads : RunStep(t) \/ CallbackStep(t) \/ ScheduleStep(t)
      BY <1>1, <2>2, CountInvRun, CountInvCallback, CountInvSchedule
    <2>3. CASE UNCHANGED vars
      <3>1. UNCHANGED <<fiberVars, taskVars, controlVars, pc, localVars, historyVars, aborted>>
        BY <2>3 DEF vars
      <3>2. Shape'
        BY <1>1, <3>1 DEF Shape, FiberTypeOK, fiberVars, taskVars, controlVars, localVars,
           historyVars
      <3>3. CountsExact'
        BY <1>1, <3>1, CountsUnchanged DEF taskVars, localVars
      <3>4. Hands'
        BY <1>1, <3>1 DEF Hands, TasksNonEmpty, HandsEmpty, CallerInRoot, taskVars,
           localVars, controlVars
      <3> QED
        BY <3>2, <3>3, <3>4
    <2> QED
      BY <2>1, <2>2, <2>3 DEF Next, Step, Over
  <1>3. (CountInv <=> Shape /\ CountsExact /\ Hands)'
    BY CountInvParts, PTL
  <1> QED
    BY <1>2, <1>3

\* Every variable keeps its type: in particular neither counter of run()
\* goes below zero, whatever the callbacks and the owner do.
THEOREM TypeCorrect == Spec => []TypeOK
  <1>1. CountInv => TypeOK
    BY DEF CountInv
  <1> QED
    BY <1>1, CountInvInit, CountInvNext, PTL DEF Spec

\* m_activeThreadCount and m_idleThreadCount always equal the number of
\* threads that have a task in hand, or are in the idle fiber: what
\* stopping() reads is exact, also when callbacks misuse the scheduler.
THEOREM CountersCorrect == Spec => []CountsExact
  <1>1. CountInv => CountsExact
    BY DEF CountInv
  <1> QED
    BY <1>1, CountInvInit, CountInvNext, PTL DEF Spec

-----------------------------------------------------------------------------
(***************************************************************************)
(* The threads of the pool.                                                *)
(***************************************************************************)

\* A scheduler that has been constructed has no thread, so PoolInv holds.
LEMMA PoolInvInit == Init => PoolInv
  BY DEF Init, PoolInv, Threads

\* A step of run() ends a worker or leaves it alive; none is created.
LEMMA RunStepFrame ==
    ASSUME Shape, Hands, NEW t \in Threads, RunStep(t) \/ CallbackStep(t)
    PROVE  /\ pc[t] \notin {"none", "exit"}
           /\ \A u \in Threads \ {t} : pc'[u] = pc[u]
           /\ UNCHANGED <<m_threadCount, m_threads, thrs, m_stopping, m_autoStop>>
           /\ api' = api \/ (t = Caller /\ api' = "stopSwap")
           /\ aborted' \in {aborted, "none", "swapIn: not EXEC", "MainFunc: never reach",
                           "reset: TERM, EXCEPT or INIT", "YieldToHold: EXEC",
                           "YieldToReady: EXEC"}
  <1>1. CASE Break(t)
    BY <1>1 DEF Break, RootReturn, Goto, Shape
  <1>2. CASE RunStep(t) /\ ~Break(t)
    <2>1. UNCHANGED controlVars
      BY <1>2, Zenon DEF RunStep, ThreadRun, Take, TakeNothing, DispatchFiber, DispatchCb,
         DispatchSkip, DispatchIdle, Idle, IdleOut, SwapIn, SwapOut, Leave,
         PostReady, Requeue, PostFinished, PostHold
    <2>2. /\ pc[t] \notin {"none", "exit"}
          /\ \E x : pc' = [pc EXCEPT ![t] = x]
      BY <1>2, Zenon DEF RunStep, ThreadRun, Take, TakeNothing, DispatchFiber, DispatchCb,
         DispatchSkip, DispatchIdle, Idle, IdleOut, SwapIn, SwapOut, Leave,
         PostReady, Requeue, PostFinished, PostHold, Goto
    <2>3. aborted' \in {aborted, "none", "swapIn: not EXEC", "MainFunc: never reach",
                        "reset: TERM, EXCEPT or INIT"}
      BY <1>2 DEF RunStep, ThreadRun, Take, TakeNothing, DispatchFiber, DispatchCb,
         DispatchSkip, DispatchIdle, Idle, IdleOut, SwapIn, SwapOut, Leave,
         PostReady, Requeue, PostFinished, PostHold, Check
    <2> QED
      BY <2>1, <2>2, <2>3 DEF controlVars, Shape
  <1>3. CASE CallbackStep(t)
    <2>1. UNCHANGED controlVars
      BY <1>3, Zenon DEF CallbackStep, YieldToHold, YieldToReady, Return, Throw, SwitchTo
    <2>2. /\ pc[t] \notin {"none", "exit"}
          /\ \E x : pc' = [pc EXCEPT ![t] = x]
      BY <1>3, Zenon DEF CallbackStep, YieldToHold, YieldToReady, Return, Throw, SwitchTo,
         Goto, Running
    <2>3. aborted' \in {aborted, "none", "YieldToHold: EXEC", "YieldToReady: EXEC"}
      BY <1>3 DEF CallbackStep, YieldToHold, YieldToReady, Return, Throw, SwitchTo, Check
    <2> QED
      BY <2>1, <2>2, <2>3 DEF controlVars, Shape
  <1> QED
    BY <1>1, <1>2, <1>3

\* Every step keeps PoolInv: only start() creates threads, only under
\* ~m_stopping, and stop() forgets them only when it has joined them.
LEMMA PoolInvNext ==
    ASSUME CountInv, PoolInv, [Next]_vars
    PROVE  PoolInv'
  <1>1. Shape /\ CountsExact /\ Hands
    BY CountInvParts
  <1>2. Cardinality(m_threads) \in Nat
    BY <1>1, SchedulerAssumption, FS_Subset, FS_CardinalityType DEF Shape
  <1>3. CASE UNCHANGED vars
    BY <1>3 DEF vars, controlVars, PoolInv
  <1>4. ASSUME aborted = "none", NEW t \in Threads, RunStep(t) \/ CallbackStep(t)
        PROVE  PoolInv'
    <2>1. /\ pc[t] \notin {"none", "exit"}
          /\ \A u \in Threads \ {t} : pc'[u] = pc[u]
          /\ UNCHANGED <<m_threadCount, m_threads, thrs, m_stopping, m_autoStop>>
          /\ api' = api \/ (t = Caller /\ api' = "stopSwap")
          /\ aborted' # "start: m_threads.empty()"
      BY <1>1, <1>4, RunStepFrame
    <2>2. t = Caller => api = "root"
      BY <1>1, <2>1 DEF Hands, CallerInRoot
    <2> QED
      BY <1>4, <2>1, <2>2, SchedulerAssumption DEF PoolInv, Threads
  <1>5. ASSUME aborted = "none", NEW a \in Threads, ScheduleStep(a)
        PROVE  PoolInv'
    <2>1. UNCHANGED <<pc, controlVars, aborted>>
      BY <1>5 DEF ScheduleStep, ScheduleCb, ScheduleFiber, ScheduleBatch, Wake
    <2> QED
      BY <2>1 DEF PoolInv, controlVars
  <1>6. ASSUME aborted = "none", OwnerStep
        PROVE  PoolInv'
    <2>1. CASE Start
      BY <1>6, <2>1 DEF Start, Check, PoolInv
    <2>2. CASE \E w \in Workers, ran \in BOOLEAN : StartThread(w, ran)
      <3>1. PICK w \in Workers, ran \in BOOLEAN : StartThread(w, ran)
        BY <2>2
      <3>2. /\ api = "starting" /\ m_threads' = m_threads \cup {w}
            /\ UNCHANGED <<api, thrs, m_stopping, aborted>>
        BY <3>1 DEF StartThread
      <3>3. m_threadCount # 0 /\ UNCHANGED m_threadCount
        <4>1. m_threadCount \in Nat /\ UNCHANGED m_threadCount
          BY <3>1, SchedulerAssumption DEF StartThread, PoolInv
        <4>2. Cardinality(m_threads) < m_threadCount
          BY <3>1 DEF StartThread
        <4> QED
          BY <1>2, <4>1, <4>2
      <3>4. \A u \in Workers \ {w} : pc'[u] = pc[u]
        BY <1>1, <3>1 DEF StartThread, Goto, Shape, Threads
      <3> QED
        BY <3>2, <3>3, <3>4 DEF PoolInv
    <2>3. CASE StartDone
      BY <2>3 DEF StartDone, PoolInv
    <2>4. CASE StopBegin
      BY <1>6, <2>4 DEF StopBegin, PoolInv
    <2>5. CASE StopNoThreads
      BY <2>5 DEF StopNoThreads, PoolInv
    <2>6. CASE StopSet
      BY <2>6 DEF StopSet, PoolInv
    <2>7. CASE StopRoot
      <3>1. /\ UNCHANGED <<m_threads, thrs, m_stopping>>
            /\ api' \in {"root", "stopSwap"}
            /\ \A w \in Workers : pc'[w] = pc[w]
            /\ aborted' # "start: m_threads.empty()"
        BY <1>1, <1>6, <2>7, SchedulerAssumption DEF StopRoot, RootCall, Check, Goto, Shape, Threads
      <3> QED
        BY <2>7, <3>1 DEF PoolInv, StopRoot, RootCall
    <2>8. CASE StopSwap
      BY <2>8 DEF StopSwap, PoolInv
    <2>9. CASE StopJoin
      BY <2>9 DEF StopJoin, Joined, PoolInv
    <2>10. CASE Destroy
      BY <1>6, <2>10 DEF Destroy, Check, PoolInv
    <2> QED
      BY <1>6, <2>1, <2>2, <2>3, <2>4, <2>5, <2>6, <2>7, <2>8, <2>9, <2>10
         DEF OwnerStep, ApiStep
  <1> QED
    BY <1>3, <1>4, <1>5, <1>6 DEF Next, Step, Over

\* The counters are exact because no empty task gets into the list, no thread
\* without a task keeps one in ft, and the caller is in run() only for stop().
THEOREM CountsKept == Spec => []CountInv
  BY CountInvInit, CountInvNext, PTL DEF Spec

\* Every worker that is alive is in m_threads, or among those stop() is about
\* to join; none is lost by a start() or a stop(), and the assertion of
\* start(), that m_threads is empty, holds.
THEOREM WorkersKnown == Spec => []PoolInv
  <1>1. CountInv /\ PoolInv /\ [Next]_vars => CountInv' /\ PoolInv'
    BY CountInvNext, PoolInvNext
  <1> QED
    BY <1>1, CountInvInit, PoolInvInit, PTL DEF Spec

\* When stop() has returned, and when the destructor has run, no thread of
\* the pool is alive: no worker can touch a scheduler its owner may free,
\* and the assertion of start() holds.
THEOREM StopJoinsAll == Spec => []StoppedMeansJoined
  <1>1. PoolInv => StoppedMeansJoined
    BY DEF PoolInv, StoppedMeansJoined
  <1> QED
    BY <1>1, WorkersKnown, PTL

=============================================================================
