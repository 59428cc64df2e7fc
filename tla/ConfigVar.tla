----------------------------- MODULE ConfigVar -----------------------------
(***************************************************************************)
(* The configuration variables of src/config/config.h: class ConfigVar<T>  *)
(* for a few variables of one type T, used by several threads.  Each       *)
(* variable has a value, a map of change listeners and a reader/writer     *)
(* lock; the counter that makes listener keys (s_func_id) is a static of   *)
(* the member template, so all variables of type T share it.               *)
(*                                                                         *)
(* A call is a sequence of steps of its thread; call[t].pc is its place.   *)
(* Listeners do not call the variable that notifies them.  getListener()   *)
(* and toString() change nothing: they read under the shared lock.         *)
(***************************************************************************)
EXTENDS Naturals, FiniteSets

CONSTANTS
    Vars,           \* configuration variables of one type
    Values,         \* their values
    Default,        \* the default_value they are built with
    Listeners,      \* callbacks, each registered at most once
    Setters,        \* threads that call setValue (and fromString)
    Managers,       \* threads that add, find and remove listeners
    Throws,         \* a listener may throw
    NoThread, NoListener,
    \* Bounds.
    MaxCalls,       \* calls of each thread
    MaxKey          \* listener keys

Threads == Setters \cup Managers
Keys == 1..MaxKey

ASSUME ConfigVarAssumption ==
    /\ Default \in Values
    /\ NoThread \notin Threads
    /\ NoListener \notin Listeners
    /\ Throws \in BOOLEAN
    /\ MaxCalls \in Nat
    /\ MaxKey \in Nat

VARIABLES
    m_val,          \* m_val[v]
    m_cbs,          \* m_cbs[v][k]: the listener with key k, or NoListener
    s_func_id,
    readers,        \* m_mutex of v: the threads that hold it shared
    writer,         \* m_mutex of v: the thread that holds it exclusively
    call,           \* what each thread is doing
    calls,          \* how many calls it has begun
    \* History.
    told,           \* told[l]: the last change l was told since it was added,
                    \* of those that no listener broke off
    issued          \* <<v, l, k>>: addListener(l) on v returned k; not deleted

vars == <<m_val, m_cbs, s_func_id, readers, writer, call, calls, told, issued>>

Untold == [old |-> Default, new |-> Default]

Idle == [pc |-> "idle"]

Init ==
    /\ m_val = [v \in Vars |-> Default]
    /\ m_cbs = [v \in Vars |-> [k \in Keys |-> NoListener]]
    /\ s_func_id = 0
    /\ readers = [v \in Vars |-> {}]
    /\ writer = [v \in Vars |-> NoThread]
    /\ call = [t \in Threads |-> Idle]
    /\ calls = [t \in Threads |-> 0]
    /\ told = [l \in Listeners |-> Untold]
    /\ issued = {}

-----------------------------------------------------------------------------
(***************************************************************************)
(* RWMutex, and its scoped locks.                                          *)
(***************************************************************************)
\* rdlock() and wrlock() block until they can be granted.
RdLock(t, v) ==
    /\ writer[v] = NoThread
    /\ readers' = [readers EXCEPT ![v] = @ \cup {t}]
    /\ UNCHANGED writer

\* Mutant of WrLock: shared holds do not keep a writer out.
WrLockOverReaders(t, v) ==
    /\ writer[v] = NoThread
    /\ writer' = [writer EXCEPT ![v] = t]
    /\ UNCHANGED readers

WrLock(t, v) ==
    /\ writer[v] = NoThread
    /\ readers[v] = {}
    /\ writer' = [writer EXCEPT ![v] = t]
    /\ UNCHANGED readers

\* Mutant of Unlock: a shared hold is not given back.
UnlockWriter(t, v) ==
    /\ writer' = [writer EXCEPT ![v] = IF @ = t THEN NoThread ELSE @]
    /\ UNCHANGED readers

\* unlock(): what the scoped lock's destructor gives back, also when an
\* exception leaves the scope.
Unlock(t, v) ==
    /\ readers' = [readers EXCEPT ![v] = @ \ {t}]
    /\ writer' = [writer EXCEPT ![v] = IF @ = t THEN NoThread ELSE @]

\* A critical section that is one step.
Exclusive(v) == writer[v] = NoThread /\ readers[v] = {}
Shared(v) == writer[v] = NoThread

-----------------------------------------------------------------------------
(***************************************************************************)
(* setValue(val), also from fromString.                                    *)
(***************************************************************************)
Begin(t) ==
    /\ call[t] = Idle
    /\ calls[t] < MaxCalls
    /\ calls' = [calls EXCEPT ![t] = @ + 1]

Registered(v) == {k \in Keys : m_cbs[v][k] # NoListener}

\* Under the read lock: an equal value ends the call.
SetSame(t, v, val) ==
    /\ Begin(t)
    /\ Shared(v)
    /\ m_val[v] = val
    /\ UNCHANGED <<m_val, m_cbs, s_func_id, readers, writer, call, told, issued>>

\* Under the read lock: another value, the listeners are to be told.
SetDiffers(t, v, val) ==
    /\ Begin(t)
    /\ m_val[v] # val
    /\ RdLock(t, v)
    /\ call' = [call EXCEPT ![t] =
          [pc |-> "notify", var |-> v, val |-> val, todo |-> Registered(v), done |-> {}]]
    /\ UNCHANGED <<m_val, m_cbs, s_func_id, told, issued>>

\* The loop over m_cbs, in key order.
Notify(t) ==
    /\ call[t].pc = "notify"
    /\ LET c == call[t] IN
       \E k \in c.todo :
          /\ \A j \in c.todo : k <= j
          /\ told' = [told EXCEPT ![m_cbs[c.var][k]] =
                        [old |-> m_val[c.var], new |-> c.val]]
          /\ call' = [call EXCEPT ![t].todo = @ \ {k}, ![t].done = @ \cup {k}]
    /\ UNCHANGED <<m_val, m_cbs, s_func_id, readers, writer, calls, issued>>

\* A listener throws: the call ends there, and fromString returns false.
\* The listeners before it were told a change that is not made.
NotifyThrows(t) ==
    LET c == call[t] IN
    /\ Throws
    /\ c.pc = "notify"
    /\ c.todo # {}
    /\ Unlock(t, c.var)
    /\ call' = [call EXCEPT ![t] = Idle]
    /\ told' = [l \in Listeners |->
                  IF \E k \in c.done : m_cbs[c.var][k] = l THEN Untold ELSE told[l]]
    /\ UNCHANGED <<m_val, m_cbs, s_func_id, calls, issued>>

\* The end of the read lock's scope.
SetUnlock(t) ==
    /\ call[t].pc = "notify"
    /\ call[t].todo = {}
    /\ Unlock(t, call[t].var)
    /\ call' = [call EXCEPT ![t].pc = "wrlock"]
    /\ UNCHANGED <<m_val, m_cbs, s_func_id, calls, told, issued>>

\* Mutant of SetStore: the value is not stored.
SetStoreNever(t) ==
    /\ call[t].pc = "wrlock"
    /\ Exclusive(call[t].var)
    /\ call' = [call EXCEPT ![t] = Idle]
    /\ UNCHANGED <<m_val, m_cbs, s_func_id, readers, writer, calls, told, issued>>

\* Under the write lock: m_val = val.
SetStore(t) ==
    /\ call[t].pc = "wrlock"
    /\ Exclusive(call[t].var)
    /\ m_val' = [m_val EXCEPT ![call[t].var] = call[t].val]
    /\ call' = [call EXCEPT ![t] = Idle]
    /\ UNCHANGED <<m_cbs, s_func_id, readers, writer, calls, told, issued>>

-----------------------------------------------------------------------------
(***************************************************************************)
(* The listeners.                                                          *)
(***************************************************************************)
Fresh(l) ==
    /\ \A v \in Vars, k \in Keys : m_cbs[v][k] # l
    /\ \A i \in issued : i[2] # l
    /\ \A t \in Threads : call[t].pc \in {"inc", "insert", "return"} => call[t].cb # l

\* addListener(l): takes the write lock of its own variable and reads
\* s_func_id, which that lock does not protect.
AddLock(t, v, l) ==
    /\ Begin(t)
    /\ Fresh(l)
    /\ WrLock(t, v)
    /\ call' = [call EXCEPT ![t] = [pc |-> "inc", var |-> v, cb |-> l, id |-> s_func_id]]
    /\ UNCHANGED <<m_val, m_cbs, s_func_id, told, issued>>

\* ++s_func_id: the store of the increment.
AddInc(t) ==
    /\ call[t].pc = "inc"
    /\ call[t].id < MaxKey
    /\ s_func_id' = call[t].id + 1
    /\ call' = [call EXCEPT ![t].pc = "insert", ![t].id = @ + 1]
    /\ UNCHANGED <<m_val, m_cbs, readers, writer, calls, told, issued>>

\* s_func_id used again: read again, or kept in a register.
KeyRead(t) == {s_func_id, call[t].id}

\* m_cbs.insert: nothing happens when the key is there.
AddInsert(t) ==
    /\ call[t].pc = "insert"
    /\ \E k \in KeyRead(t) :
          m_cbs' = IF m_cbs[call[t].var][k] = NoListener
                   THEN [m_cbs EXCEPT ![call[t].var][k] = call[t].cb]
                   ELSE m_cbs
    /\ told' = [told EXCEPT ![call[t].cb] = Untold]
    /\ call' = [call EXCEPT ![t].pc = "return"]
    /\ UNCHANGED <<m_val, s_func_id, readers, writer, calls, issued>>

\* Mutant of AddReturn: the key returned is the next one.
AddReturnNext(t) ==
    /\ call[t].pc = "return"
    /\ issued' = issued \cup {<<call[t].var, call[t].cb, s_func_id + 1>>}
    /\ Unlock(t, call[t].var)
    /\ call' = [call EXCEPT ![t] = Idle]
    /\ UNCHANGED <<m_val, m_cbs, s_func_id, calls, told>>

AddReturn(t) ==
    /\ call[t].pc = "return"
    /\ \E k \in KeyRead(t) : issued' = issued \cup {<<call[t].var, call[t].cb, k>>}
    /\ Unlock(t, call[t].var)
    /\ call' = [call EXCEPT ![t] = Idle]
    /\ UNCHANGED <<m_val, m_cbs, s_func_id, calls, told>>

\* Mutant of DelListener: the map is changed without the lock.
DelListenerUnlocked(t, v, k) ==
    /\ Begin(t)
    /\ m_cbs' = [m_cbs EXCEPT ![v][k] = NoListener]
    /\ issued' = {i \in issued : <<i[1], i[3]>> # <<v, k>>}
    /\ UNCHANGED <<m_val, s_func_id, readers, writer, call, told>>

\* delListener(key)
DelListener(t, v, k) ==
    /\ Begin(t)
    /\ Exclusive(v)
    /\ m_cbs' = [m_cbs EXCEPT ![v][k] = NoListener]
    /\ issued' = {i \in issued : <<i[1], i[3]>> # <<v, k>>}
    /\ UNCHANGED <<m_val, s_func_id, readers, writer, call, told>>

\* clearListener()
ClearListener(t, v) ==
    /\ Begin(t)
    /\ Exclusive(v)
    /\ m_cbs' = [m_cbs EXCEPT ![v] = [k \in Keys |-> NoListener]]
    /\ issued' = {i \in issued : i[1] # v}
    /\ UNCHANGED <<m_val, s_func_id, readers, writer, call, told>>

-----------------------------------------------------------------------------
SetStep(t) ==
    \/ Notify(t) \/ NotifyThrows(t) \/ SetUnlock(t) \/ SetStore(t)

AddStep(t) == AddInc(t) \/ AddInsert(t) \/ AddReturn(t)

BeginSet(t) == \E v \in Vars, val \in Values : SetSame(t, v, val) \/ SetDiffers(t, v, val)

BeginManage(t) ==
    \E v \in Vars : \/ \E l \in Listeners : AddLock(t, v, l)
                    \/ \E k \in Keys : DelListener(t, v, k)
                    \/ ClearListener(t, v)

\* All calls have returned and no thread makes another.
Quiet == (\A t \in Threads : call[t] = Idle) /\ UNCHANGED vars

Next ==
    \/ \E t \in Setters : BeginSet(t) \/ SetStep(t)
    \/ \E t \in Managers : BeginManage(t) \/ AddStep(t)
    \/ Quiet

\* A call that has begun goes on; a lock that is free is granted.
Fairness == \A t \in Threads : WF_vars(SetStep(t) \/ AddStep(t))

Spec == Init /\ [][Next]_vars /\ Fairness

-----------------------------------------------------------------------------
Calls ==
    {Idle}
    \cup [pc : {"notify", "wrlock"}, var : Vars, val : Values,
          todo : SUBSET Keys, done : SUBSET Keys]
    \cup [pc : {"inc", "insert", "return"}, var : Vars, cb : Listeners, id : 0..MaxKey]

\* The variables have the shape of the members they stand for, and a lock
\* is never held shared and exclusively at once.
TypeOK ==
    /\ m_val \in [Vars -> Values]
    /\ m_cbs \in [Vars -> [Keys -> Listeners \cup {NoListener}]]
    /\ s_func_id \in 0..MaxKey
    /\ readers \in [Vars -> SUBSET Threads]
    /\ writer \in [Vars -> Threads \cup {NoThread}]
    /\ \A v \in Vars : writer[v] # NoThread => readers[v] = {}
    /\ call \in [Threads -> Calls]
    /\ calls \in [Threads -> 0..MaxCalls]
    /\ told \in [Listeners -> [old : Values, new : Values]]
    /\ issued \subseteq Vars \X Listeners \X Keys

\* While setValue() walks the listeners neither the map it walks nor the old
\* value it passes them changes under it.
NotifyStable ==
    [][\A t \in Setters : call[t].pc = "notify" =>
          /\ m_cbs'[call[t].var] = m_cbs[call[t].var]
          /\ m_val'[call[t].var] = m_val[call[t].var]]_vars

\* No setValue() of v is under way.
Settled(v) == \A t \in Setters : call[t] = Idle \/ call[t].var # v

\* When no setValue() is under way, what a listener was told last is the
\* value the variable has, unless a listener broke that change off: the
\* code behind it acts on the current configuration.
ListenersAgree ==
    \A v \in Vars : Settled(v) =>
        \A k \in Registered(v) :
            told[m_cbs[v][k]] # Untold => told[m_cbs[v][k]].new = m_val[v]

\* The key addListener() returned finds that listener, and no other, until
\* the key is deleted: keys are unique.
KeyFindsListener ==
    \A i \in issued : m_cbs[i[1]][i[3]] = i[2]

\* Every call returns: no path, that of a listener that throws included,
\* leaves a lock held.
CallsReturn == \A t \in Threads : call[t] # Idle ~> call[t] = Idle

=============================================================================
