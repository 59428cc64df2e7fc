------------------------------- MODULE Locks -------------------------------
(***************************************************************************)
(* The locks of src/mutex/mutex.h and the scope guards that take them.     *)
(*                                                                         *)
(* A lock (Mutex, RWMutex, SpinLock, CASLock) is a word that knows how it  *)
(* is held and not by whom.  All that protects it is the discipline of     *)
(* ScopedLockImpl and its read and write forms: a guard object locks in    *)
(* its constructor, remembers m_locked, and its destructor unlocks if      *)
(* m_locked still holds.  Guards live on the stack of a thread and are     *)
(* destroyed in reverse order, at the end of their block or when an        *)
(* exception unwinds it.                                                   *)
(*                                                                         *)
(* What the threads run is a constant: a call is a sequence of steps that  *)
(* take guards, leave blocks, branch, try and throw.  LockedCalls writes   *)
(* the calls of this program with the constructors below.                  *)
(***************************************************************************)
EXTENDS Naturals, Sequences, FiniteSets

CONSTANTS
    Threads,
    LockNames,
    Rank,           \* Rank[l]: the place of l in the order locks are taken
    Calls,          \* what a thread may call
    MaxCalls        \* bound: calls of a thread

ASSUME LocksAssumption ==
    /\ IsFiniteSet(LockNames)
    /\ Rank \in [LockNames -> Nat]

VARIABLES
    held,           \* held[l]: the word says locked exclusively
    readers,        \* readers[l]: the word's count of shared holders
    guards,         \* guards[t]: the guard objects on t's stack, last on top
    code,           \* code[t]: the steps t has still to run
    catches,        \* catches[t]: the try blocks t is in, last innermost
    calls           \* calls[t]: the calls t has begun

lockVars == <<held, readers, guards>>
codeVars == <<code, catches, calls>>

\* The steps.  Branch goes on with one of the alternatives; Try runs a body
\* and, when it throws, a handler; EndTry closes what Try opened.
Lock(l, mode) == [op |-> "lock", lock |-> l, mode |-> mode]
Unlock == [op |-> "unlock"]
Leave == [op |-> "leave"]
Branch(alternatives) == [op |-> "branch", of |-> alternatives]
Try(body, handler) == [op |-> "try", body |-> body, handler |-> handler]
EndTry == [op |-> "endtry"]
Throw == [op |-> "throw"]

Leaves(n) == [i \in 1..n |-> Leave]
Pop(s) == SubSeq(s, 1, Len(s) - 1)
Top(s) == s[Len(s)]
TopUnlocked(s) == [s EXCEPT ![Len(s)] = [@ EXCEPT !.m_locked = FALSE]]

Modes == {"write", "read"}
Guard == [lock : LockNames, mode : Modes, m_locked : BOOLEAN]
LockedGuard(l, mode) == [lock |-> l, mode |-> mode, m_locked |-> TRUE]

-----------------------------------------------------------------------------

LockInit ==
    /\ held = [l \in LockNames |-> FALSE]
    /\ readers = [l \in LockNames |-> 0]
    /\ guards = [t \in Threads |-> <<>>]
    /\ code = [t \in Threads |-> <<>>]
    /\ catches = [t \in Threads |-> <<>>]
    /\ calls = [t \in Threads |-> 0]

At(t, op) == code[t] # <<>> /\ Head(code[t]).op = op

\* The word can be taken in this mode.
CanTake(l, mode) == ~held[l] /\ (mode = "write" => readers[l] = 0)

Take(l, mode) ==
    IF mode = "write"
    THEN held' = [held EXCEPT ![l] = TRUE] /\ UNCHANGED readers
    ELSE readers' = [readers EXCEPT ![l] = @ + 1] /\ UNCHANGED held

\* unlock() of the word.  pthread_rwlock_unlock finds out from the word
\* which of its two kinds of holder it has.
Release(l) ==
    IF held[l]
    THEN held' = [held EXCEPT ![l] = FALSE] /\ UNCHANGED readers
    ELSE readers' = [readers EXCEPT ![l] = @ - 1] /\ UNCHANGED held

Begin(t) ==
    /\ code[t] = <<>>
    /\ calls[t] < MaxCalls
    /\ \E c \in Calls : code' = [code EXCEPT ![t] = c]
    /\ calls' = [calls EXCEPT ![t] = @ + 1]
    /\ UNCHANGED <<lockVars, catches>>

\* The constructor of a guard.
Construct(t) ==
    /\ At(t, "lock")
    /\ \E l \in LockNames, mode \in Modes :
        /\ Head(code[t]) = Lock(l, mode)
        /\ CanTake(l, mode)
        /\ Take(l, mode)
        /\ guards' = [guards EXCEPT ![t] = Append(@, LockedGuard(l, mode))]
    /\ code' = [code EXCEPT ![t] = Tail(@)]
    /\ UNCHANGED <<catches, calls>>

\* Mutant of GuardUnlock: the guard does not learn that it has unlocked.
GuardUnlockForgotten(t) ==
    /\ At(t, "unlock")
    /\ guards[t] # <<>>
    /\ Top(guards[t]).m_locked
    /\ Release(Top(guards[t]).lock)
    /\ code' = [code EXCEPT ![t] = Tail(@)]
    /\ UNCHANGED <<guards, catches, calls>>

\* unlock() of the guard on top, called by hand; the guard stays.
GuardUnlock(t) ==
    /\ At(t, "unlock")
    /\ guards[t] # <<>>
    /\ Top(guards[t]).m_locked
    /\ Release(Top(guards[t]).lock)
    /\ guards' = [guards EXCEPT ![t] = TopUnlocked(@)]
    /\ code' = [code EXCEPT ![t] = Tail(@)]
    /\ UNCHANGED <<catches, calls>>

\* The destructor of the guard on top.
Destruct(t) ==
    /\ At(t, "leave")
    /\ guards[t] # <<>>
    /\ IF Top(guards[t]).m_locked
       THEN Release(Top(guards[t]).lock)
       ELSE UNCHANGED <<held, readers>>
    /\ guards' = [guards EXCEPT ![t] = Pop(@)]
    /\ code' = [code EXCEPT ![t] = Tail(@)]
    /\ UNCHANGED <<catches, calls>>

Choose(t) ==
    /\ At(t, "branch")
    /\ \E alternative \in Head(code[t]).of :
         code' = [code EXCEPT ![t] = alternative \o Tail(@)]
    /\ UNCHANGED <<lockVars, catches, calls>>

EnterTry(t) ==
    /\ At(t, "try")
    /\ LET s == Head(code[t]) IN
        /\ code' = [code EXCEPT ![t] = s.body \o <<EndTry>> \o Tail(@)]
        /\ catches' = [catches EXCEPT ![t] = Append(@,
                [depth |-> Len(guards[t]), code |-> s.handler \o Tail(code[t])])]
    /\ UNCHANGED <<lockVars, calls>>

LeaveTry(t) ==
    /\ At(t, "endtry")
    /\ code' = [code EXCEPT ![t] = Tail(@)]
    /\ catches' = [catches EXCEPT ![t] = Pop(@)]
    /\ UNCHANGED <<lockVars, calls>>

\* Mutant of Unwound: the destructors do not run.
UnwoundAbruptly(t) ==
    IF catches[t] = <<>> THEN <<>> ELSE Top(catches[t]).code

\* What an exception makes of the thread: the guards above the handler are
\* destroyed one after the other, then the handler runs.  Without a handler
\* the exception leaves the call, and its caller catches it.
Unwound(t) ==
    IF catches[t] = <<>>
    THEN Leaves(Len(guards[t]))
    ELSE Leaves(Len(guards[t]) - Top(catches[t]).depth) \o Top(catches[t]).code

Raise(t) ==
    /\ At(t, "throw")
    /\ code' = [code EXCEPT ![t] = Unwound(t)]
    /\ catches' = [catches EXCEPT ![t] = IF @ = <<>> THEN @ ELSE Pop(@)]
    /\ UNCHANGED <<lockVars, calls>>

Step(t) ==
    \/ Construct(t)
    \/ GuardUnlock(t)
    \/ Destruct(t)
    \/ Choose(t)
    \/ EnterTry(t)
    \/ LeaveTry(t)
    \/ Raise(t)

LockNext == \E t \in Threads : Begin(t) \/ Step(t)

LocksSpec == LockInit /\ [][LockNext]_<<lockVars, codeVars>>

-----------------------------------------------------------------------------
\* Who holds what, by the guards.

Holds(t, l, mode) ==
    {i \in 1..Len(guards[t]) : guards[t][i] = LockedGuard(l, mode)}

Writing(l) == {t \in Threads : Holds(t, l, "write") # {}}

Reading(l) == [t \in Threads |-> Cardinality(Holds(t, l, "read"))]

Exclusive(l) == INSTANCE Exclusion WITH writing <- Writing(l), reading <- Reading(l)

Same(l) == UNCHANGED <<Writing(l), Reading(l)>>
EachInit == \A l \in LockNames : Exclusive(l)!Init
EachStep == \A l \in LockNames : Same(l) \/ Exclusive(l)!Next

\* The guards make of the ownerless words what Exclusion promises: at every
\* step of every thread, through unlock() by hand and through exceptions, a
\* lock changes hands only as an acquisition by a thread that may have it or
\* a release by a thread that has it (mutex.h:18-112).
\* This is Exclusive(l)!Spec for every l, with the quantifier inside the box.
ImplementsExclusion == EachInit /\ [][EachStep]_lockVars

\* A thread takes a lock only while every lock it holds comes before it: no
\* two threads, and no thread and itself, can wait for each other
\* (the nesting of config.h:309-345, log.cpp:41-57, log.cpp:525-533 and
\* scheduler.cpp:51-65 with the logging macro in their bodies).
LockOrder ==
    \A t \in Threads : At(t, "lock") =>
        \A i \in DOMAIN guards[t] :
            guards[t][i].m_locked =>
                Rank[guards[t][i].lock] < Rank[Head(code[t]).lock]

\* A call that is over, by return or by exception, holds nothing and has left
\* no try block open: a lock leaked by a call would stop every later one.
NothingHeld ==
    \A t \in Threads : code[t] = <<>> => guards[t] = <<>> /\ catches[t] = <<>>

\* The thread has a step to run and need not wait for it.
CanStep(t) ==
    /\ code[t] # <<>>
    /\ At(t, "lock") => CanTake(Head(code[t]).lock, Head(code[t]).mode)
    /\ At(t, "unlock") => guards[t] # <<>> /\ Top(guards[t]).m_locked
    /\ At(t, "leave") => guards[t] # <<>>
    /\ At(t, "branch") => Head(code[t]).of # {}

\* The threads never all wait for each other: while a call of any thread is
\* under way some thread can go on with its own (the locks of mutex.h:113-229
\* have no timeout, and none can be taken twice).
NoDeadlock ==
    (\E t \in Threads : code[t] # <<>>) => \E t \in Threads : CanStep(t)

=============================================================================
