------------------------------- MODULE Thread -------------------------------
(***************************************************************************)
(* class Thread and class Thread_posix (src/thread, src/thread_posix).     *)
(*                                                                         *)
(* The owner makes the objects, joins and destroys them; the kernel thread *)
(* of an object starts at any time after pthread_create and reads and      *)
(* writes the object through a bare pointer: its name, its id, its m_cb,   *)
(* which it swaps into a local of its own.  The constructor does not wait  *)
(* for any of this.  After the swap, run() does not use the object; the    *)
(* callback may, through GetThis().                                        *)
(*                                                                         *)
(* The owner may drop an object at any time.  What run() does with a freed *)
(* object is undefined; the steps here leave the memory as it was, and     *)
(* nothing is claimed of what follows a use that RunUsesObject forbids.    *)
(*                                                                         *)
(* The objects of an owner are made in one order; which is which does not  *)
(* matter, so an object and its kernel thread have one name.               *)
(***************************************************************************)
EXTENDS Naturals

CONSTANTS
    Workers,        \* the thread objects
    MaxFailures     \* bound: pthread_create fails this often

ASSUME ThreadAssumption == MaxFailures \in Nat

VARIABLES
    object,         \* object[w]: "none", "alive" or "freed"
    m_thread,       \* m_thread[w]: the handle is not 0
    m_id,           \* m_id[w]: run() has stored the thread's id
    m_cb,           \* m_cb[w]: the object has the callback
    kernel,         \* kernel[w]: where the kernel thread is
    reaped,         \* reaped[w]: joins and detaches of the kernel thread
    failures

threadVars == <<object, m_thread, m_id, m_cb, kernel, reaped, failures>>

ThreadInit ==
    /\ object = [w \in Workers |-> "none"]
    /\ m_thread = [w \in Workers |-> FALSE]
    /\ m_id = [w \in Workers |-> FALSE]
    /\ m_cb = [w \in Workers |-> FALSE]
    /\ kernel = [w \in Workers |-> "none"]
    /\ reaped = [w \in Workers |-> 0]
    /\ failures = 0

\* Thread::Thread.
Create(w) ==
    /\ object[w] = "none"
    /\ object' = [object EXCEPT ![w] = "alive"]
    /\ m_thread' = [m_thread EXCEPT ![w] = TRUE]
    /\ m_cb' = [m_cb EXCEPT ![w] = TRUE]
    /\ kernel' = [kernel EXCEPT ![w] = "created"]
    /\ UNCHANGED <<m_id, reaped, failures>>

\* Thread::Thread when pthread_create fails: it throws, there is no object.
CreateFails(w) ==
    /\ object[w] = "none"
    /\ failures < MaxFailures
    /\ failures' = failures + 1
    /\ UNCHANGED <<object, m_thread, m_id, m_cb, kernel, reaped>>

\* Thread::run up to the swap: t_thread, t_thread_name, m_id.
RunEnter(w) ==
    /\ kernel[w] = "created"
    /\ m_id' = [m_id EXCEPT ![w] = TRUE]
    /\ kernel' = [kernel EXCEPT ![w] = "entered"]
    /\ UNCHANGED <<object, m_thread, m_cb, reaped, failures>>

\* Mutant of RunSwap: run() calls m_cb where it is.
RunSwapNever(w) ==
    /\ kernel[w] = "entered"
    /\ kernel' = [kernel EXCEPT ![w] = "calling"]
    /\ UNCHANGED <<object, m_thread, m_id, m_cb, reaped, failures>>

RunSwap(w) ==
    /\ kernel[w] = "entered"
    /\ m_cb' = [m_cb EXCEPT ![w] = FALSE]
    /\ kernel' = [kernel EXCEPT ![w] = "calling"]
    /\ UNCHANGED <<object, m_thread, m_id, reaped, failures>>

RunReturn(w) ==
    /\ kernel[w] = "calling"
    /\ kernel' = [kernel EXCEPT ![w] = "exited"]
    /\ UNCHANGED <<object, m_thread, m_id, m_cb, reaped, failures>>

\* Mutant of Join: m_thread keeps the handle of the thread that is gone.
JoinKeepsHandle(w) ==
    /\ object[w] = "alive"
    /\ m_thread[w]
    /\ kernel[w] = "exited"
    /\ reaped' = [reaped EXCEPT ![w] = @ + 1]
    /\ UNCHANGED <<object, m_thread, m_id, m_cb, kernel, failures>>

\* Thread::join: does nothing when m_thread is 0.
Join(w) ==
    /\ object[w] = "alive"
    /\ m_thread[w]
    /\ kernel[w] = "exited"
    /\ m_thread' = [m_thread EXCEPT ![w] = FALSE]
    /\ reaped' = [reaped EXCEPT ![w] = @ + 1]
    /\ UNCHANGED <<object, m_id, m_cb, kernel, failures>>

\* Thread::~Thread: a thread that was not joined is detached, wherever it is.
Destroy(w) ==
    /\ object[w] = "alive"
    /\ object' = [object EXCEPT ![w] = "freed"]
    /\ reaped' = [reaped EXCEPT ![w] = IF m_thread[w] THEN @ + 1 ELSE @]
    /\ UNCHANGED <<m_thread, m_id, m_cb, kernel, failures>>

-----------------------------------------------------------------------------

\* run() needs the object: to read and write its members, and for as long as
\* the callback it runs is the object's.
Needed(w) ==
    \/ kernel[w] \in {"created", "entered"}
    \/ kernel[w] = "calling" /\ m_cb[w]

\* run() never uses an object its owner has destroyed: the thread has started
\* before the owner can drop it, as todo.md:58 says of the constructor, or the
\* owner waits (thread.cpp:53-63 only detaches; thread.cpp:116-129).
RunUsesObject == \A w \in Workers : Needed(w) => object[w] = "alive"

\* A kernel thread is joined or detached once at most, and never left
\* unreaped behind a destroyed object: a second join() of an object, and its
\* destructor after join(), find m_thread 0 (thread.cpp:53-91).
ReapedOnce ==
    \A w \in Workers : reaped[w] =
        IF object[w] = "freed" \/ (object[w] = "alive" /\ ~m_thread[w]) THEN 1 ELSE 0

=============================================================================
