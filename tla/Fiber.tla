------------------------------- MODULE Fiber -------------------------------
(***************************************************************************)
(* The life of the sub-fibers of src/fiber: their m_state and m_cb, and    *)
(* what each member function of class Fiber does to them.  A fiber has a   *)
(* stack of its own; which thread is on that stack is kept by the module   *)
(* that switches contexts (Scheduler.tla).  The uc_context calls           *)
(* (getcontext, makecontext, swapcontext) are assumed to succeed.          *)
(*                                                                         *)
(* An operator with a prime in its body states what one member function    *)
(* leaves in m_state and m_cb; the SHS_ASSERT of that function is the      *)
(* state predicate just before it, for the caller's abort variable.        *)
(***************************************************************************)

CONSTANTS
    Fibers,     \* fiber objects that can be allocated (a bound)
    Cbs,        \* callbacks (std::function values), each submitted once
    NoFiber,    \* a null Fiber::ptr
    NoCb        \* an empty std::function

ASSUME FiberAssumption == NoFiber \notin Fibers /\ NoCb \notin Cbs

VARIABLES
    m_state,    \* m_state[f]; "NONE" before the object is constructed
    m_cb        \* m_cb[f]

fiberVars == <<m_state, m_cb>>

\* enum State (fiber.h), and "NONE" for an object that does not exist yet.
State == {"NONE", "INIT", "HOLD", "EXEC", "TERM", "READY", "EXCEPT"}

FiberTypeOK ==
    /\ m_state \in [Fibers -> State]
    /\ m_cb \in [Fibers -> Cbs \cup {NoCb}]

FiberInit ==
    /\ m_state = [f \in Fibers |-> "NONE"]
    /\ m_cb = [f \in Fibers |-> NoCb]

\* The test run() makes before it resumes or recycles a fiber.
Finished(f) == m_state[f] \in {"TERM", "EXCEPT"}

\* Fiber::Fiber(cb): the object starts in INIT with its callback.
Construct(f, cb) ==
    /\ m_state[f] = "NONE"
    /\ m_state' = [m_state EXCEPT ![f] = "INIT"]
    /\ m_cb' = [m_cb EXCEPT ![f] = cb]

\* Fiber::reset(cb): the stack is used again for another callback.
CanReset(f) == m_state[f] \in {"TERM", "EXCEPT", "INIT"}

Reset(f, cb) ==
    /\ m_state' = [m_state EXCEPT ![f] = "INIT"]
    /\ m_cb' = [m_cb EXCEPT ![f] = cb]

\* Fiber::swapIn(): EXEC, then the context switch.
CanSwapIn(f) == m_state[f] # "EXEC"

FiberSwapIn(f) ==
    /\ m_state' = [m_state EXCEPT ![f] = "EXEC"]
    /\ UNCHANGED m_cb

\* The assertion YieldToReady and YieldToHold share.
CanYield(f) == m_state[f] = "EXEC"

\* Fiber::YieldToReady(): READY is stored before swapOut leaves the stack.
FiberYieldToReady(f) ==
    /\ m_state' = [m_state EXCEPT ![f] = "READY"]
    /\ UNCHANGED m_cb

\* Mutant of FiberYieldToHold: the commented-out store of HOLD is made.
FiberYieldToHoldEarly(f) ==
    /\ m_state' = [m_state EXCEPT ![f] = "HOLD"]
    /\ UNCHANGED m_cb

\* Fiber::YieldToHold(): the store of HOLD is commented out, so the fiber
\* stays EXEC until run(), off the fiber's stack, stores HOLD.
FiberYieldToHold(f) == UNCHANGED fiberVars

\* MainFunc(), the callback returned.
MainFuncReturn(f) ==
    /\ m_state' = [m_state EXCEPT ![f] = "TERM"]
    /\ m_cb' = [m_cb EXCEPT ![f] = NoCb]

\* MainFunc(), the callback threw (or was empty: std::bad_function_call);
\* m_cb keeps the callback.
MainFuncThrow(f) ==
    /\ m_state' = [m_state EXCEPT ![f] = "EXCEPT"]
    /\ UNCHANGED m_cb

\* Mutant of StoreHold: the store is forgotten, the fiber stays EXEC.
StoreHoldNever(f) == UNCHANGED fiberVars

\* The store of HOLD that run() makes once a fiber has left its stack.
StoreHold(f) ==
    /\ m_state' = [m_state EXCEPT ![f] = "HOLD"]
    /\ UNCHANGED m_cb

=============================================================================
