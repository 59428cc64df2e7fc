------------------------------ MODULE Program ------------------------------
(***************************************************************************)
(* The threads of a program and the locks they meet on: an owner makes     *)
(* thread objects, joins or drops them (tests/test_thread_posix.cpp), and  *)
(* the callback of each thread makes calls of the library.                 *)
(***************************************************************************)
EXTENDS Thread, Locks

CONSTANTS
    Owner,          \* the thread that owns the thread objects
    OwnerWaits,     \* it drops an object only when it knows, by join() or from
                    \* the callback itself, that the callback has begun
    ErrorLog        \* what the constructor of a Thread logs when it fails

ASSUME ProgramAssumption ==
    /\ Owner \notin Workers
    /\ Threads = Workers \cup {Owner}
    /\ OwnerWaits \in BOOLEAN

vars == <<threadVars, lockVars, codeVars>>

Init == ThreadInit /\ LockInit

OwnerIdle == code[Owner] = <<>>

OwnerCreate(w) ==
    /\ OwnerIdle
    /\ Create(w)
    /\ UNCHANGED <<lockVars, codeVars>>

OwnerCreateFails(w) ==
    /\ OwnerIdle
    /\ CreateFails(w)
    /\ code' = [code EXCEPT ![Owner] = ErrorLog]
    /\ UNCHANGED <<lockVars, catches, calls>>

OwnerJoin(w) == OwnerIdle /\ Join(w) /\ UNCHANGED <<lockVars, codeVars>>

OwnerDestroy(w) ==
    /\ OwnerIdle
    /\ OwnerWaits => kernel[w] \in {"calling", "exited"}
    /\ Destroy(w)
    /\ UNCHANGED <<lockVars, codeVars>>

Run(w) == (RunEnter(w) \/ RunSwap(w)) /\ UNCHANGED <<lockVars, codeVars>>

\* The callback: calls, one after the other, until it returns.
Call(w) == kernel[w] = "calling" /\ Begin(w) /\ UNCHANGED threadVars

Return(w) ==
    /\ code[w] = <<>>
    /\ calls[w] = MaxCalls
    /\ RunReturn(w)
    /\ UNCHANGED <<lockVars, codeVars>>

Move(t) == Step(t) /\ UNCHANGED threadVars

OwnerNext ==
    \E w \in Workers :
        \/ OwnerCreate(w)
        \/ OwnerCreateFails(w)
        \/ OwnerJoin(w)
        \/ OwnerDestroy(w)

WorkerNext(w) == Run(w) \/ Call(w) \/ Return(w) \/ Move(w)

Next ==
    \/ OwnerNext
    \/ Move(Owner)
    \/ \E w \in Workers : WorkerNext(w)

Spec == Init /\ [][Next]_vars

\* Every thread keeps running.  Nothing is assumed of who gets a lock that
\* several wait for: the spin locks promise nothing.
FairSpec ==
    /\ Spec
    /\ WF_vars(OwnerNext)
    /\ WF_vars(Move(Owner))
    /\ \A w \in Workers : WF_vars(WorkerNext(w))

-----------------------------------------------------------------------------

\* Every call of every thread comes back, so the callbacks end, the owner's
\* joins return and all threads are reaped: no combination of calls waits for
\* itself, and none leaves a lock behind that another call needs
\* (thread.cpp:82-89 over all the locks of the library).
AllEnd == <>(\A w \in Workers : object[w] = "freed" /\ kernel[w] = "exited")

=============================================================================
