---------------------------- MODULE Exclusion ----------------------------
(***************************************************************************)
(* What a lock of src/mutex promises: it is held by one thread in write    *)
(* mode, or any number of times in read mode, never both, and only a       *)
(* holder gives it up.  The word a lock is made of does not know who holds *)
(* it (Locks): here the lock names its holders.                            *)
(***************************************************************************)
EXTENDS Naturals

CONSTANT Threads

VARIABLES
    writing,        \* the threads that hold the lock exclusively
    reading         \* reading[t]: how often t holds it shared

Unread == \A t \in Threads : reading[t] = 0

Init == writing = {} /\ reading = [t \in Threads |-> 0]

AcquireWrite(t) ==
    /\ writing = {}
    /\ Unread
    /\ writing' = {t}
    /\ UNCHANGED reading

AcquireRead(t) ==
    /\ writing = {}
    /\ reading' = [reading EXCEPT ![t] = @ + 1]
    /\ UNCHANGED writing

ReleaseWrite(t) ==
    /\ writing = {t}
    /\ writing' = {}
    /\ UNCHANGED reading

ReleaseRead(t) ==
    /\ reading[t] > 0
    /\ reading' = [reading EXCEPT ![t] = @ - 1]
    /\ UNCHANGED writing

Next == \E t \in Threads :
    \/ AcquireWrite(t)
    \/ AcquireRead(t)
    \/ ReleaseWrite(t)
    \/ ReleaseRead(t)

Spec == Init /\ [][Next]_<<writing, reading>>

=============================================================================
