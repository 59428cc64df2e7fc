------------------------------ MODULE WorkPool ------------------------------
(***************************************************************************)
(* What the scheduler promises the program that uses it, without threads,  *)
(* lists, fibers or counters: a callback it was given waits until it is    *)
(* called, once; callbacks are called from start() to the return of        *)
(* stop(), never before and never after; and stop() returns when no        *)
(* callback waits.  One that is given to a stopped pool waits for the next *)
(* start() or stop(), and for ever if the scheduler is destroyed first.    *)
(***************************************************************************)
EXTENDS Naturals

CONSTANT Cbs

VARIABLES
    waiting,        \* the callbacks that have been given and not called
    calls,          \* calls[c]: how often c has been called
    status          \* "stopped", "running", "stopping" or "destroyed"

Init ==
    /\ waiting = {}
    /\ calls = [c \in Cbs |-> 0]
    /\ status = "stopped"

Submit(S) ==
    /\ status # "destroyed"
    /\ S # {}
    /\ \A c \in S : c \notin waiting /\ calls[c] = 0
    /\ waiting' = waiting \cup S
    /\ UNCHANGED <<calls, status>>

Call(c) ==
    /\ status \in {"running", "stopping"}
    /\ c \in waiting
    /\ waiting' = waiting \ {c}
    /\ calls' = [calls EXCEPT ![c] = @ + 1]
    /\ UNCHANGED status

Start ==
    /\ status = "stopped"
    /\ status' = "running"
    /\ UNCHANGED <<waiting, calls>>

Stop ==
    /\ status \in {"stopped", "running"}
    /\ status' = "stopping"
    /\ UNCHANGED <<waiting, calls>>

Stopped ==
    /\ status = "stopping"
    /\ waiting = {}
    /\ status' = "stopped"
    /\ UNCHANGED <<waiting, calls>>

Destroy ==
    /\ status = "stopped"
    /\ status' = "destroyed"
    /\ UNCHANGED <<waiting, calls>>

Next ==
    \/ \E S \in SUBSET Cbs : Submit(S)
    \/ \E c \in Cbs : Call(c)
    \/ Start \/ Stop \/ Stopped \/ Destroy

Spec == Init /\ [][Next]_<<waiting, calls, status>>

=============================================================================
