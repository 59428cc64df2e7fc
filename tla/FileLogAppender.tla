-------------------------- MODULE FileLogAppender --------------------------
(***************************************************************************)
(* FileLogAppender of src/_log/log.cpp, shared by loggers of several       *)
(* threads: log() reopens the file when three seconds have passed since    *)
(* the last reopening, and writes the event.  reopen() and the write each  *)
(* hold m_mutex; the test and the store of m_lastTime do not.              *)
(*                                                                         *)
(* m_filestream is a std::ofstream: whether its file buffer is open, and   *)
(* whether it is in a failed state.                                        *)
(***************************************************************************)
EXTENDS Naturals

CONSTANTS
    Callers,        \* threads that log
    WriteErrors,    \* a write may fail (a full disk)
    \* Bounds.
    StartTime,      \* the clock when the appender is built
    MaxTime         \* and where the model ends

ASSUME FileAssumption ==
    /\ WriteErrors \in BOOLEAN
    /\ StartTime \in Nat /\ StartTime >= 3
    /\ MaxTime \in Nat

VARIABLES
    m_filestream,
    m_lastTime,
    disk,           \* the file can be opened now
    clock,
    call,           \* log() of each thread, and the event's time
    \* History.
    tried           \* event times for which reopen() was called

vars == <<m_filestream, m_lastTime, disk, clock, call, tried>>

-----------------------------------------------------------------------------
(***************************************************************************)
(* std::ofstream, as reopen() and log() use it.                            *)
(***************************************************************************)
\* close() of a buffer that is not open fails.
Close(s) == [open |-> FALSE, fail |-> s.fail \/ ~s.open]

\* open() of a buffer that is open fails; success clears the state.
Open(s, ok) == IF ~s.open /\ ok THEN [open |-> TRUE, fail |-> FALSE]
                                ELSE [s EXCEPT !.fail = TRUE]

\* Mutant of Reopened: the file is not closed first.
ReopenedUnclosed(s, ok) == Open(s, ok)

\* reopen(): closes the stream unless it has failed, and opens it.
Reopened(s, ok) == Open(IF s.fail THEN s ELSE Close(s), ok)

-----------------------------------------------------------------------------
\* FileLogAppender(filename)
Init ==
    /\ disk \in BOOLEAN
    /\ m_filestream = Reopened([open |-> FALSE, fail |-> FALSE], disk)
    /\ m_lastTime = 0
    /\ clock = StartTime
    /\ call = [t \in Callers |-> [pc |-> "idle", now |-> 0]]
    /\ tried = {}

\* Mutant of Due: a second too late.
DueLate(now) == now >= m_lastTime + 4

Due(now) == now >= m_lastTime + 3

\* An event is made; its time is taken now, log() may come later.
MakeEvent(t) ==
    /\ call[t].pc = "idle"
    /\ call' = [call EXCEPT ![t] = [pc |-> "log", now |-> clock]]
    /\ UNCHANGED <<m_filestream, m_lastTime, disk, clock, tried>>

\* log(): the test, without m_mutex.
LogTest(t) ==
    /\ call[t].pc = "log"
    /\ call' = [call EXCEPT ![t].pc = IF Due(call[t].now) THEN "reopen" ELSE "write"]
    /\ UNCHANGED <<m_filestream, m_lastTime, disk, clock, tried>>

\* log(): reopen(), whose result is not looked at.
LogReopen(t) ==
    /\ call[t].pc = "reopen"
    /\ m_filestream' = Reopened(m_filestream, disk)
    /\ tried' = tried \cup {call[t].now}
    /\ call' = [call EXCEPT ![t].pc = "store"]
    /\ UNCHANGED <<m_lastTime, disk, clock>>

\* log(): m_lastTime = now, without m_mutex.
LogStore(t) ==
    /\ call[t].pc = "store"
    /\ m_lastTime' = call[t].now
    /\ call' = [call EXCEPT ![t].pc = "write"]
    /\ UNCHANGED <<m_filestream, disk, clock, tried>>

\* log(): the formatter writes to the stream; a failed one takes nothing.
LogWrite(t) ==
    /\ call[t].pc = "write"
    /\ \E error \in {FALSE, WriteErrors /\ m_filestream.open} :
          m_filestream' = [m_filestream EXCEPT !.fail = @ \/ error]
    /\ call' = [call EXCEPT ![t] = [pc |-> "idle", now |-> 0]]
    /\ UNCHANGED <<m_lastTime, disk, clock, tried>>

\* Time passes, and the directory comes and goes.
Tick ==
    /\ clock < MaxTime
    /\ clock' = clock + 1
    /\ disk' \in BOOLEAN
    /\ UNCHANGED <<m_filestream, m_lastTime, call, tried>>

Next ==
    \/ \E t \in Callers : \/ MakeEvent(t) \/ LogTest(t) \/ LogReopen(t)
                          \/ LogStore(t) \/ LogWrite(t)
    \/ Tick

Spec == Init /\ [][Next]_vars

-----------------------------------------------------------------------------
\* An event of time now is written to a stream that was reopened for an
\* event less than three seconds older, however the tests, the reopenings
\* and the stores of m_lastTime of two threads interleave, and although
\* m_lastTime may go backwards.
FreshStream ==
    \A t \in Callers : call[t].pc = "write" =>
        \E r \in tried : call[t].now < r + 3

\* reopen() opens the file whenever it can be opened: after any number of
\* failures the stream is good again (LogAppender.h:77).
ReopenRecovers ==
    [][\A t \in Callers :
          call[t].pc = "reopen" /\ call'[t].pc = "store" /\ disk
             => m_filestream'.open /\ ~m_filestream'.fail]_vars

=============================================================================
