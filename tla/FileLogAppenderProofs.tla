----------------------- MODULE FileLogAppenderProofs -----------------------
(***************************************************************************)
(* FreshStream of FileLogAppender, for any number of threads, any clock    *)
(* and with or without write errors, and ReopenRecovers without them.      *)
(*                                                                         *)
(* What makes FreshStream inductive: m_lastTime is 0 or a time for which   *)
(* reopen() was called, since a thread stores it only after its reopen();  *)
(* so a test that finds the stream recent enough compares with a real      *)
(* reopening.                                                              *)
(***************************************************************************)
EXTENDS FileLogAppender, TLAPS

PCs == {"idle", "log", "reopen", "store", "write"}

\* The parts of the state the argument is about.
FileTypes ==
    /\ m_lastTime \in Nat
    /\ clock \in Nat /\ clock >= 3
    /\ call \in [Callers -> [pc : PCs, now : Nat]]
    /\ tried \subseteq Nat

\* An event under way was made after the start, m_lastTime was tried, and a
\* thread that is to store its event's time has tried it.
Tried ==
    /\ m_lastTime = 0 \/ m_lastTime \in tried
    /\ \A t \in Callers : call[t].pc # "idle" => call[t].now >= 3
    /\ \A t \in Callers : call[t].pc = "store" => call[t].now \in tried

FileInv == FileTypes /\ Tried /\ FreshStream

\* The invariant holds when the appender has been built.
LEMMA FileInvInit == Init => FileInv
  BY FileAssumption DEF Init, FileInv, FileTypes, Tried, FreshStream, PCs

\* Every step of log(), of the clock and of the disk keeps the invariant.
LEMMA FileInvNext == FileInv /\ [Next]_vars => FileInv'
<1> SUFFICES ASSUME FileInv, [Next]_vars PROVE FileInv'
    OBVIOUS
<1> USE DEF FileInv, FileTypes, Tried, FreshStream, PCs
<1>1. ASSUME NEW t \in Callers, MakeEvent(t) PROVE FileInv'
      BY <1>1 DEF MakeEvent
<1>2. ASSUME NEW t \in Callers, LogTest(t) PROVE FileInv'
  <2>1. CASE Due(call[t].now)
        BY <1>2, <2>1 DEF LogTest
  <2>2. CASE ~Due(call[t].now)
    <3>1. m_lastTime \in tried /\ call[t].now < m_lastTime + 3
          BY <1>2, <2>2 DEF LogTest, Due
    <3>2. QED  BY <1>2, <2>2, <3>1 DEF LogTest
  <2>3. QED  BY <2>1, <2>2
<1>3. ASSUME NEW t \in Callers, LogReopen(t) PROVE FileInv'
      BY <1>3 DEF LogReopen
<1>4. ASSUME NEW t \in Callers, LogStore(t) PROVE FileInv'
      BY <1>4 DEF LogStore
<1>5. ASSUME NEW t \in Callers, LogWrite(t) PROVE FileInv'
      BY <1>5 DEF LogWrite
<1>6. CASE Tick
      BY <1>6 DEF Tick
<1>7. CASE UNCHANGED vars
      BY <1>7 DEF vars
<1>8. QED  BY <1>1, <1>2, <1>3, <1>4, <1>5, <1>6, <1>7 DEF Next

\* Every event is written to a stream reopened for an event less than three
\* seconds older: log() keeps the period of its reopenings although it tests
\* and stores m_lastTime without its lock.
THEOREM StreamFresh == Spec => []FreshStream
<1>1. FileInv => FreshStream
      BY DEF FileInv
<1>2. QED  BY FileInvInit, FileInvNext, <1>1, PTL DEF Spec


-----------------------------------------------------------------------------
\* A stream that is open has not failed: a write that fails is what would
\* leave a stream that reopen() does not close.
StreamGood ==
    /\ m_filestream \in [open : BOOLEAN, fail : BOOLEAN]
    /\ m_filestream.open => ~m_filestream.fail

LEMMA ReopenedGood ==
    ASSUME NEW s \in [open : BOOLEAN, fail : BOOLEAN], s.open => ~s.fail, NEW ok \in BOOLEAN
    PROVE  /\ Reopened(s, ok) \in [open : BOOLEAN, fail : BOOLEAN]
           /\ Reopened(s, ok).open <=> ok
           /\ Reopened(s, ok).fail <=> ~ok
BY DEF Reopened, Open, Close

LEMMA StreamGoodInit == Init => StreamGood /\ disk \in BOOLEAN
<1> SUFFICES ASSUME Init PROVE StreamGood
    BY DEF Init
<1> DEFINE s == [open |-> FALSE, fail |-> FALSE]
<1>1. s \in [open : BOOLEAN, fail : BOOLEAN] /\ (s.open => ~s.fail)
      OBVIOUS
<1>2. m_filestream = Reopened(s, disk) /\ disk \in BOOLEAN
      BY DEF Init
<1> HIDE DEF s
<1>3. QED  BY <1>1, <1>2, ReopenedGood DEF StreamGood

\* reopen() alone changes the stream, as long as every write succeeds.
LEMMA StreamGoodNext ==
    ASSUME ~WriteErrors, StreamGood, disk \in BOOLEAN, [Next]_vars
    PROVE  StreamGood' /\ disk' \in BOOLEAN
<1>1. ASSUME NEW t \in Callers, LogReopen(t) PROVE StreamGood' /\ disk' \in BOOLEAN
      BY <1>1, ReopenedGood DEF LogReopen, StreamGood
<1>2. ASSUME NEW t \in Callers, LogWrite(t) PROVE StreamGood' /\ disk' \in BOOLEAN
      BY <1>2 DEF LogWrite, StreamGood
<1>3. ASSUME NEW t \in Callers, MakeEvent(t) \/ LogTest(t) \/ LogStore(t)
      PROVE  StreamGood' /\ disk' \in BOOLEAN
      BY <1>3 DEF MakeEvent, LogTest, LogStore, StreamGood
<1>4. CASE Tick \/ UNCHANGED vars
      BY <1>4 DEF Tick, vars, StreamGood
<1>5. QED  BY <1>1, <1>2, <1>3, <1>4 DEF Next

\* reopen() opens the file whenever it can be opened, after any number of
\* failures, provided that no write has failed: a stream that is open and in
\* a failed state is not closed, and open() fails on it (LogAppender.h:77).
THEOREM ReopenOpens == ASSUME ~WriteErrors PROVE Spec => ReopenRecovers
<1> DEFINE Good == StreamGood /\ disk \in BOOLEAN
           Recovers == \A t \in Callers :
               call[t].pc = "reopen" /\ call'[t].pc = "store" /\ disk
                   => m_filestream'.open /\ ~m_filestream'.fail
<1>1. Init => FileInv /\ Good
      BY FileInvInit, StreamGoodInit
<1>2. FileInv /\ Good /\ [Next]_vars => (FileInv /\ Good)'
      BY FileInvNext, StreamGoodNext
<1>3. FileInv /\ Good /\ [Next]_vars => [Recovers]_vars
  <2> SUFFICES ASSUME FileInv, Good, Next,
                      NEW t \in Callers, call[t].pc = "reopen", call'[t].pc = "store", disk
               PROVE  m_filestream'.open /\ ~m_filestream'.fail
      OBVIOUS
  <2>1. LogReopen(t)
        BY DEF Next, MakeEvent, LogTest, LogReopen, LogStore, LogWrite, Tick,
               FileInv, FileTypes
  <2>2. QED  BY <2>1, ReopenedGood DEF LogReopen, StreamGood
<1>4. QED  BY <1>1, <1>2, <1>3, PTL DEF Spec, ReopenRecovers
=============================================================================
