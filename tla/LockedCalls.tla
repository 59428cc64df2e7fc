---------------------------- MODULE LockedCalls ----------------------------
(***************************************************************************)
(* The public calls of the program as the locks see them: which guards a   *)
(* function takes, in which order, around what, and where it may throw.    *)
(* A loop is taken once or not at all, since each round leaves the locks   *)
(* as it found them.  Locks of objects no other thread can know yet (a new *)
(* logger in getLogger, a new appender in the listener of the log          *)
(* configuration) are left out.                                            *)
(*                                                                         *)
(* One lock stands for each kind: "registry" is Config::GetMutex(),        *)
(* "defines" the variable "logs" with the listener of the log system,      *)
(* "setting" any other variable, "root" and "app" loggers, "console" and   *)
(* "file" the appender of each.  getName, getId and the members of         *)
(* LogEvent take no lock.                                                  *)
(***************************************************************************)
EXTENDS Locks

Variables == {"defines", "setting"}

Locked(l, body) == <<Lock(l, "write")>> \o body \o <<Leave>>
WriteLocked(l, body) == Locked(l, body)
ReadLocked(l, body) == <<Lock(l, "read")>> \o body \o <<Leave>>
Either(alternatives) == <<Branch(alternatives)>>
Maybe(body) == Either({<<>>, body})

-----------------------------------------------------------------------------
\* The log system: log.cpp, Logger.h, LogAppender.h, LoggerManager.h.

\* Mutant of GetName: the lock that Logger.h:48 leaves out.
GetNameLocked(logger) == Locked(logger, <<>>)
GetName(logger) == <<>>

\* StdoutLogAppender::log and FileLogAppender::log; %c asks for the name of
\* the logger whose log() called it.
ConsoleLog(logger) == Maybe(Locked("console", GetName(logger)))
Reopen == Locked("file", <<>>)
FileLog(logger) == Maybe(Maybe(Reopen) \o Locked("file", GetName(logger)))

\* Logger::log; a logger without appenders hands the event to the root.
RootLoggerLog == Locked("root", ConsoleLog("root"))
LoggerLog(logger) ==
    IF logger = "root"
    THEN RootLoggerLog
    ELSE Either({Locked(logger, FileLog(logger)), RootLoggerLog})

GetRoot == Locked("manager", <<>>)
GetLogger == Locked("manager", <<>>)
GetLevel(logger) == Locked(logger, <<>>)
SetLevel(logger) == Locked(logger, <<>>)
ClearAppenders(logger) == Locked(logger, <<>>)
AddAppender(logger) == Locked(logger, <<>>)

\* SHS_LOG_LEVEL(logger, level) << shown: the expression that finds the
\* logger is written twice into the code.
LogTo(find, logger, shown) ==
    find \o GetLevel(logger) \o Maybe(find \o shown \o LoggerLog(logger))
LogRoot == LogTo(GetRoot, "root", <<>>)
LogSystem == LogTo(<<>>, "app", <<>>)

\* LoggerManager::toYamlNode, Logger::toYamlNode, LogAppender::toYamlNode.
AppenderYaml(appender) == Locked(appender, <<>>)
LoggerYaml(logger, appender) == Locked(logger, Maybe(AppenderYaml(appender)))
ManagerYaml ==
    Locked("manager", LoggerYaml("app", "file") \o LoggerYaml("root", "console"))

\* The listener of LogIniter.
OnLogConfig ==
    LogRoot \o
    Either({<<>>} \cup
        {GetLogger \o SetLevel(g) \o ClearAppenders(g) \o Maybe(AddAppender(g)) :
            g \in {"root", "app"}})

-----------------------------------------------------------------------------
\* The configuration: config.h, config.cpp.

\* A listener of a program's own may log (test_config.cpp) and may throw.
Notify(v) ==
    IF v = "defines" THEN OnLogConfig ELSE Either({<<>>, LogRoot, <<Throw>>})

\* ConfigVar<T>::setValue: an equal value returns out of the read block.
SetValue(v) ==
    <<Lock(v, "read"),
      Branch({<<Leave>>, Notify(v) \o <<Leave>> \o WriteLocked(v, <<>>)})>>

\* fromString and toString catch what the conversion or a listener throws
\* when their guards are gone, and log it.
FromString(v) == <<Try(Either({<<Throw>>, SetValue(v)}), LogRoot)>>
VarToString(v) == <<Try(ReadLocked(v, Either({<<>>, <<Throw>>})), LogRoot)>>

ChangeListeners(v) == WriteLocked(v, <<>>)
GetListener(v) == ReadLocked(v, <<>>)

LogVariable == Either({LogTo(GetRoot, "root", VarToString(v)) : v \in Variables})

\* Lookup with a default: the variable exists, has another type, has a
\* name that is not allowed, or is new.
LookupOrCreate ==
    WriteLocked("registry", Either({LogRoot, LogVariable, LogRoot \o <<Throw>>, <<>>}))
LookupBase == ReadLocked("registry", <<>>)

\* Visit with the callback of test_config.cpp.
Visit == ReadLocked("registry", Maybe(LogVariable))

\* A key of the document is logged as invalid, names no variable, or one.
LoadFromYaml ==
    Either({LogRoot} \cup {LookupBase \o Maybe(FromString(v)) : v \in Variables})

-----------------------------------------------------------------------------
\* The scheduler: start() unlocks by hand, and a Thread that cannot be
\* created logs and throws out of it.
StartScheduler ==
    <<Lock("scheduler", "write"),
      Branch({<<Leave>>, <<Unlock, Leave>>, LogSystem \o <<Throw>>})>>
Schedule == Locked("scheduler", <<>>) \o Maybe(LogSystem)

-----------------------------------------------------------------------------

AllLocks ==
    {"scheduler", "registry", "defines", "setting", "manager", "root", "app",
     "console", "file"}

\* The order the locks are taken in.
LockRank ==
    [l \in AllLocks |->
        CASE l \in {"scheduler", "registry"} -> 0
          [] l \in Variables -> 1
          [] l = "manager" -> 2
          [] l \in {"root", "app"} -> 3
          [] l \in {"console", "file"} -> 4]

VariableCalls ==
    UNION {{SetValue(v), FromString(v), VarToString(v), ChangeListeners(v), GetListener(v)} :
             v \in Variables}
LogCalls == {LogRoot, LogSystem, ManagerYaml}
RegistryCalls == {LookupOrCreate, LookupBase, Visit, LoadFromYaml}
SchedulerCalls == {StartScheduler, Schedule}

PublicCalls == VariableCalls \cup LogCalls \cup RegistryCalls \cup SchedulerCalls

=============================================================================
