----------------------------- MODULE LogSystem -----------------------------
(***************************************************************************)
(* The loggers of src/_log and their configuration variable "logs": client *)
(* threads write events through LoggerManager, Logger and the appenders    *)
(* while one thread loads YAML documents, whose change listener (LogIniter *)
(* in log.cpp) levels, empties and fills the loggers.                      *)
(*                                                                         *)
(* Each use of a logger's m_mutex is one step.  Logger::log() reads        *)
(* m_level and m_appenders.empty() without it: a step of its own each,     *)
(* which sees the value before or after a concurrent change.  An appender  *)
(* is a record of its kind, level and pattern; what it writes is left out. *)
(* Nothing orders two loggers: the listener may visit the names in any     *)
(* order.                                                                  *)
(***************************************************************************)
EXTENDS Naturals, Sequences

CONSTANTS
    Names,          \* logger names
    Root,           \* "root"
    MaxLevel,       \* the highest level; UNKNOW is 0, DEBUG 1
    NoLevel,        \* a YAML node without "level"
    NoName,         \* a YAML node without "name"
    Documents,      \* the "logs" nodes that are loaded
    Clients,        \* threads that write events
    \* Bounds.
    MaxEvents,      \* events of each client
    MaxLoads        \* documents loaded

UNKNOW == 0
DEBUG == 1
Levels == UNKNOW..MaxLevel

\* Patterns: that of the constructor of LogAppender, another one, and one
\* LogFormatter::isError() is true of.
Patterns == {"default", "short", "bad"}

\* What the YAML nodes of a document hold.  An appender whose type is
\* missing, or a FileLogAppender without file, is of kind "missing".
YamlAppender == [type : {"file", "stdout", "other", "missing"},
                 level : Levels \cup {NoLevel}, formatter : Patterns \cup {"none"}]
YamlLogger ==
    [name : Names \cup {NoName}, level : Levels \cup {NoLevel}, appenders : Seq(YamlAppender)]

\* What they define, and what a logger has.
AppenderDefine ==
    [type : {"file", "stdout", "other"}, level : Levels, formatter : Patterns \cup {"none"}]
Appender == [type : {"file", "stdout"}, level : Levels, formatter : Patterns \ {"bad"}]

ASSUME LogAssumption ==
    /\ Root \in Names
    /\ NoName \notin Names
    /\ NoLevel \notin Levels
    /\ MaxLevel \in Nat \ {0}
    /\ {MaxEvents, MaxLoads} \subseteq Nat
    /\ Documents \subseteq Seq(YamlLogger)

VARIABLES
    m_loggers,      \* LoggerManager: the names it has loggers for
    m_level,        \* m_level[n]
    m_appenders,    \* m_appenders[n]
    m_val,          \* value of g_log_defines: name -> LogDefine
    client,         \* what each client is doing
    load,           \* what the loading thread is doing
    loads,          \* documents loaded so far
    \* History.
    events,         \* events each client has begun
    written,        \* what wrote the last event of each client
    expected,       \* what should have, from the loggers it began with
    quiet,          \* no logger was changed since it began
    configured,     \* names some accepted document had
    asked           \* the definitions of the last accepted document

loggerVars == <<m_loggers, m_level, m_appenders>>
clientVars == <<client, events, written, expected>>
vars == <<loggerVars, m_val, clientVars, load, loads, quiet, configured, asked>>

Away == [pc |-> "idle"]

\* LoggerManager(): the root logger writes to the console.  A logger that
\* does not exist yet is shown as its constructor will leave it.
Init ==
    /\ m_loggers = {Root}
    /\ m_level = [n \in Names |-> DEBUG]
    /\ m_appenders = [n \in Names |->
          IF n = Root THEN <<[type |-> "stdout", level |-> DEBUG, formatter |-> "default"]>> ELSE <<>>]
    /\ m_val = <<>>
    /\ client = [t \in Clients |-> Away]
    /\ load = Away
    /\ loads = 0
    /\ events = [t \in Clients |-> 0]
    /\ written = [t \in Clients |-> <<>>]
    /\ expected = [t \in Clients |-> <<>>]
    /\ quiet = [t \in Clients |-> TRUE]
    /\ configured = {}
    /\ asked = <<>>

-----------------------------------------------------------------------------
(***************************************************************************)
(* A client writes an event: SHS_LOG_LEVEL(SHS_LOG_NAME(n), level).        *)
(***************************************************************************)

\* The elements of s that are in S, in their order: what a loop over s that
\* passes over the others visits.
Kept(s, S) ==
    LET kept[i \in 0..Len(s)] ==
          IF i = 0 THEN <<>>
          ELSE IF s[i] \in S THEN Append(kept[i - 1], s[i]) ELSE kept[i - 1]
    IN  kept[Len(s)]

\* The appenders whose own level lets the event pass.
Passing(appenders, level) == Kept(appenders, {a \in Appender : level >= a.level})

\* The logger whose appenders are to write an event of logger n, and the
\* appenders that write it: n's own, or the root's when n has none.
Sink(n) == IF m_appenders[n] # <<>> THEN n ELSE Root
Writers(n, level) ==
    IF level >= m_level[n] /\ level >= m_level[Sink(n)]
    THEN Passing(m_appenders[Sink(n)], level) ELSE <<>>

\* getLogger(n), made if it is not there: name, level DEBUG, m_root.
GetLogger(t, n) ==
    /\ client[t] = Away
    /\ events[t] < MaxEvents
    /\ m_loggers' = m_loggers \cup {n}
    /\ client' = [client EXCEPT ![t] = [pc |-> "gate", name |-> n]]
    /\ UNCHANGED <<m_level, m_appenders, m_val, load, loads, events, written,
                   expected, quiet, configured, asked>>

\* The macro's getLevel() <= level; the event's end of life calls log().
Gate(t, level) ==
    /\ client[t].pc = "gate"
    /\ LET n == client[t].name IN
          /\ client' = [client EXCEPT ![t] =
                IF m_level[n] <= level THEN [pc |-> "level", at |-> n, level |-> level]
                                       ELSE Away]
          /\ expected' = [expected EXCEPT ![t] = Writers(n, level)]
    /\ events' = [events EXCEPT ![t] = @ + 1]
    /\ written' = [written EXCEPT ![t] = <<>>]
    /\ quiet' = [quiet EXCEPT ![t] = TRUE]
    /\ UNCHANGED <<loggerVars, m_val, load, loads, configured, asked>>

\* Logger::log(): level >= m_level.
LogLevel(t) ==
    /\ client[t].pc = "level"
    /\ client' = [client EXCEPT ![t] =
          IF client[t].level >= m_level[client[t].at] THEN [@ EXCEPT !.pc = "empty"] ELSE Away]
    /\ UNCHANGED <<loggerVars, m_val, load, loads, events, written, expected,
                   quiet, configured, asked>>

\* Mutant of LogEmpty: the root logger is not asked.
LogEmptyNoRoot(t) ==
    /\ client[t].pc = "empty"
    /\ client' = [client EXCEPT ![t] =
          IF m_appenders[client[t].at] # <<>> THEN [@ EXCEPT !.pc = "lock"] ELSE Away]
    /\ UNCHANGED <<loggerVars, m_val, load, loads, events, written, expected,
                   quiet, configured, asked>>

\* Logger::log(): m_appenders.empty(); m_root->log(), if there is an m_root.
LogEmpty(t) ==
    /\ client[t].pc = "empty"
    /\ client' = [client EXCEPT ![t] =
          CASE m_appenders[client[t].at] # <<>> -> [@ EXCEPT !.pc = "lock"]
            [] m_appenders[client[t].at] = <<>> /\ client[t].at # Root ->
                  [@ EXCEPT !.pc = "level", !.at = Root]
            [] OTHER -> Away]
    /\ UNCHANGED <<loggerVars, m_val, load, loads, events, written, expected,
                   quiet, configured, asked>>

\* Logger::log(), under m_mutex: every appender is given the event.
LogWrite(t) ==
    /\ client[t].pc = "lock"
    /\ written' = [written EXCEPT ![t] =
          Passing(m_appenders[client[t].at], client[t].level)]
    /\ client' = [client EXCEPT ![t] = Away]
    /\ UNCHANGED <<loggerVars, m_val, load, loads, events, expected, quiet,
                   configured, asked>>

-----------------------------------------------------------------------------
(***************************************************************************)
(* Lexical_cast<std::string, std::set<LogDefine>>.                         *)
(***************************************************************************)

\* An unknown or missing level reads as UNKNOW.
FromString(level) == IF level = NoLevel THEN UNKNOW ELSE level

\* A level of the appender's own makes it read the level of the logger,
\* which throws when the logger has none.
Throws(y) ==
    \/ y.name = NoName
    \/ y.level = NoLevel /\ \E j \in 1..Len(y.appenders) :
          y.appenders[j].type # "missing" /\ y.appenders[j].level # NoLevel

\* A "missing" appender is skipped, one of an unknown type is kept.  Both
\* ways to its level lead to that of the logger.
ToDefine(y) ==
    LET kept == Kept(y.appenders, {a \in YamlAppender : a.type # "missing"}) IN
    [level |-> FromString(y.level),
     appenders |-> [j \in 1..Len(kept) |->
                       [kept[j] EXCEPT !.level = FromString(y.level)]]]

\* The set orders LogDefines by name and keeps the first of each.
First(d, n) == CHOOSE i \in 1..Len(d) :
                  d[i].name = n /\ \A j \in 1..(i - 1) : d[j].name # n
ToDefines(d) ==
    [n \in {d[i].name : i \in 1..Len(d)} |-> ToDefine(d[First(d, n)])]

\* Mutant of YamlLevel: the lowest level is left out too.
YamlLevelAbove(level) == IF level <= DEBUG THEN NoLevel ELSE level

\* No "level" is written for UNKNOW.
YamlLevel(level) == IF level = UNKNOW THEN NoLevel ELSE level

\* Lexical_cast<LogDefine, std::string>: an appender of an unknown type gets
\* no "type".
DefineYaml(n, d) ==
    [name |-> n, level |-> YamlLevel(d.level),
     appenders |-> [j \in 1..Len(d.appenders) |->
        [type |-> IF d.appenders[j].type = "other" THEN "missing" ELSE d.appenders[j].type,
         level |-> YamlLevel(d.appenders[j].level),
         formatter |-> d.appenders[j].formatter]]]

\* toYamlNode() of the appenders: "formatter" is the pattern they have.
AppenderYaml(a) == [a EXCEPT !.level = YamlLevel(@)]

\* Logger::toYamlNode(), for LoggerManager::toYamlNode().
LoggerYaml(n) ==
    [name |-> n, level |-> YamlLevel(m_level[n]),
     appenders |-> [j \in 1..Len(m_appenders[n]) |-> AppenderYaml(m_appenders[n][j])]]

\* LogDefine::operator==, whose last conjunct compares appenders with
\* itself; formatter is never set.
SameDefine(a, b) == a.level = b.level

SameDefines(a, b) ==
    DOMAIN a = DOMAIN b /\ \A n \in DOMAIN a : SameDefine(a[n], b[n])

-----------------------------------------------------------------------------
(***************************************************************************)
(* g_log_defines->fromString(d), with the listener inside setValue().      *)
(***************************************************************************)
\* What a step of the loading thread other than on loggers leaves alone.
LoadOnly == UNCHANGED <<loggerVars, clientVars, quiet>>

BeginLoad(d) ==
    /\ load = Away
    /\ loads < MaxLoads
    /\ loads' = loads + 1

\* The conversion throws: fromString logs it and returns false.
LoadRejected(d) ==
    /\ BeginLoad(d)
    /\ \E i \in 1..Len(d) : Throws(d[i])
    /\ LoadOnly
    /\ UNCHANGED <<m_val, load, configured, asked>>

\* setValue(): an equal value ends the call, else the listener runs: it has
\* to set up the new and changed loggers and to empty those that are gone.
LoadAccepted(d) ==
    /\ BeginLoad(d)
    /\ \A i \in 1..Len(d) : ~Throws(d[i])
    /\ LET new == ToDefines(d) IN
       load' = IF SameDefines(m_val, new) THEN Away
               ELSE [pc |-> "next", new |-> new,
                     todo |-> {n \in DOMAIN new :
                                 n \in DOMAIN m_val => ~SameDefine(new[n], m_val[n])},
                     gone |-> DOMAIN m_val \ DOMAIN new, name |-> NoName, rest |-> <<>>]
    /\ configured' = configured \cup {d[i].name : i \in 1..Len(d)}
    /\ asked' = ToDefines(d)
    /\ LoadOnly
    /\ UNCHANGED m_val

\* A step of the listener on logger n.
Touch == quiet' = [t \in Clients |-> FALSE]

\* Mutant of ApplyLevel: the logger is not registered.
ApplyLevelUnregistered(n) ==
    /\ load.pc = "next"
    /\ n \in load.todo \/ (load.todo = {} /\ n \in load.gone)
    /\ m_level' = [m_level EXCEPT ![n] =
          IF n \in load.todo THEN load.new[n].level ELSE UNKNOW]
    /\ load' = [load EXCEPT !.pc = "clear", !.name = n,
                            !.todo = @ \ {n}, !.gone = @ \ {n}]
    /\ Touch
    /\ UNCHANGED <<m_loggers, m_appenders, m_val, clientVars, loads, configured, asked>>

\* SHS_LOG_NAME(n) and setLevel, for a logger to set up or one that is gone.
\* They take the manager's lock and then the logger's; here they are one step,
\* as an event in between meets a logger with the old level either way.
ApplyLevel(n) ==
    /\ load.pc = "next"
    /\ n \in load.todo \/ (load.todo = {} /\ n \in load.gone)
    /\ m_loggers' = m_loggers \cup {n}
    /\ m_level' = [m_level EXCEPT ![n] =
          IF n \in load.todo THEN load.new[n].level ELSE UNKNOW]
    /\ load' = [load EXCEPT !.pc = "clear", !.name = n,
                            !.todo = @ \ {n}, !.gone = @ \ {n}]
    /\ Touch
    /\ UNCHANGED <<m_appenders, m_val, clientVars, loads, configured, asked>>

\* The appenders to add: none for a logger that is gone.
ToAdd == IF load.name \in DOMAIN load.new THEN load.new[load.name].appenders ELSE <<>>

\* Mutant of ApplyClear: the old appenders stay.
ApplyClearNever ==
    /\ load.pc = "clear"
    /\ load' = [load EXCEPT !.pc = "add", !.rest = ToAdd]
    /\ Touch
    /\ UNCHANGED <<loggerVars, m_val, clientVars, loads, configured, asked>>

\* clearAppenders()
ApplyClear ==
    /\ load.pc = "clear"
    /\ m_appenders' = [m_appenders EXCEPT ![load.name] = <<>>]
    /\ load' = [load EXCEPT !.pc = "add", !.rest = ToAdd]
    /\ Touch
    /\ UNCHANGED <<m_loggers, m_level, m_val, clientVars, loads, configured, asked>>

\* The appender made for a LogAppenderDefine: one without a pattern, or with
\* one that is in error, keeps the default.
Built(a) == [a EXCEPT !.formatter = IF @ \in {"none", "bad"} THEN "default" ELSE @]

\* One turn of the loop over i.appenders: a LogAppenderDefine of no known
\* type is skipped.  After the last one, the next logger.
ApplyAdd ==
    /\ load.pc = "add"
    /\ IF load.rest = <<>>
       THEN /\ load' = [load EXCEPT !.pc = "next", !.name = NoName]
            /\ UNCHANGED m_appenders
       ELSE /\ load' = [load EXCEPT !.rest = Tail(@)]
            /\ m_appenders' =
                  IF Head(load.rest).type = "other" THEN m_appenders
                  ELSE [m_appenders EXCEPT ![load.name] = Append(@, Built(Head(load.rest)))]
    /\ Touch
    /\ UNCHANGED <<m_loggers, m_level, m_val, clientVars, loads, configured, asked>>

\* The listener is done; setValue() stores the value.
LoadStore ==
    /\ load.pc = "next"
    /\ load.todo = {} /\ load.gone = {}
    /\ m_val' = load.new
    /\ load' = Away
    /\ LoadOnly
    /\ UNCHANGED <<loads, configured, asked>>

-----------------------------------------------------------------------------
LogStep(t) == LogLevel(t) \/ LogEmpty(t) \/ LogWrite(t)

ClientStep(t) ==
    \/ \E n \in Names : GetLogger(t, n)
    \/ \E level \in Levels \ {UNKNOW} : Gate(t, level)
    \/ LogStep(t)

LoadStep ==
    \/ \E d \in Documents : LoadRejected(d) \/ LoadAccepted(d)
    \/ \E n \in Names : ApplyLevel(n)
    \/ ApplyClear \/ ApplyAdd \/ LoadStore

\* Every thread has done what it had to.
Quiescent ==
    /\ load = Away
    /\ \A t \in Clients : client[t] = Away
    /\ UNCHANGED vars

Next == (\E t \in Clients : ClientStep(t)) \/ LoadStep \/ Quiescent

Spec == Init /\ [][Next]_vars

-----------------------------------------------------------------------------
\* Loggers, value and history have the shape of what they stand for, and
\* only loggers that exist have been given a level or appenders.
TypeOK ==
    /\ m_loggers \subseteq Names
    /\ m_level \in [Names -> Levels]
    /\ m_appenders \in [Names -> Seq(Appender)]
    /\ \A n \in Names \ m_loggers : m_level[n] = DEBUG /\ m_appenders[n] = <<>>
    /\ DOMAIN m_val \subseteq Names
    /\ loads \in 0..MaxLoads
    /\ events \in [Clients -> 0..MaxEvents]
    /\ written \in [Clients -> Seq(Appender)]

\* An event during which no logger changes is written as the design says:
\* by the appenders of its logger or, if there are none, by those of the
\* root, once each, when the levels on its way let it pass.
WrittenAsDesigned ==
    \A t \in Clients :
        client[t] = Away /\ quiet[t] => written[t] = expected[t]

\* The appenders a definition leads to.
KnownTypes(appenders) == Kept(appenders, {a \in AppenderDefine : a.type # "other"})
BuiltAll(appenders) ==
    [j \in 1..Len(KnownTypes(appenders)) |-> Built(KnownTypes(appenders)[j])]

\* When no document is being loaded the loggers are what the stored value of
\* "logs" says, and those it no longer names are UNKNOW and empty: the
\* listener, step by step, brings about what setValue() stores.
LoggersMatchConfig ==
    load = Away =>
        /\ \A n \in DOMAIN m_val :
              /\ m_level[n] = m_val[n].level
              /\ m_appenders[n] = BuiltAll(m_val[n].appenders)
        /\ \A n \in configured \ DOMAIN m_val :
              m_level[n] = UNKNOW /\ m_appenders[n] = <<>>

\* What the program writes as YAML it can load again: the dump of the stored
\* value of "logs" converts without throwing and gives back its definitions
\* (less the appenders of no known type), and the dump of the LoggerManager
\* sets up every logger as it is, also those no document has configured.
DumpReloads ==
    load = Away =>
        /\ \A n \in DOMAIN m_val :
              LET y == DefineYaml(n, m_val[n]) IN
              ~Throws(y) /\ ToDefine(y) = [m_val[n] EXCEPT !.appenders = KnownTypes(@)]
        /\ \A n \in m_loggers :
              LET y == LoggerYaml(n) IN
              /\ ~Throws(y)
              /\ ToDefine(y).level = m_level[n]
              /\ BuiltAll(ToDefine(y).appenders) = m_appenders[n]

\* The listener is there to "add, change and delete" loggers (log.cpp:673):
\* when a document has been loaded, each logger it names has the level and
\* the appenders it says.
DocumentApplies ==
    load = Away =>
        \A n \in DOMAIN asked :
            /\ m_level[n] = asked[n].level
            /\ m_appenders[n] = BuiltAll(asked[n].appenders)

=============================================================================
