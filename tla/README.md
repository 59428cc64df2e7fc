# Formal models of simple_http_server

TLA+ specifications of the framework under `src/src`: a logging system, a
configuration system, and an N:M coroutine scheduler, with TLC configurations
that check them on small instances and TLAPS proofs for every size. Paths such as
`scheduler.cpp:184` are relative to the component's directory in `src/src`.

## 1. The system

| Component | State | Operations | Used by |
|---|---|---|---|
| **Scheduler** (`scheduler/`) | the task list `m_fibers` under `m_mutex`, atomic `m_activeThreadCount` and `m_idleThreadCount`, `m_stopping`, `m_autoStop`, the threads, the root fiber | `start`, `stop`, `schedule` (one task, a range), `switchTo`, `run` and `idle` in every thread, `stopping`, the destructor | programs built on the framework |
| **Fiber** (`fiber/`) | `m_state` (INIT, HOLD, EXEC, TERM, READY, EXCEPT), `m_cb`, a stack | constructor, `reset`, `swapIn`, `swapOut`, `call`, `back`, `YieldToReady`, `YieldToHold`, `MainFunc`, `CallerMainFunc` | Scheduler |
| **Thread** (`thread/`, `thread_posix/`) | the handle `m_thread`, `m_id`, `m_cb`, the name | constructor, `run`, `join`, destructor | Scheduler, programs |
| **Locks** (`mutex/`) | the word of a lock; `m_locked` of each scoped lock | `RWMutex`, `Mutex`, `SpinLock`, `CASLock`, `Semaphore`, scoped locks | all |
| **ConfigVar** (`config/config.h`) | a value, a map of change listeners, an `RWMutex`; the key counter `s_func_id` shared by a type | `setValue`, `fromString`, `toString`, `addListener`, `delListener`, `clearListener` | Config, log configuration, fiber stack size |
| **Conversions** (`config/config.h`, `Lexical_cast`) | none | text to value and back, for scalars and nested containers | ConfigVar |
| **Config** (`config/`) | the map of names to variables, an `RWMutex` | `Lookup`, `LookupBase`, `Visit`, `LoadFromYaml` | all |
| **Loggers** (`_log/`) | `LoggerManager`'s map; each logger's level and appenders | `getLogger`, `log`, `addAppender`, `clearAppenders`, `setLevel`, `toYamlNode` | all |
| **Log configuration** (`_log/log.cpp`, `LogDefine`, `LogIniter`) | the variable `logs` | conversion from and to YAML, comparison, the change listener | Config |
| **File appender** (`_log/log.cpp`) | an `ofstream`, `m_lastTime` | `reopen`, `log` | Loggers |
| **Log formatter** (`_log/log.cpp`) | the pattern, the items | `init`, `format` | appenders |
| **HTTP server** (`server.cpp`) | a boost::asio acceptor and socket | an accept loop, one fixed answer | `main` |

How they interact: `Config::LoadFromYaml` flattens a YAML tree and calls
`fromString` on each variable it names; `setValue` calls the listeners; the
listener of `logs` sets up the loggers; any thread may be logging meanwhile.
Threads of a scheduler run fibers, whose callbacks call the scheduler again and
yield. Every one of these logs, often under a lock of its own, so that calls of one
component run under the locks of another. The HTTP server uses none of this.

What is hard: a fiber is handed between threads while it is still leaving its
stack; `stopping()` decides from a list and a counter that other threads are
changing; every path through `run()` has to give back what it counted; `stop()`
waits for threads that wait for the queue to drain; values are compared and
announced under one lock and stored under another; loggers are emptied and filled
while they are being used; `m_appenders.empty()` and `m_lastTime` are read without
the lock; locks of five layers nest, two of them non-recursive spin locks, and
exceptions leave through them; a thread object is used by its thread after the
constructor has returned. `PROJECT.json` lists these hazards with their lines and the properties
that watch them.

## 2. The modules

| Module | Models |
|---|---|
| `Fiber` | the states and callbacks of fibers, an operator for each member function |
| `WorkPool` | what the scheduler promises its users: an abstract specification |
| `Scheduler` (extends `Fiber`) | `Scheduler`, with threads and the root fiber; shown to implement `WorkPool` |
| `ConfigVar` | configuration variables, listeners, `RWMutex` |
| `Yaml` | the YAML nodes that texts load as |
| `Lexical` (extends `Yaml`) | `Lexical_cast` and its specialisations |
| `ConfigRegistry` (extends `Yaml`) | `Config`: the map of variables, and the loop of `LoadFromYaml` |
| `ConfigTree` (extends `ConfigRegistry`, `Lexical`) | `ListAllMember`, and what a load makes of a whole tree |
| `LogSystem` | loggers, `LoggerManager`, the configuration `logs` and its listener |
| `FileLogAppender` | the file appender and its stream |
| `LogFormatter` | `LogFormatter::init`, the pattern parser, and the items it makes |
| `Exclusion` | what a lock promises, with named holders: the abstract specification |
| `Locks` | the words of the locks and the scoped locks that take them |
| `LockedCalls` (extends `Locks`) | the public calls of the library, as the locks see them |
| `Thread` | `Thread` and `Thread_posix` |
| `Program` (extends `Thread`, `Locks`) | threads that make calls, and their owner: the composition |
| `MCScheduler`, `MCConfigRegistry`, `MCLogSystem`, `MCProgram` | symmetry, small documents and the calls, for TLC |
| `SchedulerProofs`, `SchedulerTaskProofs`, `ConfigVarProofs`, `ConfigRegistryProofs`, `LogSystemProofs`, `LogFormatterProofs`, `FileLogAppenderProofs`, `ProgramProofs` | theorems |

Operators whose comment begins "Mutant of" are plausible bugs. They are not part of
any specification; each property is shown to fail when one takes the place of the
definition it mutates.

### Scheduler

`pc[t]` is the place of thread t in `Scheduler::run()`:

| pc | code |
|---|---|
| `none`, `created` | no thread; `pthread_create` done, `Thread::run` not begun |
| `take` | the critical section in which `run` picks a task (`scheduler.cpp:148-179`) |
| `dispatch` | the tests of `ft` and of the fiber's state (181, 193, 212, 217) |
| `swapin`, `exec` | before `swapIn`; on the fiber's stack |
| `hold` | in `switchTo`, between `schedule` and `YieldToHold` |
| `swapout`, `leave` | on the way back to `run`; before `--m_activeThreadCount` |
| `post`, `requeue` | the tests after `swapIn`; before `schedule` of a READY fiber |
| `idle`, `idleout` | in the idle fiber; before `--m_idleThreadCount` |
| `exit` | `run` has returned |

`api` is the place of the owner in `start()` and `stop()`; while it is `root` the
owner runs the root fiber, as `pc[Caller]`. A critical section of `m_mutex` is one
step, except that `start()` keeps the lock while it creates threads (`starting`).
Each atomic counter update is a step of its own. A failing assertion stores its
label in `aborted`, and nothing happens afterwards. Callbacks do, at any point,
whatever the profile allows: schedule callbacks and fibers (to a thread with
`Pinning`), wake fibers, yield, switch thread, return or throw. With `Disciplined`
a suspended fiber is scheduled by one party at a time and the scheduler is
destroyed only after `stop()`. This is an assumption about programs, which the
repository neither states nor tests (it has no test of the scheduler); without it
they may misuse the interface. The owner may schedule only between its own calls.
The labels of `aborted` are the assertions that depend on what threads and clients did.
The others are left out: those on the constructor's arguments and on `GetThis()` of the
calling thread (`scheduler.cpp:15`, `21`, `90`, `92`, `251`), which hold where one owner
builds, starts and stops the scheduler; the one on empty tasks (`162`), which is
`TasksNonEmpty` of `CountInv`; in `fiber.cpp` those on `m_stack`, on `GetThis()` (`114`,
`122`, `199`, `227`) and on `ucontext` calls, and those of `~Fiber`, as the references to
fibers are not counted.
The number of threads beside the caller is chosen in `Init` (`ThreadCounts`), as the
constructor's argument is.
`tickle()` writes a log line and is left out, so idle threads spin as in the code.

`WorkPool` knows no threads, fibers or list: callbacks are given, wait, and are called
while the pool is running or stopping. The refinement mapping is `Waiting` (given and
not called) and `Status`: the pool is running from the store of `m_stopping` in `start()`,
stopping while `stop()` has not returned, and stopped otherwise. A `stop()` of a scheduler without
`use_caller` that was not started has no thread to run anything, and changes nothing.

`m_threads` and `thrs` are sets: the order of joins does not matter, as
`join` of all is one step that waits for all. A data race on `Thread::m_id` is the
choice `ran` in `StartThread`.

### ConfigVar

A call is a record with its place. `setValue` is: compare under the read lock,
notify one listener per step, unlock, take the write lock and store. A listener may
throw (`Throws`), which leaves through `fromString`'s handler. `s_func_id` is
incremented, used and returned in three steps, since the lock of one variable does
not protect it from calls on another of the same type; whether the compiler reads it
again is a choice (`KeyRead`).

### Lexical, ConfigRegistry and ConfigTree

`Lexical` has an operator for each specialisation of `Lexical_cast`. A text is the
node that `YAML::Load` makes of it, or the empty text, which loads as a null node and
is what an empty container prints; a null node prints as `~`. `node.size()` counts the
members of a map and `node[i]` then finds none, so that a map given to a `vector`
makes empty elements; iterating a sequence as pairs throws; `insert` keeps the first
value of a key. These quirks are the code's, and `DumpReloads` holds with them.

`ConfigRegistry` has the flattened list of a document and the conversions as
parameters (`all_nodes`, `Lexical_cast`), so that its theorems hold for any; `ConfigTree`
has the code's, which are recursive, and the run puts them in. A load is judged twice:
`LoadInOrder` against the list, `LoadApplies` against the tree.

Names and keys are sequences of words, so that a key `a.b` and the key `b` under
`a` give the same name, as in the code. `ListAllMember` is the recursion of the
code; its reference definition (`Positions`, `Expected`) says without recursion
what a document says of a variable. The run uses `int` (a conversion that fails),
`vector<string>` (one that takes anything) and `unordered_map<string, set<int>>`
(one that throws halfway and nests).

### LogSystem

Clients go through the macro (`Gate`), `Logger::log` (level, `empty()`, the locked
loop, and the root logger), while a thread loads documents: `LoadAccepted` compares
as `setValue` does, then the listener works logger by logger (`ApplyLevel`,
`ApplyClear`, `ApplyAdd`), and the value is stored. A document is a list of nodes as
YAML has them, malformed ones included; `ToDefine` is the conversion with its
exceptions and its quirks, `DefineYaml`, `LoggerYaml` and `AppenderYaml` are the ways
back. An appender has a formatter, which the listener replaces only by one that is
not in error (`Built`).

### FileLogAppender

The stream is whether its buffer is open and whether it has failed, with
`close` and `open` as the standard defines them (external). The clock advances and
the file becomes available or not at any time.

### LogFormatter

The two nested loops as they are, a step per turn, with 1-based positions. `m_items`
is what the last loop of `init()` makes of the parts: an item shows a field of the
event, a literal text, or an error mark.

### Locks, LockedCalls, Thread and Program

The word of a lock (`held`, `readers`) does not know its holders. Who holds it follows
from the guards on the stacks of the threads (`guards[t]`, with `m_locked` each):
`Construct` is the constructor of a scoped lock, `GuardUnlock` its `unlock()`,
`Destruct` its destructor. What a thread has still to run is data (`code[t]`): a
sequence of steps that take a guard, unlock it, leave a block, branch, try and throw.
`Raise` unwinds: it puts the destructors of the guards above the innermost handler,
then the handler, in front. Taking the locks of a call in another way is therefore a
change of a constant, and the theorems, which hold for every constant `Calls`, are
about every such program.

`LockedCalls` writes the public calls in these steps: each function is an operator
that names the guards it takes and the functions it calls under them. Logging is
written out where it happens, as that is where the locks of the layers meet:

| rank | locks | taken under it |
|---|---|---|
| 0 | scheduler, registry | everything below (both log while locked) |
| 1 | the variable `logs`, other variables | the loggers (listeners log and set up) |
| 2 | the LoggerManager | loggers and appenders (`toYamlNode`) |
| 3 | the root logger, other loggers | their appenders |
| 4 | appenders | nothing: `%c` asks for the logger's name, which takes no lock |

`LockOrder` says that these ranks are kept.

`Thread` is the object, shared by its owner and the kernel thread that uses it through
a bare pointer. `Program` composes the two: the owner creates (which may fail, log and
throw), joins and drops objects; the callback of each thread makes calls. `Destroy` may come at
any time, as nothing in the class forbids it: the guarantee that a thread has started
before its constructor returns, which `todo.md:58` lists as done, does not exist. An owner
that minds this is the constant `OwnerWaits`: it drops an object only after `join()`, or when
it knows from the callback that it has begun. The only owners in the repository, the
tests and `Scheduler::stop()`, join. What `run()` does with a freed object is undefined and
not followed further.

## 3. Runs

Passing runs:

| Run | Instance | Shows |
|---|---|---|
| `scheduler_pool` | 2 workers, 2 fibers, 2 callbacks, pinning and READY yields | `FiberExclusive`: no fiber is in the hands of two threads; `TasksConserved`: no task is lost or run twice; `NoAbort`: no assertion fails; the inductive invariant `FiberInv` |
| `scheduler_live` | use_caller and 0 or 1 workers, pinning, fair | `ImplementsWorkPool`: callbacks are called once, between `start()` and the return of `stop()`, and none waits when it returns; `QuietExit`: threads leave only a drained pool, by the inductive `QuietInv`; `StopDrains`: `stop()` itself runs all that was scheduled; `StopReturns`; `TasksRun`: every task is run, every woken fiber resumed |
| `scheduler_misuse` | restarts and undisciplined callbacks, 1 worker at a time | `CountsExact`, `StoppedMeansJoined`, and the inductive invariants `CountInv` (which holds `TypeOK`) and `PoolInv` |
| `config_var` | 1 setter, 2 managers, 2 listeners that may throw | `TypeOK`, `ListenersAgree`, `KeyFindsListener`, `NotifyStable`, `CallsReturn` |
| `config_registry` | two-level documents over 3 keys with null, scalar, sequence and map nodes, 3 types, 2 threads | `LoadApplies`, `LoadInOrder`: a variable gets what the document, and its flattened list, say of it; `LookupAgrees`, `RegistryStable`; `DumpReloads`: a variable takes back what it prints |
| `log_config` | 7 documents, 3 loads, 2 events | `TypeOK`, `WrittenAsDesigned`, `LoggersMatchConfig`; `DumpReloads`: the YAML of `logs` and of the LoggerManager loads again |
| `file_reopen` | 2 threads, 6 seconds | `FreshStream`, `ReopenRecovers` |
| `log_pattern` | all patterns of up to 6 characters | `PositionsValid`, `RoundTrip`; `ErrorExact`: `isError()` is true exactly of patterns that write an error mark |
| `program` | an owner that waits (`OwnerWaits`) and 2 threads, one call each of all public calls, fair | `ImplementsExclusion`: every lock implements `Exclusion`; `LockOrder`, `NothingHeld`: locks nest in one order and none is leaked; `NoDeadlock`: the threads never all wait; `RunUsesObject`, `ReapedOnce`: no freed thread object is used, each thread is joined or detached once; `AllEnd`: everything comes to an end |

Runs that end in a violation, each a disagreement between the code and what the
repository says of it (`findings` in `PROJECT.json`):

| Run | Property | What happens |
|---|---|---|
| `scheduler_ready_pinned` | `StopReturns` | `run()` decrements `m_activeThreadCount` before it puts a READY fiber back; in between `stopping()` is true and a thread leaves; a task pinned to that thread then keeps `stop()` waiting for ever |
| `config_var_race` | `ListenersAgree` | two `setValue` notify in one order and store in the other |
| `log_change` | `DocumentApplies` | a document that changes only the appenders of a logger compares equal to the old one, and the logger keeps its old appenders |

Further behaviour the models follow and a reader may not expect. The passing runs
stay clear of it by their constants, and the hazards name the lines:

- A fiber that is in the list twice passes the EXEC test on two threads; the second
  fails the assertion of `swapIn` (hence `Disciplined` in `scheduler_pool`).
- A second `stop()` of a `use_caller` scheduler with work queued resumes the finished
  root fiber (hence `MaxStops` 1 with `UseCaller`).
- A pinned fiber that yields to READY is put back for any thread.
- With READY yields and pinning `QuietExit` and `StopDrains` fail too, by the window of
  `scheduler_ready_pinned`: between `--m_activeThreadCount` (184, 201) and
  `schedule(fiber)` (187, 203) a READY fiber is neither listed nor counted (hence
  `ReadyYields` FALSE in `scheduler_live`: only `scheduler_ready_pinned` meets this window
  with properties of `stop()`).
- `start()` may record -1 for a thread that has not stored its id.
- `s_func_id` is raced by `addListener` on two variables of one type (one variable in
  `config_var`).
- No two documents of `log_config` differ in the appenders of a logger alone (see
  `log_change`); an appender's `level` is read from the logger's node.
- Appenders cleared between `empty()` and the lock in `Logger::log`: the event is
  written by nobody, not by the root. `WrittenAsDesigned` leaves such events out.
- An owner that drops a `Thread` object before its thread has started leaves `run()` a
  dangling pointer, contrary to `todo.md:58` (hence `OwnerWaits` in `program`; with
  `OwnerWaits` FALSE the invariant `RunUsesObject` is violated by `OwnerCreate` and
  `OwnerDestroy` alone).
- `Thread::GetThis()` and `Thread::SetName()` in a callback use the object too, so an owner
  whose callbacks call them has to `join()`; `RunUsesObject` is about `run()` alone.
- `start()` that fails to create a thread leaves null pointers in `m_threads`.
- A listener that sets or listens to its own variable, or a callback of `Visit` that
  registers one, waits for itself (no call of `LockedCalls` does).
- After a failed write the file stream is not closed by `reopen()` and cannot be
  opened again (`WriteErrors` FALSE in `file_reopen`).
- Upper-case YAML keys are rejected before they are turned to lower case.
- The second character of `%%` in a pattern starts an item.

### Bounds

- Scheduler: two threads are what every race of the code needs (one that leaves or
  gives away a fiber, one that takes it or decides to stop). Two callbacks and two
  fibers allow a task that schedules another, a callback's fiber next to a
  scheduled one, and a reused `cb_fiber`. `MaxYields` 2 allows a fiber to hold and
  be woken; `MaxStops` 2 a restart. `Workers` is larger than
  `ThreadCount` where a restart needs new threads. The theorems have no bounds.
- ConfigVar: three values, so that two changes differ from the default and from
  each other; `MaxCalls` 2 and `MaxKey` 4, so that listeners are added, removed and
  added again.
- ConfigRegistry: two levels of maps, two entries at the first. Keys with a dot and in upper
  case, so that names collide and are cut off. Each thread makes one call, enough for
  two registrations at once, or one during a load or a visit.
- Program: two threads and an owner, one call each: a deadlock or a leaked lock needs
  two threads, and a call finds no more of an earlier call of its own thread than that
  all its locks are free (`NothingHeld`). A loop in a call is taken once or not at all,
  as each round leaves the locks as it found them. One lock stands for each kind.
- LogSystem: documents that add, change, drop, repeat and spoil loggers, in
  sequences of three.
- FileLogAppender: the clock starts at 3 (the first event must find `m_lastTime` 0
  old) and covers two reopenings.
- LogFormatter: two letters, one of them known, one other character, `%`, `{` and `}`;
  six characters hold an item with braces and text on both sides.

Symmetry is used over fibers, callbacks and workers in the Scheduler runs without
liveness; nothing in the model tells them apart.

### Fairness

- `Scheduler!Fairness`: weak fairness of each thread's own steps in `run()`, of the
  steps with which a callback leaves (return, throw, yield), and of a started
  `start()` or `stop()`. The operating system schedules every thread; threads in
  `idle` spin and never block; `m_mutex` is held for single steps, so weak fairness
  is enough. That callbacks come to an end is an assumption about programs. No
  fairness is assumed of scheduling new work, waking fibers or calling `stop()`.
- `ConfigVar!Fairness`: weak fairness of calls that have begun. The locks are held
  for bounded stretches and the number of calls is bounded, so a writer is not
  starved in the model. An `RWMutex` that prefers readers could starve one under
  endless reading; this is outside what the model says.
- `Program!FairSpec`: weak fairness of each thread. A thread that waits for a lock
  competes with a bounded number of acquisitions, so weak fairness is enough and no
  order among waiters is assumed. Callbacks that end are an assumption (`MaxCalls`).
- The other modules state safety only.

## 4. Proofs

Every theorem holds for all values of the constants that satisfy the module's named
assumption, and for what the theorem itself assumes. Those assumptions are about
clients, never about the code:

| Assumption | In | Why it is needed |
|---|---|---|
| `Disciplined` | `FibersKept`, `FibersExclusive`, `AssertionsHold`, `CallbacksConserved`, `StopDrained`, `KeepsPromise` | a fiber scheduled twice passes the EXEC test on two threads |
| `UseCaller => MaxStops <= 1` | `AssertionsHold` | a second `stop()` calls the finished root fiber |
| `~ReadyYields` | `QuietKept`, `LeavesWhenQuiet`, `StopDrained`, `KeepsPromise` | a READY fiber is for a moment neither listed nor counted |
| `OneCounts` | `KeysFindListeners` | `s_func_id` is protected by no lock: one variable of the type, or one thread that adds |
| `OneSetter` | `ListenersUpToDate` | run `config_var_race` |
| `PlainChanges` | `ValueApplied` | run `log_change`: two values of `logs` that compare equal are equal |
| `~WriteErrors` | `ReopenOpens` | a stream that failed while open is not closed |
| `OwnerWaits` | `ObjectOutlivesUse` | the constructor does not wait for its thread and `~Thread` detaches it: dropped before it has started, `run()` has a dangling pointer |
| `LibraryProgram` | `LibraryKeepsOrder`, `LibraryReleases`, `LibraryNeverStuck` | the program uses the locks and makes the public calls of this library (`LockedCalls`), as the run does |

### Scheduler

`SchedulerProofs` (no assumption on clients):

- `TypeCorrect` (`TypeOK`), `CountersCorrect` (`CountsExact`) and `CountsKept`, by the
  inductive invariant `CountInv`: the counters are natural numbers because
  each is the cardinality of a set of threads, and they are exact because every
  action moves one thread in or out of that set as it counts. Two facts make this
  inductive: a task in the list is never empty (`TasksNonEmpty`: otherwise a thread
  would take it, count itself, and run its idle fiber), and a thread without a task
  has an empty `ft` (`HandsEmpty`, the `ft.reset()` of each branch). `CallerInRoot`
  is needed where `stop()` enters the root fiber: the caller was not already counted.
- `WorkersKnown` (`PoolInv`) and `StopJoinsAll` (`StoppedMeansJoined`): a worker that is
  alive is in `m_threads` or in `stop()`'s `thrs`, and both are empty whenever the
  scheduler is stopped, which is also why the assertion in `start()` holds.

`SchedulerTaskProofs`:

- `FibersKept` (`FiberInv`) and `FibersExclusive` (`FiberExclusive`). `FiberExclusive` alone
  is not inductive: that two threads do not run one fiber depends on the list and on
  the spare fibers. `FiberInv` says that a fiber is held once, as task or as spare
  (`HeldOnce`); that it is one task of the list (`TasksDistinct`); that one which is in
  the list and still held is EXEC, on its way back to `run()` (`QueuedWhenLeaving`,
  what makes the EXEC test at line 163 enough); and which states a fiber has at which
  place, a spare one being empty (`HandsOrdered`).
- `AssertionsHold` (`NoAbort`): each assertion follows from `FiberInv` or `PoolInv`, the one
  of the root fiber from `RootFresh`.
- `QuietKept` (`QuietInv`) and `LeavesWhenQuiet` (`QuietExit`): from when a thread is told to
  leave, the pool is stopped, the list empty and no thread active, and it stays so,
  because only a running callback or the owner could add a task. It needs `CountInv`
  (`stopping()` reads the counter, the property is about threads) and `NoReady`.
- `CallbacksConserved` (`TasksConserved`): for each callback the places of the list that
  bring it, the threads that have it in hand, and the number of its calls add up to
  one. Each step keeps the sum by moving one element; `PlacesAppend` and
  `PlacesWithout` count the places of a list that grows or loses an element.
- `StopDrained` (`StopDrains`) combines these: where `stop()` returns, the threads it joined
  have left, so the pool is quiet; in a quiet pool nothing is listed or in hand, so
  each callback that was submitted was called.
- `KeepsPromise` (`ImplementsWorkPool`) is the refinement: the swap into a fiber that is
  INIT is `Call`, `schedule` is `Submit`, `start()` is `Start`, the step that begins `stop()`
  is `Stop`, its return is `Stopped`, and every other step changes nothing that `WorkPool`
  knows. A call needs a callback that waits (`TasksConserved`: what a thread has in hand
  has not been called) and a pool that is not stopped (`ThreadsOnlyWhile`, from `PoolInv`);
  a return of `stop()` needs that none waits (as in `StopDrained`). New is `StartInv`: a
  scheduler that was started has a worker, or its caller, to run tasks, and the root
  fiber runs only when the pool has been told to stop. Any number of stops and restarts
  is covered.

### Configuration

`ConfigVarProofs`: `ConfigTypes` (`TypeOK`) and `NotifyUndisturbed` (`NotifyStable`) by
`LockInv`, which says what the lock of a variable is held for at each place of a call.
`KeysFindListeners` (`KeyFindsListener`) by `KeyInv`: no key in use is above the counter,
and the thread in `addListener()` works on the last one. `ListenersUpToDate`
(`ListenersAgree`) by `ToldInv`: a listener has one key of one variable, and what it knows
is the stored value, or the one about to be stored by the setter that has passed it.

`ConfigRegistryProofs`: `RegistryGrows` (`RegistryStable`) and `LookupsAgree` (`LookupAgrees`)
by `RegInv`: a thread between the search and the insertion of `Lookup` is the only one
with the lock, so that the name it searched is still missing. `LoadFollowsList`
(`LoadInOrder`) by `LoadInv`: the nodes that are left are an end of the list, and
each old variable follows the nodes before it. It holds for any list and any
conversion: variables registered meanwhile, and conversions that throw, lose nothing
of the rest.

### Logging

`LogSystemProofs`: `LogTypesHold` (`TypeOK`); `DesignFollowed` (`WrittenAsDesigned`) by `WayInv`,
which says for each place of `log()` what it has established of its logger while no
logger changes; `ValueApplied` (`LoggersMatchConfig`) by `MatchInv`, which says for each
place of the listener which loggers already agree with the new value; `DumpReadsBack`
(`DumpReloads`) by `LevelInv`: an appender has the level of its logger. The conversion
takes an appender's level from the logger's node, so the YAML of a logger could not be
read back otherwise.

`LogFormatterProofs`: `PositionsAlwaysValid` (`PositionsValid`), for patterns of any length
over any alphabet, where `ParserInv` adds the types of the positions and that the inner
loop starts behind a `%`; `IsErrorExact` (`ErrorExact`), where `ErrorInv` adds that
`m_error` is set when a part is an error mark, and not before; `PatternKept`
(`RoundTrip`) by `RoundInv`: the parts and `nstr` are what lies before `i`, and `str` and
`fmt` what lies from `i` to `n`.

`FileLogAppenderProofs`: `StreamFresh` (`FreshStream`) by `FileInv`: `m_lastTime` is 0 or an
event time for which the file was reopened, even when a late thread stores an older
time. `ReopenOpens` (`ReopenRecovers`) by `StreamGood`: a stream that has failed is not open.

Loops over a sequence (the appenders of a logger, the parts of a pattern) are recursive
functions here (`Kept`, `Unparsed`). What they compute is shown without induction over
data: if it failed for some prefix there would be a shortest one (`Least`, `CountUp`,
`LeastNumber`, `CountUpTo`), and the step from the prefix before it contradicts that.

### Threads and locks

`ProgramProofs` holds for any threads, locks, order of locks and calls; only the three
theorems about the library fix the last three.

- `WordsAgree`: `LockInv` is inductive. The word of a lock says what the guards say
  together: `readers[l]` is the cardinality of the set of locked read guards on `l`,
  `held[l]` is true exactly when there is a locked write guard, there is at most one of
  those, and never both kinds. Every step either leaves the guards' holds alone, or
  adds one (`Takes`) or removes one (`GivesUp`); `EveryStep` sorts the steps. `HeldKind`
  is why an `unlock` that does not say what it unlocks gives up the right kind. Without
  `m_locked` in the guard (`GuardUnlockForgotten`) the cardinality would not follow.
- `GuardsExclude` (`ImplementsExclusion`) and `EachLockExcludes` are the refinement: with
  the guards as holders, every step is for every lock a step of `Exclusion` or a
  stutter. It needs `LockInv`: a word that is free has no holder.
- `CallsCompose`: calls may be judged one by one. The configuration of a thread is its
  code, guards and try blocks; a set of configurations is `Closed` when each, in its next
  step, takes only a lock ranked above all it has, gives up only what it has, ends with
  nothing, and stays in the set. If for every call alone there is such a set (`Safe`), every
  thread of the program is in their union at every step (a step of one
  thread changes no other's configuration: `WithinNext`), hence `LockOrder` and `NothingHeld`. For
  `NoDeadlock`, take of all the locks that threads wait for the one of highest rank: who
  holds it waits for none of that rank or below, and so for none, and can go on. That
  somebody holds it is `LockInv`: a word that is taken has a holder.
- `LibraryKeepsOrder`, `LibraryReleases` and `LibraryNeverStuck` show that each public call is
  `Safe`. `Does(c, r)` says that code c, begun with locks below rank r, ends as it began or
  throws; one lemma for each construct (a scope guard, a branch, try, throw, a sequence)
  builds it up, and the proofs of the calls follow the definitions of `LockedCalls`, from
  the appenders to the registry.
- `ObjectOutlivesUse` (`RunUsesObject`) and `HandleReapedOnce` (`ReapedOnce`) rest on
  `ThreadInv`, which ties handle, object, `m_cb` and the kernel thread's place together. Only
  the first assumes `OwnerWaits`; the second, like the theorems about locks, does not
  need it, but a program that drops an object too early has undefined behaviour, and
  then no theorem says anything of it.

### Only model-checked

- Liveness: `StopReturns`, `TasksRun`, `CallsReturn`, `AllEnd`, which need fairness.
- `LoadApplies` and `ConfigRegistry`'s `DumpReloads`: they are about `ListAllMember` and the
  conversions of nested containers, which are recursive over a tree and over a type.

## 5. Not modelled

- The text an item writes, `LogEvent::format`, `strftime` and its buffer. `toYamlString`
  is `toYamlNode` printed.
- Scalars other than `int` and `std::string`: they convert or throw in the same way.
- Torn reads of `m_val` in `getValue()`: undefined behaviour on data that is abstract
  here.
- The Windows branches, failures of the `ucontext`, lock and join calls, and of memory
  allocation.
- `Semaphore`, `try_lock()`, `lock()` of a scoped lock, and `delAppender()`: nothing in the
  repository calls them.
- Fibers without a scheduler: `swapIn()` and `swapOut()` use the main fiber of a
  scheduler through a pointer that is null without one, so `tests/test_fiber.cpp` cannot
  run as written. Reference counts of fibers, and with them the destructor.
- `server.cpp`: asio's accept loop and one fixed answer per connection.
- `backup/`: an old copy.

`CMakeLists.txt` builds the locks, logging, the configuration, `thread_posix`, the fibers
and tests. It does not build `server.cpp`, `backup/`, and `scheduler.cpp`, which moreover
includes a `hook.h` that is not in the repository; `thread/` is switched off there. They
are modelled, where they are, as they stand in the source.
- `util/`: no state that matters here.

## 6. Plan

1. Done: the scheduler with its fibers, the configuration variables, conversions and
   registry, the loggers, the file appender, the pattern parser; threads and locks, the
   composition of all locks in `Program`, the refinement of `Exclusion`.
2. Open: a failed `start()` in `Scheduler`; appender levels and formatters that change
   while they are used.
3. Done: theorems about every safety property the runs check, but for those listed as
   only model-checked.
4. Done: the work pool that `Scheduler` implements, with its proof; the calls of the
   library, proved to keep the order of the locks and never to get stuck.
5. Left out: an abstract variable with listeners for `ConfigVar` (with one setter, it would
   say again what `ListenersAgree` and `NotifyStable` say).
