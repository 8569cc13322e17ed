# A TLA+ development of cpp_utilities

`cpp_utilities` is a collection of mostly header-only C++ utilities with one
vendored library that the rest builds on (`tiny-process-library`). It has no
main program; its users are threads that call the classes. The code that is
hard to get right by testing is the code in which several threads, processes
or sessions meet, and a few parsers. This directory models that code in TLA+,
checks it with TLC and proves the safety of most of it with TLAPS.

1. Inventory: the parts of the system
2. Which module models what
3. The runs, their bounds and what they show
4. Fairness
5. What is proved
6. Where the code does less than one might expect
7. What is not modelled, and what comes next

## 1. Inventory

### Threads: `src/loop.hpp`

| part | state | operations |
|---|---|---|
| `Worker` | mutex `cvm`, condition variable `cv`, `Body` with its `Queue`, flags `_terminate`, `_terminated`, a thread | `run`, `run_here`, `wait`, `terminate`, `body`, `obtain_body` |
| `Loop` | `_workers`, the main callable | `run` |

`Loop::run` repeats: lock every worker's `cvm`, call the main callable with all
workers, unlock every `cvm`, `notify_one` every `cv`, `wait()` for each worker
in turn. A worker sleeps until its queue has something in it or it was told to
terminate, and hands the queue to its callable under `cvm`. The hard part: main
thread and worker sleep on the same condition variable and `notify_one` wakes
one of them, and `terminate()` writes its flag without the mutex.
Correct is: main callable and workers exclude each other; a round ends in a
barrier; no wakeup is lost; rounds go on; termination takes effect and is final.

### Locks of items: `src/item_lock.hpp`, `src/obtainable_item.hpp`

| part | state | operations |
|---|---|---|
| `item_lock` | `_mutexes` (what the destructor unlocks), the item | constructors with and without a mutex, `lock`, `try_lock`, `unlock`, destructor |

`obtainable_item` is an item with a mutex; the body of a `Worker` is one, and
`obtain_body` and `try_obtain_body` lock it with an `item_lock`. Hard: `_mutexes`
is filled by a `try_lock` that fails and not cleared by `unlock`, and the mutex
of the body is none of those that the worker itself takes.
Correct is: who was told to have a body has it alone; what is pushed into it is
worked on.

### Events: `src/events.hpp`

| part | state | operations |
|---|---|---|
| `ObjectEvent` | the list of callbacks | `+=`, `()`, copies and moves |

A callback may do anything to the event that calls it: subscribe, raise it
again, copy it, move it away, throw. Correct is: a raise calls what was
subscribed, once each and in order.

### Processes: `src/tiny-process-library`

| part | state | operations |
|---|---|---|
| `Process`, Unix | `data` (`id`, `exit_status`), `closed`, `close_mutex`, `stdin_mutex`, `stdin_fd`, `stdout_fd`, `stderr_fd`, the reader thread | `open`, `async_read`, `get_exit_status`, `try_get_exit_status`, `close_fds`, `write`, `close_stdin`, `kill`, `signal`, destructor |
| `Process`, Windows | the same with handles and two reader threads; `create_process_mutex` for all objects | the same |

A `Process` is used by several threads (one waits, one kills, one writes), by
its own reader thread, by the child, and by whatever the child leaves running,
which has inherited the pipes. Hard: pids and descriptors are reused by the
kernel; pipes are bounded; the end of a stream comes only when the last holder
of the write end has closed it; `open` has many ways to fail half-way; two
`open`s at a time inherit each other's descriptors.
Correct is: the status comes after all the output, is the child's, and comes at
all; nothing is used after it was closed; a signal reaches the child only; no
descriptor leaks, into the program or into a child, whatever fails.

### Clients of `Process`: `src/task.cpp`, `src/task.hpp`, `src/buffer.hpp`

`Task::execute` frames a parameter in a `_buffer` (a length, then the bytes),
runs a command with it on stdin, waits for the exit status and takes the
response out of stdout, or throws what is on stderr. Correct is: `execute`
ends, the response is complete, and it is read as it was framed.

### Requests: `src/http_endpoint.hpp`, `src/exceptions.rest.hpp`, `src/libcurl.hpp`

`HttpEndpoint` wraps a client's handler for restbed. State per request: the
response, `autosend`, an exception under way. `libcurl::request` is the other
side: a handle, a list of headers, a timeout, and a `Response` made of what came.
Correct is: a request gets an answer or restbed an exception, whatever throws at
whatever place; an error is sent last, with the code that was thrown; the call
of the client ends, frees its handle and tells what became of the request.

### Parsers and texts

* `src/cmd_line_parser.hpp` (Windows only): `Combine` joins `argv` to one line,
  `ParseArguments` and `ArgFromString` take it apart again, with hand-written
  index arithmetic. Correct is: a line is read as it is written.
* `src/string.hpp`: replace, templates, split. Correct is: what is replaced is
  what a definition without a cursor says, and pieces join to the text.
* `process_win.cpp` `join_arguments`, `process_unix.cpp` `open` and
  `portable_execvpe`: the arguments of a child as one line, the directory in a
  command of the shell, the search of `PATH`. Correct is: whoever reads the text
  finds in it what was put in.
* `src/libcurl.hpp` `Response`: the text of all headers made into a map.
* `src/crc32.hpp`: a checksum by a table, over a stream read in blocks. Correct
  is: it is the remainder of the polynomial, whatever the blocks.
* `src/sql.hpp`, `src/sqlpp.hpp`, `src/pqxx.hpp`: statement builders, of which
  `insert_json_into` marks the ends of values in the text and takes the marks out
  again, and `iterate_items`, which counts the rows once and reads them page by
  page while other sessions change the table. Correct is: a statement says the
  values it was given; rows are handled once and missed only for a reason.
* `src/portable_executable.hpp`: the imports of a Windows image, found by way of
  virtual addresses, and what `Kernel32` tells from them. Correct is: they are
  the imports of the file, and a file that ends too soon is refused.

### The rest

`type_registry.hpp`, `libsodium.hpp`, exceptions, logging and JSON, files,
environment, handles, Windows API, templates. See section 7.

How they interact: `Task` calls `Process`; `Process` calls back into its client
from the reader thread; `Loop` owns `Worker`s and calls the client's callables;
clients obtain the bodies of `Worker`s through `item_lock`; `HttpEndpoint` is
called back by restbed, for a request that `libcurl::request` may have made; an
event calls back whoever subscribed; the others are called and return.
`PROJECT.json` lists every part with its status, and every hazard at its line.

## 2. Which module models what

| module | models | how |
|---|---|---|
| `Worker` | `Worker` | the state of a set of workers; the steps of `_loop` (`Lock`, `Test`, `Park`, `Leave`, `Enter`, `Callable`, `Notify`); the steps of other threads' calls |
| `Loop` | `Loop::run` | extends `Worker` with the main thread (`mpc`, `mi`: the `for` statement it is in and its position), and a thread that calls `terminate()` |
| `Rounds` | what `Loop` promises | the abstract specification: turns of the main callable and of the workers |
| `ItemLock` | `item_lock` with one mutex | who holds each mutex, and what each object believes to |
| `WorkerPool` | workers without a `Loop` | extends `Worker` with clients that push, notify, wait and terminate, and that obtain bodies, by an instance of `ItemLock` |
| `Process` | `process_unix.cpp` without `open` | child, kernel, reader thread, and each member function as the steps of a caller |
| `ProcessClients` | threads with roles | extends `Process`: waiters, killers, writers; the reader's thread is one of them while it is in a callback |
| `Task` | `task.cpp` | extends `Process` with the one caller `Task` is, and the commands it may run |
| `ProcessOpen` | `open` on Unix | tables of descriptors of the program and of each child |
| `ProcessWinOpen`, `ProcessWin` | `process_win.cpp` | the handles of `open`; the life of a process |
| `HttpEndpoint` | one request in the endpoint | the handler, the catch blocks, what is sent, logged and thrown on |
| `HttpExchange` | `libcurl::request` to it | extends `HttpEndpoint` with the client, what libcurl allocates for it, and a connection that may fail or time out |
| `Events` | `ObjectEvent` | a stack of raises under way, and what their callbacks do to the lists |
| `CmdLine` | `cmd_line_parser.hpp` | pure operators: `ArgFromString`, `ParseArguments`, `Combined` |
| `Pagination` | `iterate_items` | with the statements of `sql.hpp` and other sessions; a row is stored at any free place, and the order may change by itself |
| `Strings`, `Frame` | `string.hpp`; the frames of `task.cpp` over `buffer.hpp` | pure operators |
| `CommandText` | `join_arguments`, the text of `open(command)`, `portable_execvpe` | pure operators, and the readers on the other side: the C runtime's `argv`, a word of the shell |
| `Headers` | `libcurl::Response` | pure operators over `Strings` |
| `Crc` | `crc32.hpp` | pure operators for words and bytes of any width, as sets of bits, and the division of polynomials |
| `Statements` | `where_in`, `Procedure::sql`, `insert_json_into` | pure operators over `Strings`, and a reader of what they give |
| `PortableExecutable` | `portable_executable.hpp` | files as sequences of structures, addresses modulo a small word; `Parsed`, `VirtualToRaw`, `FindSection`, `Kernel32` |
| `Algorithms` | | calls the pure operators of the modules before it with every argument of an instance |
| `LoopProofs`, `WorkerPoolProofs`, `ProcessProofs`, `ProcessWinProofs`, `HttpProofs`, `EventsAndPagesProofs`, `AlgorithmsProofs`, `StringsProofs` | | theorems about `Loop`; `WorkerPool`; `ProcessClients`, `Task` and `ProcessOpen`; `ProcessWin` and `ProcessWinOpen`; `HttpExchange`; `Events` and `Pagination`; `Frame`, `CommandText` and `Crc`, as `Algorithms` calls them; `Strings`, `Headers` and `Statements`, likewise |

`MC*.tla` give the constants their values, `*.cfg` are the runs. The definitions
keep the names of the functions they model, and the `map` of `PROJECT.json` has
the lines of each. Definitions whose comment begins with "Mutant:" are wrong
versions of the one below them, each as a plausible slip would have it: put in
its place they make the run report the property they are listed with. They are
no part of the model.

Conventions of all modules:

* One action is what a thread does between two places where another can see or
  change what it depends on. What happens under one mutex is one step unless it
  blocks or another thread reads the same variable without the mutex. The flags
  and handles that the code reads and writes without synchronisation
  (`_terminate`, `exit_status`, `data.handle`) have steps of their own, so that
  each order of the racing accesses is a behaviour.
* A mutex is the thread that holds it; a condition variable is the set of
  threads that sleep on it, with spurious wakeups; a pipe is the number of
  chunks in it and the set of processes that hold its ends.
* What a program finds in memory it does not own, or has not initialised, is
  any value (`after`, `slack`, `Uninitialised`, `Undefined`).
* Clients are as free as their interface lets them be: the main callable may
  push anything and terminate anybody, a handler may throw anything, a child may
  close its output, start a process, or end at any time.
* External code (the C++ library, the kernel, PostgreSQL, restbed, the
  command that is run) is modelled from how the code uses it and marked
  `external` in the `map`.

Composition: `Loop` and `WorkerPool` extend `Worker`; `WorkerPool` instantiates
`ItemLock` with its clients for the objects' holders and its workers' bodies for
the items; `ProcessClients` and `Task` extend `Process`, and `ProcessProofs` shows
that `Task` makes only calls that `ProcessClients` allows; `HttpExchange` extends
`HttpEndpoint`; `Loop` instantiates `Rounds` with `requested` for `_terminate`,
`stopped` for `_terminated` and `phase` for the place of the main thread;
`Algorithms` extends `Strings`, `Frame`, `CommandText`, `Headers`, `Crc`,
`CmdLine`, `Statements` and `PortableExecutable`.

## 3. The runs

| run | instance | distinct states | asks |
|---|---|---|---|
| `loop` | 2 workers, 2 items, main callable may throw | 47 805 | Does the round protocol hold? |
| `worker_pool` | 1 worker, 2 clients, 1 item, bodies | 39 260 | What is lost without the round protocol? |
| `process` | a waiter, a client that kills and writes, callbacks that do all this; stdout; child may leave a process; SIGPIPE ignored or not | 164 244 | Is a `Process` safe to share, and does it end? |
| `process_two_waiters` | 2 waiters | (violation) | Does each get the status? |
| `task` | request of 3, answer of 2, pipes of 1; four kinds of command; SIGPIPE ignored or not | 3 288 | Does `execute` end with the whole answer? |
| `process_open` | 2 processes, 12 descriptors, 4 of them in use | 10 012 | Who holds which descriptor? |
| `process_win_open` | 2 processes, stdin and stdout | 780 | Who holds which handle? |
| `process_win` | waiter, killer, writer; stdout; one grandchild | 27 948 | As `process`, on Windows |
| `http_exchange` | three codes, every outcome, a connection that fails at any time | 10 068 | What does a request get, and its client learn? |
| `algorithms` | one call each, see below | 55 983 | Do the functions compute what they should? |
| `events` | 2 events, 3 subscriptions, lists of 3, raises 2 deep | 54 561 | Which callbacks does a raise call? |
| `pagination` | up to 4 rows in 4 places, pages of 0 to 3, 2 changes, any order | 174 346 | Which rows are handled? |

**loop.** `MainExclusive`: no worker is in its callable, nor between
its test and its sleep, while the main callable runs. `Barrier`: when it starts
again, every queue is empty but those of terminated workers. `NoLostWakeup`:
whoever sleeps although what it waits for holds will be notified, and is the
only one asleep there, so that `notify_one` cannot wake the wrong one.
`ThrownWedges`: an exception of the main callable leaves every mutex
locked, and no worker does anything any more. `RoundsSpec`: all this implements
`Rounds`; with that, a terminated worker takes nothing out of its queue again
(`NoWorkAfterTermination`, which is proved). `RoundsGoOn` and `TerminateTakesEffect` are the liveness side: rounds
follow each other for ever, and a `terminate()` whose `notify_all` fell between
the worker's test and its sleep is made good by the next round. Two workers are
the smallest pool in which the main thread holds one mutex while it waits for
another, or has passed one worker while it waits for the next; the proofs cover
every number.

**worker_pool.** The same workers, used directly by clients who push under `cvm`,
or into a body they obtained. `SleepersWillBeWoken`: whoever sleeps although what
it waits for holds will be notified. `WorkIsDone`: what is pushed is worked on,
unless the worker leaves. `BodiesAreExclusive`: no two clients are told that they
have one body. History variables record the situations in which the code loses
this, and the properties say that there is no other: `contended`, a `notify_one`
met several sleepers; `missed`, the `notify_all` of `terminate()` came between
test and sleep; `raced`, a push in a body met a thread that has `cvm`, or another
that is about to push; `misused`, an object unlocked a mutex that it did not
hold. Two clients are needed for the first and the last, and to have two
threads push at once; one worker has all of it.

**process.** `StatusAfterOutput`: whoever is told a status while nobody else asks
for it is told the child's, and the callbacks have been given all output and the
end of each stream, and have returned. `NoUseAfterClose`: the reader has its
descriptors while it polls and calls back, a `write` has stdin while it blocks.
`SignalsReachTheChild`: a signal goes to a reused pid only in the window between
`waitpid` and `closed = true`. `StatusCallsReturn`: calls return once the child
and what it has left have ended, though a callback, which the call waits for,
waits for a mutex or for room in a pipe; unless the program ends because a
callback waits for its own thread or, where SIGPIPE has its default action,
because a thread writes what nobody reads any more (section 6). What the program
does on SIGPIPE is chosen at the beginning (`sigpipe`), as nothing in the library
sets it: with the default, such a write ends the program (`WriteSignalled`); in a
program that ignores it, the write fails (`WriteReturns`). Pipes of one chunk and writes of
two make every write block. The interleavings of more than one stream are in
`task`.

**process_two_waiters.** `process.hpp:135` says "Wait until process is finished,
and return exit status." Of two threads that call it, the second gets ECHILD as
soon as the first has reaped the child and is told -1 if the first has not
stored the status yet.

**task.** `ResponseIsComplete`: a response is all of stdout, and a command that
fails, and no other, makes `execute` throw, with all of stderr. `ExecuteEnds`:
with requests and answers larger than the pipes nobody waits for ever, provided
the command does not read stdin to its end (section 6). For a command that fails
without reading its request this needs a program that ignores SIGPIPE; in another
one the write may end the program instead of `execute` throwing.

**process_open.** Twelve descriptors for two processes that need six each, with
four in use: one `open` fits, a second fails at each of its pipes in turn.
`EndsAreHeldByTheirOwners`: of the pipes, the program holds the near ends of
processes that are open and no other, a running child its far ends in the places
of its standard streams and no other, and the files the program had before are
untouched. `WriteGoesToStdin`: a descriptor number that was closed and reused is
not written to. `StreamsEnd`: a stream ends with its child, whatever its siblings
do.

**process_win_open, process_win.** `NoChildHoldsNearEnds`: `create_process_mutex`
keeps the program's ends out of the other child. `NoHandleLeak`: every `Handle`
closes what it should on every path. The three of `process_win` are those of
`process`; `StatusAfterOutput` includes that the status is the child's, and the
fairness includes that what the child has started ends.

**http_exchange.** `NothingIsDropped`: what a handler throws reaches the client
of the request or restbed, a `service_error` whose text can be printed with its
code. `ErrorsComeLast`: no answer follows an error, none is sent that the handler
kept back, a second one is sent only if logging the first failed; the first
response carries the `Content-Length` of its body, unless the handler had set
one. `ClientLearnsTheOutcome`: the client gets the answer of a handler that
returned, or an error for one that threw, with its code, and frees its handle on
the ways on which it lives on. `RequestEnds`: the call of the client ends even
if the handler never does.

**algorithms.** Each state is one call. Texts of up to five characters;
parameters of up to three bytes; arguments of up to five characters, PATHs of
up to six; lines of up to six characters and up to two flags with parameters;
two rows of two columns; images of up to two imports with up to three thunks,
whole and cut off at every place; words of four bits.

* `TextsAreRewritten`: `string_replace_all` and, for templates that do not disturb
  each other, `string_replace_all_templates` agree with a replacement of all
  occurrences at once; the pieces of `string_split` join to the text.
* `EchoComesBack`: a frame that is sent back is read as it was made, also when it
  breaks off behind the length. `size_t` has two bytes of two values: what
  matters is that its width is more than one and that lengths fit.
* `QuotedIsRead`: the line of `join_arguments`, read by the rules of the C runtime,
  gives the arguments back, of every text of spaces, quotes, backslashes and a
  letter up to a length that has runs of two backslashes between all of them;
  the path of a shell command is read as one word.
* `TheFirstIsRun`: PATH is searched in order, past what may not be executed, which
  is reported if nothing was found.
* `HeadersAreRead`: the map has the headers that were sent, the last of several
  with one name, values with colons whole.
* `SumOfBlocks`: the checksum is the remainder of the polynomial `x^4 + x + 1`
  for streams of up to four bytes of two bits, which are more than the word
  holds, in blocks of one to three.
* `LinesAreRead`: lines without the shapes of section 6 are read as an independent
  definition (`Words`, `Grouped`) reads them; of any line that is accepted and
  does not begin with a space, no character but spaces and quotes is lost or
  moved. Six characters hold every pair of the shapes the parser distinguishes: a
  flag with a quoted parameter, two flags, trailing spaces, a dash in quotes.
* `RoundTrip`: a parameter for each flag survives `Combine` and `ParseArguments`,
  and the combined line fits its buffer.
* `StatementsSayTheValues`: a reader of SQL finds the values of a list and of a
  call between the quotes, and those of rows, without percent signs, commas and
  parentheses, in their rows and columns.
* `ImportsAreRead`: the imports of an image are read as a definition that lays the
  file out has them, wherever its sections are; a file that ends too soon is
  refused unless only a text is missing; `Kernel32` tells what the imports say; the
  first section of a name is found, unless an earlier one has a longer name that
  begins with it.

**events.** `CalledInTurn`: a raise has called what was subscribed when it began
and then what was subscribed meanwhile, each once and in order, whatever nested
raises, copies and moves its callbacks made. Two events can take each other's
list; a raise within a raise is the smallest nesting, and three subscriptions
allow one before, one during the outer and one during the inner raise.

**pagination.** The statements have no `order by`, so PostgreSQL promises no
order. `Reorder` lets it change at any time, without a change of rows, as a
scan that starts where another one is, or a vacuum, may do; inserts and updates
put a row at any place that is free, before or behind the others.
`PagesCoverTheTable` says what is left. Whatever the order: only rows that match
are handled; the handler is called no more often than there were rows, those
inserted meanwhile included, and at least as often as there are rows that were
counted and left untouched, so that a row is missed only if another call was for
a row that came twice or that others have touched. While the order stays: of the
rows left untouched, at most as many are missed, and at most as many come twice,
as there were changes. An insert into freed space can do both, which is
why no kind of change is excepted. Two changes in a table of four rows, with
pages of one, move a row past a page and back. What happens before the rows are
counted is the choice of the table at the beginning. The rows that the condition
does not tell apart are symmetric.

Bounds: `MaxOut`, `MaxWrite`, `PipeSize`, `Request` (chunks), `Limit`, `FdMax`
(descriptors), `MaxChanges` (of other sessions), `MaxSubscriptions`, `MaxLength`
(of lists), `MaxDepth` (of raises) and `AddressBits` are in guards or in the sets
of the MC modules. None cuts a behaviour short that matters: pipes are smaller
than what goes through them, tables smaller than what is opened, addresses wrap
around, and rounds are unbounded. `CHECK_DEADLOCK FALSE` stands where the system
really stops: an object is destroyed, a task done, a request answered, no
subscription left. `loop` and `worker_pool` check for deadlock.

No run checks a type invariant. `TypeOK` is proved for `Loop`, `WorkerPool`,
`ProcessClients`, `Task`, `ProcessOpen`, `ProcessWin`, `ProcessWinOpen`,
`HttpExchange`, `Events` and `Pagination`; the other modules state it as documentation of their variables.

## 4. Fairness

* `Loop`, `WorkerPool`: threads run (weak fairness of their steps), callables
  return, and a thread that asks for a mutex that is free again and again gets
  it (strong fairness of the steps that acquire). Without the latter a worker
  that relocks at once could starve the main thread, which `std::mutex` permits
  but no scheduler does for ever. Nothing is assumed of the thread that calls
  `terminate()`: its notification may never come. Spurious wakeups are possible
  and never assumed.
* `Process`: callers proceed and get mutexes, the reader reads, a callback does
  not go on for ever to make calls, `poll` is not interrupted for ever, the child
  ends. Nothing is assumed of descendants:
  `StatusCallsReturn` is conditional on their end.
* `ProcessWin`: the same, and descendants end.
* `ProcessOpen`: `open` and the child's half of it run; programs may run for ever.
* `Task`: the program's threads and the command run.
* `HttpExchange`: the client's thread runs, and its timeout expires. Nothing is
  assumed of the network or of the endpoint, whose handler may take for ever.
* The remaining modules state safety only and have no fairness.

## 5. What is proved

Eight modules hold proofs. All but `AlgorithmsProofs` and `StringsProofs` prove, for each module they
are about, an inductive invariant `IInv` (theorem `Invariance`) and type
correctness (`TypeCorrect`; with a prefix, `Task`, `Open` or `Iter`, for the
second and the third module), and of the safety properties of its runs those in the table,
for every value of the constants under the named assumptions of the modules:
threads have different names, no thread's name means "nobody", bounds are
numbers, and what is said below.

| module | theorem | says |
|---|---|---|
| `LoopProofs` | `MutualExclusion` | `Spec => []MainExclusive` |
| | `BarrierHolds` | `Spec => []Barrier` |
| | `WakeupsArrive` | `Spec => []NoLostWakeup` |
| | `NothingAfterTermination` | `Spec => NoWorkAfterTermination` |
| | `ExceptionWedges` | `Spec => ThrownWedges` |
| | `Refinement` | `Spec => RoundsSpec`: `Loop` implements `Rounds` |
| `WorkerPoolProofs` | `NobodyOversleeps` | `Spec => []SleepersWillBeWoken` |
| | `BodyIsHadAlone` | `Spec => []BodiesAreExclusive` |
| `ProcessProofs` | `DescriptorsAreOpen` | `Spec => []NoUseAfterClose` |
| | `NoSignalGoesAstray` | `Spec => SignalsReachTheChild` |
| | `StatusComesLast` | `Spec => []StatusAfterOutput` |
| | `TaskIsAClient` | `TaskSpec => Spec` of `ProcessClients` |
| | `ResponsesAreComplete` | `TaskSpec => []ResponseIsComplete` |
| | `NoEndIsLeaked` | `OpenSpec => []ProgramHoldsItsEnds` |
| | `WritesReachTheChild` | `OpenSpec => []WriteGoesToStdin` |
| | `OwnersHoldTheEnds` | `Ordinary => (OpenSpec => []EndsAreHeldByTheirOwners)` |
| `ProcessWinProofs` | `HandlesAreOpen` | `Spec => []NoUseAfterClose` |
| | `StatusComesLast` | `Spec => []StatusAfterOutput`, with one waiter |
| | `ChildrenGetFarEndsOnly` | `Spec => []NoChildHoldsNearEnds` |
| | `HandlesAreClosed` | `Spec => []NoHandleLeak` |
| `HttpProofs` | `NoRequestIsDropped` | `ExchangeSpec => []NothingIsDropped` |
| | `NothingFollowsAnError` | `ExchangeSpec => []ErrorsComeLast` |
| | `OutcomeIsLearnt` | `ExchangeSpec => []ClientLearnsTheOutcome` |
| `EventsAndPagesProofs` | `RaisesCallInTurn` | `Spec => []CalledInTurn` |
| | `PagesCover` | `IterSpec => []PagesCoverTheTable` |
| `AlgorithmsProofs` | `SearchCorrect` | `Spec => []TheFirstIsRun` |
| | `ChecksumCorrect` | `Spec => []SumOfBlocks` |
| | `EchoCorrect` | `Spec => []EchoComesBack` |
| | `ArgumentsCorrect` | `Spec => []QuotedIsRead` |
| `StringsProofs` | `TextsCorrect` | `Spec => []TextsAreRewritten` |
| | `HeadersCorrect` | `Spec => []HeadersAreRead` |
| | `StatementsCorrect` | `Spec => []StatementsSayTheValues` |

In the modules with an invariant one lemma for each action, or group of actions that touch the same
variables, shows that it keeps each conjunct of the invariant; `IInvInit` and
`IInvNext` put them together. What the invariants add to the properties:

**Loop** (any number of workers, any items). None of the properties is
inductive: `Barrier` speaks of one place of the main thread and says nothing of
how it got there.

* `ControlInv`: the `for` statements begin at the first worker;
* `MutexInv`: who holds a `cvm` is determined by where the threads are;
* `ParkedInv`: who may sleep on a `cv`, and where it is in its code then;
* `FlagInv`: `_terminated` is set on the way out only, after `_terminate`, and a
  callable is never entered with an empty queue;
* `PassedInv`: the barrier, half-way: the workers waited for already are idle;
* `WakeupInv`: what a thread tested under `cvm` still holds when it falls
  asleep, and who changes it for a sleeper notifies afterwards.

`NoLostWakeup` follows from `ParkedInv` and `WakeupInv`, because the main thread
and a worker are never asleep on the same `cv` when it matters. The refinement
maps the `MainLock` of the last worker to `Synchronise`, where `PassedInv` gives
its guard, the callables to `MainTurn` and `Work`, `Leave` to `Stop`, and all
else to a stutter.

**WorkerPool** (any workers and clients). `MutexInv` and `ParkedInv` as for
`Loop`, and `TestedInv`: what a thread has found before it goes to sleep still
holds, but for pushes in a body and for the flag of `terminate()`. A
`notify_one` that meets one sleeper at most leaves nobody asleep (`OneSleeper`):
this counts, so `ParkedInv` also says that finitely many sleep.

**Process** (any callers, streams and bounds; `ProcessWin` in the same way).

* `StreamInv`: a stream is read until it has ended, and closed once;
* `CloserInv`: who is past the join of the reader finds that it has ended;
* `LockInv`: `kill` and `write` hold their mutex, under which they have looked;
* `WaiterInv`, `ChildInv`: only waiters reap; between that and `closed = true`
  one of them is on its way.

`StatusComesLast` adds `StatusInv`: the status is stored once, after somebody has
collected the child; that somebody goes on asking, or was told (`AskingLasts`), so
that who asks alone finds what it has stored itself. Of two that ask at a time one
may get -1, as `process_two_waiters` shows. On Windows, where one waiter is assumed,
`HandleInv` says that the handle is open until a waiter closes it, and the end of
a stream rests on the child having its outputs while it runs.

**Task** (requests, answers and pipes of any size). `TaskNext` is a step of
`ProcessClients`, or none, with the caller for its one waiter and one writer, so
that all of `ProcessProofs` holds of it. On top: `CallInv`, where the caller is
in `execute`; `RequestInv`, no more of the request is read than was written;
`CommandInv`, the status tells whether the command failed.

**ProcessOpen** (any number of processes, any streams, any table of descriptors
to begin with and any limit). `TableInv` is one equivalence: an end of a pipe is
in the program's table, at the number that `open` has for it and at no other, if
and only if it is between the `pipe` that made it and the `close` that is for it
(`Live`). Numbers are reused, and `open` remembers those it has closed; that each
`close` hits the end it is meant for (`ClosingNumbers`) follows from this equivalence,
as does that a new pipe overwrites nothing: `pipe` takes the two least free
numbers, which is where the least elements of sets of numbers come in
(`LeastNatural`, by well-foundedness). `OwnInv` says the same of the files the
program had; `NearInv` and `StrayInv`, what the object writes to.
`ProgramHoldsItsEnds` and `WriteGoesToStdin` follow without any condition on how
the program was started. What the children hold needs `Ordinary`: descriptors 0,
1 and 2 are in use, inheritance is off, and no number is beyond what the child's
loop closes. Without the first or the third the code does otherwise (section 6),
and with inheritance a child has whatever was open. `SetUpInv` then follows the
child through `dup2` and `close`: the copy of the table it got at `fork` still
has each end at its number, since no pipe of its own is at 0, 1 or 2.

**ProcessWinOpen** (any number of processes). `MutexInv`, `ChildInv` and
`TodoInv` say where an `open` is; `EndInv`, which ends of its pipes the program
and its `Handle`s hold there; `OwnedInv`, that no `Handle` closes an end of
another; `InheritInv`, that a near end is inheritable only between the two calls
that make it, or when the second or a later one failed: only ends of pipes that
nobody uses can get into another child.

**HttpExchange** (any codes). `ServerInv` says for each place of the endpoint
what was sent and what is under way; `ClientInv`, that the answer which the
client has is one it could still get, as an endpoint takes nothing back.

**Events** (any events, any length and nesting). `RaiseInv`: a raise has called
the list it is in up to where it is, and that list has only grown since.

**Pagination** (tables and pages of any size, any number of changes, any order).
The numbers of the rows in a result are those from one to its length
(`NumbersFill`, as an injection between sets of one size), so that a page is as
long as what is left of the result, up to its size (`FirstCount`, `PageCount`).
`CallsInv` follows for any order: until a page comes up short the handler has
been called once for each number read, and when one does, there were no more
rows. The other two speak of a table whose order stays. A change puts, takes or
moves one row, so the number of any other changes by one at most (`ShiftByOne`),
and at most one row, that with the last number read or the one behind it, goes
over the border between what was read and what was not (`JoinedByOne`).
`PassedInv`: the rows that were not handled although their number was read are
no more than the changes, and with the length of the table they are no more than
the rows counted and the changes, which is what bounds the rows that lie behind
the last page. `AgainInv`: the rows that were handled once more than their number
was read are no more than the changes. Reading a page adds to neither.

**Algorithms** (arguments of any length). A state of `Algorithms` is one call with
what it returned, so that its properties speak of the functions alone, and the
invariant is the property. The work is in what the folds and the recursive
functions compute. The library's induction theorems take a property as a
parameter, which the provers cannot instantiate; here a property is a set of
numbers (`Induction`, `Descent`, from the well-foundedness of `<`). A recursive
function is a `CHOOSE`, so `FoldExists` and `DescentExists` first show that there
is one to choose, and `FoldSteps` and `FoldTrace` that a fold goes from each
value to the next; then each fold has one lemma with what it goes through.

* `SearchCorrect` (any `PATH`, any limit of a path's length, any outcomes): the
  pieces of `string_split` are the directories that `portable_execvpe` cuts out
  of `PATH` itself (`DirectoriesAreSplit`), and the search stands, before each
  directory, at what its predecessors make of it (`SearchFinds`).
* `ChecksumCorrect` (words and bytes of any width, any polynomial of a word's
  degree that has a constant term, any stream, blocks of any size): after each
  byte the register is what the division of the whole message has left in the
  places behind those divided (`ComputeDivides`), because the table has for each
  byte what the division makes of it in as many steps as it has bits
  (`ByteDivided`), and the bits further on are not touched yet
  (`AllUntouched`). Blocks only cut the stream (`BlocksCover`).
* `EchoCorrect` (sizes of any width over any number of values of a byte): the
  digits of a number below `Weight[Width + 1]` give it back (`SizesAreDecoded`),
  and what `push` leaves in the buffer is the size and then the bytes (`Framed`).
* `ArgumentsCorrect` (any number of arguments over any characters). `Reads(s, t, u)`
  says that the reader of the C runtime goes from `s` over the text `t` to `u`; it
  composes (`ReadsOn`). A run of backslashes is counted (`ReadsBackslashes`) and
  halved at a quote, so what `join_arguments` doubles before quotes comes back
  single (`QuotedReads`, by `Descent` over the places of the argument at which
  its loop stands); one that is not quoted has no quote and no space
  (`RawReads`); the first is read by the rules for the program's name, without
  escapes (`NameReads`), hence the conditions on it. For the shell, the
  apostrophe that begins a path, and the way around each apostrophe in it, leave
  the reader where it takes the next character as it is (`InsideNext`, `CdIsRead`).

**Texts, headers and statements** (`StringsProofs`; any characters). `find` goes from one
place to the next, and so do the arguments: where a place is first in a text,
what is before it is settled and the rest is rewritten as if it were alone
(`SplitAt`, `ReplacedAt`); where no place begins, the text stays
(`ReplacedBehind`).

* `HeadersCorrect` (any lines, keys and values without CR and LF, keys without a
  colon and not beginning with a space, as HTTP has them): the text that libcurl
  passes on is made of pieces that contain neither delimiter, so the line feeds
  come out alone (`SentBecomes`) and the lines are cut where they were joined
  (`PlainIsCut`); of a line, the key is what is before its first colon. The map
  keeps the last of each key. Behind an interim answer there is an empty line
  among the others, which has no colon: the split has one piece, and the access
  to its second ends the program.
* `TextsCorrect` (any text; keys and delimiters that are not empty). A text with
  a key in it has a first one (`FirstKey`): the earliest, and of those at one
  place the first in the list. Both sides of the property replace that one and go
  on with the rest: `AtOnce` because nothing that is replaced in the rest depends
  on what is before it (`AtOnceFirst`, by way of the folds `Until` and `Made`), the
  templates one after the other because the values have no character of a key
  (`Apart`): what a template puts in is no part of a key of the next
  (`Foreign`), and a key that seems to come about where two texts meet was there
  before (`Origin`, `TemplatesBehind`). The two then agree by induction over the
  length of the text (`TextInduction`). A split needs no condition: each piece
  ends where the delimiter is first behind the one before (`SplitIsCut`).
* `StatementsCorrect` (any columns, but at least one, any rows and any values,
  without percent signs, commas and parentheses in rows and in the first column,
  and without quotes in lists). `insert_json_into` writes marks around columns, values and rows, and
  takes them out again by three replacements over the whole statement, twice.
  `Cleans` relates a text to what each of the three makes of it; it goes over to
  texts one behind the other (`CleansBoth`) only where no mark comes about at
  their border. Between two values one does, which is how commas are made: from
  left to right `%e%` is followed by the `%b%` of the next value
  (`CleansMarked`), and the last `%e%` stays alone, as what follows begins with
  no character of a mark (`MarkStays`). A row is such a text within another one
  (`RowCleans`), and its parentheses keep the marks of its values from those of
  the row. What is left is cut at the parentheses, the commas or the quotes like
  the lines of headers (`RowsAreRead`, `QuotedAreRead`).

Only model-checked: all liveness (`RoundsGoOn`, `TerminateTakesEffect`,
`WorkIsDone`, `StatusCallsReturn`, `ExecuteEnds`, `StreamsEnd`, `RequestEnds`),
as fairness and `ENABLED` are beyond the prover; and of `Algorithms`
`LinesAreRead`, `RoundTrip` and `ImportsAreRead`: each compares a function with a
definition that reads its result in quite another way, and would need lemmas
of its own on both sides.

## 6. Where the code does less than one might expect

The passing properties state their conditions. What lies outside of them is what
the code does and the models show when a condition is dropped:

* `Worker::terminate()` writes `_terminate` without `cvm`
  (`loop.hpp:128`): without a `Loop`, a worker may sleep through it.
* `notify_one` after the callable (`loop.hpp:87`) may wake another sleeper than
  the one it is for, once two threads wait for one worker.
* An exception of the main callable leaves every `cvm` locked (`loop.hpp:225`).
* `kill` and `signal` may hit a reused pid between `waitpid` and `closed = true`
  (`process_unix.cpp:395`).
* A read callback that collects the child, or destroys the object, joins its own
  thread: `close_fds` does not let the exception out, and the program ends
  (`process_unix.cpp:437`).
* Nothing ignores or blocks SIGPIPE: a `write` to a child that has closed its
  stdin, or has ended, while some of it was left to write, ends the program unless
  the program has arranged otherwise (`process_unix.cpp:461`). So may a request of
  `Task` whose command fails without reading it, in place of an `execution_error`.
* The status, even that of `try_get_exit_status`, waits for whatever the child
  has left behind with its stdout open (`process_unix.cpp:437`).
* `Task` keeps stdin open while it waits (`task.cpp:39`): a command that reads
  to the end of its input never ends.
* With descriptor 0, 1 or 2 closed in the program, `pipe` returns those numbers
  and the child closes what it has just duplicated (`process_unix.cpp:168`);
  descriptors from 8192 on are inherited (`process_unix.cpp:189`).
* `write` on a process that could not be opened uses an uninitialised descriptor
  (`process_unix.cpp:458`).
* On Windows the far ends stay inheritable after `create_process_mutex` is
  released; two waiters may get -1 there too; the destructor of an object whose
  status nobody asked for does not close the process handle.
* `item_lock::try_lock` remembers the mutex whether it got it or not, and `unlock`
  does not forget it (`item_lock.hpp:67`): the destructor of such an object
  unlocks a mutex that another may hold.
* `obtain_body` does not keep the worker from its queue (`loop.hpp:111`): a push
  under it races with the worker and with pushes under `cvm`.
* Assigning to an event while it is raised destroys the list that is being gone
  through, and a raise whose list was moved away runs past its end: undefined
  behaviour (`events.hpp:69`). The `sender` of `ObjectEvent` is a reference made
  of the pointer itself.
* The text of an error that is no valid UTF-8 makes the error handler throw, and
  no response is sent (`http_endpoint.hpp:182`). `throw ex` passes on a copy
  without the code and the text of what was caught (`http_endpoint.hpp:195`).
* The command line parser refuses or misreads: a line that begins with a space;
  a space in quotes, which adds an empty parameter; two spaces after a flag,
  of which one stays in the prefix; a last word of one character; a line of free
  parameters only, which ends the program by an exception in a constructor. Its
  strings end one byte past their buffers: the runs take that byte to be zero
  (`Slack`). The lookup of a flag compares one character, so that it finds the
  first flag whichever it is asked for.
* An answer with more than one block of headers (an interim one, or that of a
  proxy, before it; redirections are not followed) has a line without a colon, for
  which `parse_header` executes `throw` with no exception under way: the program
  ends (`libcurl.hpp:84`). Headers without any line are undefined behaviour
  (`libcurl.hpp:101`).
* The list of headers of a request is never freed (`libcurl.hpp:143`). A client may
  get the answer of its request while an error is logged, and sent to nobody.
* `insert_json_into` names only the first column, as the placeholder is gone
  then (`sqlpp.hpp:185`); constructs an exception for empty items and does not
  throw it; inserts values as JSON, "default" with its quotes; and loses marks
  that a value contains.
* `find_section` compares as many characters as the name asked for has: a section
  whose name begins with it is found as well. A file that ends in a text is not
  refused. `Kernel32` throws if a function of kernel32 is imported by its ordinal.
* A directory without a name in `PATH` means `/` to `portable_execvpe`
  (`process_unix.cpp:68`), and the current directory to POSIX; one behind a
  colon at the end is not tried. If all directories are too long, `errno` is what
  it was before.
* The program's name is quoted like an argument (`process_win.cpp:62`), but the C
  runtime reads it without escapes: a name with quotes, or with spaces and a
  backslash at its end, is read differently.
* Empty patterns never end `string_replace_all` and `string_split`, and a page
  of no rows never ends `iterate_items`.
* `select_page` has no `order by` (`sql.hpp:26`): if the database returns the rows
  in another order for the next page, any number of rows come twice and as many
  are missed, though nothing has changed.
* `extract_response` believes the length it gets, and an answer of no bytes is
  undefined behaviour (`task.cpp:65`).

## 7. What is not modelled, and what comes next

Not modelled because there is nothing to interleave and little to relate: the
exception classes, logging and JSON (formatting), `libsodium.hpp` (the library's
cryptography with buffers of fixed sizes), `type_registry.hpp` (a list that is
filled once and searched in order), files, environment, handles and the Windows
API (one system call each), templates and type aliases (compile time).

Not modelled because it does not compile where it is used: unsubscribing from an
event (`std::function` has no `==`), the plain `Event`, `item_lock` over several
mutexes (a pack that is not expanded), `sql_insert`. `obtain_body` and
`try_obtain_body` dereference the `Mutex` of the body (`loop.hpp:111`), which is a
`std::mutex` in `WorkerBody` (`loop.hpp:39`): they do not compile for a worker with
that body. `WorkerPool` models them for a body whose `Mutex` is a pointer to
one; an `item_lock` constructed with the mutex of a `WorkerBody` does the same.

Left out of modelled parts: a `Process` whose child could not be started, in
`Process` (it is in `ProcessOpen`); the static `kill(id)`, which has no object;
calls made by read callbacks on Windows (they are in `Process`); the environment
given to a child and the options for flatpak; `Worker::run_here` and the
construction of worker contexts; `read_bytes` and `read_cstring` of
`PortableExecutable`, which nothing calls; the macros of `sqlpp.hpp`, whose tables
are generated elsewhere.

What could come next: read callbacks in `ProcessWin`.
