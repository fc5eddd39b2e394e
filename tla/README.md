# bitz-server: a verification project

bitz-server is a pre-forking ICAP server. One *manager* process accepts no
connections itself: it forks `max_workers` worker processes that all accept on
the same listening socket, reaps the ones that die, forks new ones, and ends
them all when it is told to. A *worker* serves one client at a time; it reads
REQMOD and RESPMOD requests, asks the configured *modifier modules* (shared
objects such as `echo` and `modpy`) what to do with them, and answers. After
`max_worker_requests` requests it exits and is replaced.

This directory holds TLA+ models of the parts of that system in which order
matters, the TLC configurations that check them on small instances, and TLAPS
proofs of what holds for every value of the constants. Paths of the code are
given from the root of the repository.

## Inventory

| component | state | operations | talks to |
|---|---|---|---|
| server (`src/bitz-server.cpp`) | `globals`: manager pointer, `terminating`, pid file; signal dispositions and mask | start, run, the handlers of SIGCHLD and of SIGTERM, SIGQUIT, SIGINT, shutdown, daemonize, read_options | the kernel (signals, masks), Manager |
| manager (`src/bitz/manager.cpp`) | `worker_pool[]`, `workers_count`, `max_workers`, the listening socket, `worker` flag | spawn, spawn_worker, manage_workers, reap_worker, shutdown, destructor | fork, kill, worker processes; called by the run loop *and* by the handlers |
| worker (`src/bitz/worker.cpp`) | request budget, the connection | run, serve_client | client socket, request handlers |
| request handlers (`src/bitz/*request_handler.cpp`) | table of loaded modules | process, process_preview, process_modify, preview_continue, load_modules, cleanup_modules | ICAP library, modules |
| ICAP library, reading (`lib/icap/util.cpp`) | the socket stream | read_line, read_req_header, read_req_data, read_chunk, read_chunked_payload, read_req_continue_data | socket stream |
| ICAP library, writing | the socket stream | send_response, send_headers, send_chunked | socket stream |
| ICAP headers (`lib/icap/header.cpp`, `request*.cpp`, `response*.cpp`) | headers, offsets of the encapsulated entities, payload | attach, update_encapsulated, sort, print | - |
| configuration (`src/bitz/config.cpp`) | `config_t` | initialise, read_req_handler_configs, module_config | libconfig |
| program start (`src/main.cpp`, daemonize and read_options in `src/bitz-server.cpp`) | pid file and its lock, directories, descriptors, `options` | main, read_options, daemonize | file system, other starts of the program |
| utilities (`src/bitz/util.cpp`) | - | find_req_handler, delete_req_handlers, mkdirp | file system |
| modules (`modules/echo`, `modules/modpy`) | echo: none; modpy: Python objects | create, destroy, preview, modify, init_python, cleanup_python | request handlers, CPython |

How they interact: `server::run` waits in `sigsuspend` with the termination
signals blocked everywhere else in its loop but unblocked while it calls
`Manager::manage_workers`. The handlers call into the *same* Manager object as
the interrupted main flow, so the pool and its count are shared memory without
a lock. Workers share nothing with the manager after `fork` but inherit a copy
of everything, handlers included; they tell the manager of their end only by
SIGCHLD. A worker and its client share one byte stream in each direction, on
which the client may wait for `100 Continue` in the middle of a request.

What is hard here, and hardly reached by a test:

* a signal between any two instructions of spawn, of the scan of
  manage_workers, of the loop condition and `sigsuspend`;
* a child that dies, or is signalled, before the manager or the child itself
  has recorded what it is;
* a termination handler that deletes the object that the other handler uses;
* a request of which something stays on the connection, so that every later
  request on it is misread; two sides that wait for each other around a 100;
* a connection that ends or times out in the middle of a request;
* budgets, counts and offsets that are wrong at zero or at a boundary;
* two starts of the program at once, or one after a server that was killed: they
  share directories, a pid file, its lock and a port;
* a configuration that breaks off, a library that is not there or lacks a
  symbol, a script that raises: the tables and references that are left behind.

What makes each component correct:

* manager: the count is the number of slots taken; every living child is in
  the pool; there are never more than `max_workers`; a slot is emptied only
  for a dead process; an empty slot is filled again; termination reaches every
  worker and ends the manager by the signal, never by a return from `run`.
* worker: answers match requests, in order; nobody waits for nobody; every
  request is answered or the connection ends; the budget bounds the work; a
  client that has gone holds no worker.
* request handler: a modifier sees the whole body or none; a 100 is sent only
  to a client that waits for it.
* ICAP library: what send_chunked writes read_chunked_payload reads back; a
  header is read to its empty line and no further; printed offsets describe
  the payload.
* configuration and modules: only what has been loaded is called; every library
  is closed as often as it was opened; no interpreter is left between two
  modifiers, and what the Python module leaves behind is bounded by the requests
  of a worker.
* program start: no two daemons serve at once, and the pid file names the one that
  does; starts that get in each other's way do not all fail; main comes to an end
  of its preparations.

`PROJECT.json` lists every hazard with the line where it bites.

## Modules

| module | models | status |
|---|---|---|
| `WorkerPool` | abstract specification: what the manager promises about its pool | done |
| `Server` | manager, run loop, signal handlers, life of the workers; implements `WorkerPool` | done |
| `MCServer` | instances of `Server` for TLC (symmetry) | done |
| `ServerProofs` | proofs about `Server` | done |
| `Session` | a worker, its request handler and modules, and its clients on one connection after another | done |
| `SessionProofs` | proofs about `Session`: types and budget | done |
| `ConversationProofs` | proofs about `Session`: the conversation with a client | all its safety properties |
| `Chunked` | a body byte by byte: read_chunked_payload against a client, and send_chunked | done |
| `ChunkedProofs` | proofs about `Chunked` | all its properties |
| `Encapsulated` | offsets: attach_encapsulated, read_req_data, update_encapsulated, read_req_continue_data, the answer of `echo` and its Encapsulated header | done |
| `EncapsulatedProofs` | proofs about `Encapsulated` | all its safety properties |
| `Daemon` | main, mkdirp, daemonize, pid file and lock, several starts of the program and their ends | done |
| `DaemonProofs` | proofs about `Daemon`: types, lock, pid file | done |
| `SurvivalProofs` | proofs about `Daemon`: that not all starts fail | all its safety properties |
| `Modpy` | the Python module: interpreter, script and references | done |
| `ModuleTable` | the list of modules in the configuration, the request handlers that load, ask and unload them; uses `Modpy` | done |
| `ModuleProofs` | proofs about `ModuleTable` with `Modpy` | all its properties |

Order of the plan: the processes first (`Server`), as everything else runs
inside them; then the conversation with a client (`Session`); then the pure
algorithms that `Session` takes for granted (`Chunked`, `Encapsulated`), each
against a reference definition; then what is done once, at the start of the
program (`Daemon`) and of a worker (`ModuleTable`, `Modpy`). What the plan has
left of the code is read_line at the limit of its buffer. Every safety property
that a passing run checks is also a theorem; the proofs have left what would
carry the liveness properties without fairness: that a worker, a server or a
start that has not come to its end has a step to take.

### Server

`pc` is where the manager's main flow is: `new` (before `Manager::Manager`),
`spawn` and `alloc` (Manager::spawn before and after `max_workers` is set),
`fork`, `count`, `store`, `record` (spawn_worker: before fork, before and
inside `workers_count++`, before the pid is recorded), `block`, `presuspend`,
`suspend`, `unblock` (server::run), `check` and `scan` (manage_workers). Each
of these is one atomic step; between two of them a handler may run. `handler`
is the step of the handler that is running. All handlers block all signals
while they run (`sigfillset`), so there is only one at a time, and the main flow
goes on only when it has returned. `Deliverable` gives the signals that can be
delivered where the main flow stands, by the mask that `run` installs.

`proc` is the kernel's table of workers; a worker's life is `newborn` (forked,
`_manager.worker` not yet set), `loading`, `worker`, `ending` (its Worker object
is deleted, `_exit` is next), `zombie`. Pids are reused once they are reaped.
`copy` is what a new child has inherited of the pool. `faults` records what a
handler did that it must not do: it signalled a pid that is no child, used or
deleted a deleted object, and so on.

Decisions that a reader may want to question:

* `workers_count++` is one instruction unless `SplitIncrement` says otherwise:
  optimised builds for x86 compile it to one, others do not.
* `new worker_pool_t[max_workers]` leaves its elements uninitialised; the model
  chooses between zeros and `Junk`.
* POSIX does not say which of several pending signals is delivered first; the
  model leaves it open. After `sigsuspend` the restored mask blocks the signal
  that the termination handler raised again, and SIGCHLD may come first.
* A handler that touches the deleted manager crashes, or finds the memory
  unchanged. Both are in the model.
* What a handler does between its own instructions is not visible to anyone,
  except `kill`, `waitpid` and the deletion, which are steps of their own.
* Anyone may send a termination signal to the manager at any time, and to any
  worker; workers may exit, crash or be killed at any time.
* `SIGCHLD` is pending or not: several deaths may raise one signal, and
  `sigchld_handler` reaps in a loop.

### Session

The connection is a sequence of units that the worker reads at once: the ICAP
header of a request (`head`), the encapsulated HTTP headers (`part`), a chunk,
and the zero chunk that ends a body or a preview (`last`), or ends a body that
is complete within its preview (`ieof`). `at` is where the worker is. `req` is
the header that was read last, with the request's number; number 0 is an input
that was no request. `entity` is the last entity of the encapsulated header
after `update_encapsulated`, by which `read_req_continue_data` decides whether
there is a rest to read. `broken` is the state of a socket stream after a
failed read: reads give nothing, writes send nothing. `comm_timeout` says whether
the configuration has one, from the values in `CommTimeouts`: where it is TRUE, a
read for which there is nothing may time out at any moment; the end of the
connection fails a read when all that was sent has been read.

The client sends a request unit by unit. After the zero chunk of a preview it
pauses until it is told to continue or is answered, then asks again if it
wanted to keep the connection; it may hang up at any point. It sends one
request at a time. `OddBodies` and `BareBodies` let it send bodies with methods
whose handler reads none, and bodies without HTTP headers before them.

Modules return any status at each call. The statuses are told apart as the
code does: a preview may say 100, 200, 204 or anything else.

### Chunked

`input` is what the client has sent and the worker has not read, character by
character: digits, the two characters of a line end, bytes of the body, which
are told apart by their place. `Base` is that of the digits and `Buffer` stands
for ICAP_BUFFER_SIZE, so that a size can have two digits and a body several
buffers. The client divides its body into chunks as it likes, and may stop and
close the connection after any character. `ReadHeader`, `ReadData` and `ReadEnd`
are read_chunk_header, one round of the loop in read_data, and what follows it
in read_chunk and read_chunked_payload; `broken` is the stream after a failed
read. `StartSending`, `SendChunk` and `SendEnd` are send_chunked; `output` is
what it has written.

### Encapsulated

A `message` is what a client encapsulates: a method, the sizes of the HTTP
headers and of the body, how much of the body a preview shows, and whether it
says `ieof`. `Declared` gives the offsets of its Encapsulated header and
`FirstPart`, `SecondPart` what it sends before and after a 100. `encaps` is the
map `_encapsulated` of the request header, -1 for what is not there. The loop of
read_req_data is one action per kind of round (`SkipEntity`, `ReadEntity`,
`ReadLastEntity`); `left` is the entities from the iterator on, and the next one
is `First` of them. The sorted vector itself is not needed: `Precedes` is the
order it is in, `First` its beginning and `Last` its `back()`. `UpdateRequest` is
the payload setter with update_encapsulated; `ReadRest` looks for the `Last` of
the updated offsets. `list` is the offsets of the answer. `Echo` answers as the echo module does, with the
header that encapsulated_header_str prints and the content that send_response
writes; `AnswerStatus` is any answer without content.

`std::sort` compares offsets only. It sorts six elements by insertion, which
keeps the order of the map's keys for equal offsets; `KeyOrder` is that order
and `Place` the place of an entity in it, and `LastIsKept` depends on it: a null-body at the offset of an empty body must
come before it.

### Daemon

`Starts` are invocations of the program on one machine. `at` is where a start is
in `main`: `options`, the two directories (`rundir` of the pid file, only made
for a daemon, and `logdir`), `daemonize`, `logger`, `bind` (the constructor of
Manager), `spawn`, `serving`; then, in the termination handler, `stopping` (the
workers were told, and the manager was deleted with its socket) and `closed`
(server::shutdown has closed the pid file). `DaemonSteps` is what daemonize does in its order
and `step` the position in it. A start has up to three processes, one after the
other: `forks` tells which one it is, and `lock` is the *process* that holds the
lock of the pid file, as POSIX has it: a fork does not inherit it, and it goes
with any close of a descriptor of the file. `file` is the content of the pid
file: the name of a start for each digit of its pid, so that a longer and a
shorter pid differ.

The end of a daemon is three steps: `Terminate`, `ClosePidFile`, which gives up
the lock, and `Die`, when the signal that the handler has raised again is
delivered. Between the last two the daemon lives without its lock, and another
start may take it and write its own pid. `OneDaemon` therefore says that of two
daemons past the lock one is `closed`, and `PidFileNames` holds of a daemon until
it has closed the file.

`level` and `back` are the recursion of mkdirp: the directory it is at, counted
from the root, and that its parent has just been made. mkdirp takes EEXIST for
success when it tries a path first, and for a failure after it has made the
parent; `DirectoryIsThere` and `LoseDirectory` are the two. For a pid file right
below the root the path of the directory is empty, mkdir says ENOENT, and mkdirp
calls itself with the same empty path until the stack ends (`OverflowStack`).

Decisions that a reader may want to question:

* `options.debug_flag` is set by `--debug` and by nothing else, and
  `read_options` does not initialise it: both values are possible.
* daemonize closes standard output and error, so the pid file gets one of their
  numbers. What Python prints lands in it (`PrintText`), at the offset that the
  daemon shares with its workers: behind the pid for its own, and inside the pid
  of the next daemon where a worker has outlived the first. `PidFileNames` allows
  that, and only where a former daemon has printed at that position
  (`PrintedOver`); pids of three digits let it happen within one print.
* Workers hold the port, as they inherit the socket, and are not waited for.
* A termination signal where there is no logger is a fault of the handler
  (`NoLogger`).
* Any call of mkdir, fork and open may fail (`Refuse`), and the options and the
  configuration may be refused. That the log file cannot be opened is left out: the
  logger throws, which nothing catches, and that is a `Kill` at `logger`. Any
  process may be killed, which leaves its workers behind.
* A process that is killed or stopped while it forks its workers (`WorkersLeft`)
  may have none yet, may have told them, or may leave one that is not in the pool.

### ModuleTable and Modpy

`file` is the list `req_handlers` of the configuration: entries for a method with
or without a class, and with modules of the kinds in `SettingKinds`.
read_req_handler_configs stops at the first setting that is missing, and leaves
all that is behind it as `new` made it: empty names, and a `modules_count` that
was never set, which is 0 or anything else (`wild`). To load a module without a
name is to `dlopen` the program itself, which has neither `create` nor `destroy`.

`place` is where the worker is: it makes its handlers, serves, makes, calls and
destroys a modifier, looks at its response, deletes its handlers. `handlers` is
the table `_handlers` of each request handler, a slot per module with the handle
that `dlopen` gave and whether the slot has a name; `opened` counts how often a
library is open. A request is only what decides which modules are asked: its
method, whether it previews, whether the preview is all. `DestroyModifier` comes
before the response is looked at, as in the code. A handler that is deleted
closes the handle of every slot; to close NULL is harmless or a fault, which is
left open (`UnloadNull`).

`Modpy` has one modifier at a time: `Construct`, `Respond` and `Destruct` are the
constructor of Py with init_python, a call of the script with what the interface
does for it, and the destructor. `owned` counts the references that the C++ code
owns to each kind of object, as `taken` and `given` by each function. The script
is imported anew by each modifier, so it may differ from the one before. What the
code never checks is a fault in the model where the pointer is NULL or was never
set (`ConstructCrashes`, `RespondCrashes`, `DestructCrashes`).

Two counts are wrong in the code. `sys_path` is only lent to init_python and given
back all the same, so that `owned["sys_path"]` falls by one with each modifier;
while it is below zero, ending an interpreter may go well or not. `pyvalues` are
the strings and the truth value that bitz_get_request puts into its dictionaries:
`PyDict_SetItemString` takes references of its own, and those of bitz_get_request
are never given back, so that `owned["pyvalues"]` rises by one with each script
that gets its request (one for the eight values together). Both are counted from
the beginning of the worker, over all its interpreters; `OnlyKnownLeaks` says that
they are the only ones and that `max_worker_requests` bounds them. C++ objects that
are leaked (the responses of a preview that are replaced) are not references and
are not counted.

## Runs

| run | instance | what it shows |
|---|---|---|
| `server_safety` | 2 workers, 3 pids, 2 termination signals; pids and signals symmetric | types; `CountMatchesPool`, `ChildrenKnown`, `WorkersBounded`, `TermReachesChildren`, `RunNeverReturns`; the server implements `WorkerPool` (`PoolImplemented`) |
| `server_liveness` | 1 worker, 2 pids, 1 signal, no symmetry | `TerminationEnds`, `CheckRespawns` |
| `server_split` | 2 workers, 3 pids, 1 signal, split increment, count up to 4 | `DriftIsTorn`, `WorkersBounded` |
| `session_safety` | budget 3, modules 1 and 3 of 3 loaded, 2 connections of 2 requests, timeouts | types; `AnswersInOrder`, `NoMutualWait`, `BudgetHolds`, `WholeBody`, `ContinueProper` |
| `session_liveness` | budget 3, 2 modules, 1 connection of 2 requests, with and without a comm_timeout, odd and bare bodies | `Answered`, `WorkerReleased` |
| `chunked` | bodies of up to 5 bytes, buffer of 2, binary sizes | types; `PayloadIsPrefix`, `ReadExactly`, `NeverStarves`; `SmallIsSentWhole`, `SentInOrder` |
| `encapsulated` | parts of up to 2 bytes, every preview of them | types; `PartsRead`, `OffsetsKept`, `LastIsKept`, `ResponseDescribed`, `Answered` |
| `daemon` | 2 starts, pid file 0 or 2 directories below the root and log file 1, each start prints once | types; `OneDaemon`, `PidFileNames`, `SomeoneServes`; `StartSettles` |
| `modules` | 2 entries of 2 modules, 6 kinds of setting, 7 kinds of script, 2 requests | types; `OnlyLoadedCalled`, `LibrariesReturned`, `OnlyKnownLeaks` |

Why the bounds are enough. Two workers let one slot be filled while the other
one is reaped; the third pid lets a pid be free while both slots are taken, and
be reused. Two termination signals allow a second one during the handler of the
first. One worker is enough for the liveness properties, which follow one slot.
`CountBound` only bounds the drift of a split increment. Three modules with the
middle one missing let the loops pass over it, decide before it and after it.
Two requests on a connection show whatever the first one leaves to the second;
a budget of three ends in the middle of the second connection. A buffer of two
bytes and bodies of up to five give a chunk of less than, just, and more than a
buffer, two full buffers and a rest, and sizes of one and of two digits. Parts of
zero, one and two bytes are empty, shown whole, or cut by a preview. Two starts
race for a directory, the lock and the port, or follow each other; pids of one
to three digits let the shorter one leave a digit of the longer; two directories
make mkdirp call itself and come back, none makes it run away. Two entries of two
modules give duplicate entries, an entry behind one that breaks off, and a second
module behind a first that is good, fails or says nothing; two handlers share a
library; the second request meets what the first has left.

These runs state what a comment or the documentation says, and TLC finds a
behaviour of the code in which it does not hold:

| run | what happens |
|---|---|
| `lost_wakeup` | a worker dies between the loop condition of `run` and `sigsuspend`: it is reaped, and the manager sleeps with an empty slot, for ever if no other signal comes |
| `use_after_delete` | SIGCHLD is handled after the termination handler has deleted the manager |
| `large_body` | `send_chunked` sends as many full buffers as there are and drops the rest of a body of more than one: sizes above 1024 that are not a multiple of it |

Further departures that the models contain and no run is kept for: a child that
dies before its pid is recorded leaves its pid in the slot for ever (`Forget`
finds nothing, `RecordWorker` then stores it), and one that is signalled before
it knows that it is a worker terminates its siblings; shutdown signals whatever
an uninitialised pool holds; with a split increment the count stays too high for
ever, and as manage_workers compares it with max_workers, it then overlooks an
empty slot, or does not end while the count is above (`DriftIsTorn` says when that
happens and how much is lost at once, not that it does no harm); a termination signal between `fork` and the assignment of the pid leaves
that child running (`TermReachesChildren` excepts it); a body that stops half way
is processed as if it were whole, as read_req_data reports success whatever it
could read (`WholeBody` excepts a broken connection); a body sent with OPTIONS or an unknown method is read as the next
request; an answer promises keep-alive when the budget has just run out; the
preview loop goes on to the next module after a status it does not know,
against the comment above it.

A body without its HTTP header (allowed by the grammar in header.cpp:133-140)
is a case of its own. update_encapsulated takes an offset of 0 for the absence
of a body and puts a null-body behind it: after a preview the rest is not found,
and the answer's header names both a body and a null-body. The constants
`BareBodies` of `Session` and `Encapsulated` let clients send such bodies; with
TRUE, TLC finds `WholeBody`, `LastIsKept`, `PartsRead` and `ResponseDescribed`
violated. The safety runs say FALSE, so what they show of bodies holds for
clients that send the header; `session_liveness` says TRUE.

Deadlock is not checked (`CHECK_DEADLOCK FALSE`): a server whose manager and
workers have ended, a worker that has used its budget or has no more clients, and
starts of the program that have all gone, really stop. That nobody waits in vain is stated by `NoMutualWait`,
`Answered`, `TerminationEnds`, `CheckRespawns` and `StartSettles`.

## Fairness

* `Server`: weak fairness of the manager's steps, handlers included: the kernel
  schedules a runnable process and delivers an unblocked signal. Strong
  fairness of a successful `fork` for each slot: `fork` may fail any number of
  times, not for ever. Weak fairness of a worker's first steps and of its
  termination handler. Nothing is assumed of when workers end, or who sends a
  signal.
* `Encapsulated`: weak fairness of the worker, whose client has sent what it has
  to send; the worker is only stuck where it reads more than that.
* `Session`: weak fairness of the worker, and, where the worker has no
  comm_timeout, of a client that is sending: it goes on with the request it has
  begun, or hangs up. Where there is a comm_timeout a client may fall silent
  anywhere, and the worker is released all the same, as a read for which nothing
  comes times out at last. Nothing makes a client ask, or hang up.
* `Daemon`: weak fairness of the main flow of each start that was launched, as
  the kernel runs its process. Nothing makes anyone launch or end one, the system
  refuse a call, a server print or a worker end.

## Proofs

`ServerProofs` proves, for every number of workers, set of pids and set of
termination signals: `TypeCorrect`, `CountCorrect`, `ChildrenCorrect`,
`BoundCorrect`, `TerminationCorrect`, `RunCorrect` and `PoolCorrect`.
`CountCorrect` and `PoolCorrect` assume that the increment is not split.
`DriftCorrect`, that the count leaves the slots taken only in a torn increment,
upwards, and by no more than the other slots that are empty then, holds for both
builds: its invariant `DriftInv` says that the register in which a split increment
is computed is ahead of the count by what the reaper has counted off since, and that
each of these decrements stands for an empty slot. The other assumptions are those on constants in `Server`: that `MaxWorkers` is a
natural number, and that pids, `NoPid` and `Junk`, and the signals, are distinct.

None of the properties is inductive. The invariant `IInv` adds: where the main
flow is tells which slot and child it works on, and that the slot is empty
(`FlowInv`), without which recording a child could overwrite another; the order
of the handler's steps, and that a signal whose default action is restored is
pending (`HandlerInv`), without which the loop could go on after a shutdown;
that after a shutdown every worker but the one being forked has been signalled
(`ReachInv`); that the loop condition is only evaluated while termination is
blocked (`MaskInv`). `WorkersBounded` follows from `ChildrenKnown` by counting:
living workers map one to one to slots (`ChildrenBounded`); it must be carried
along because workers outlive the manager.

`SessionProofs` proves `TypeCorrect` and `BudgetCorrect`, for every budget,
module list and client, from `SessionAssumption`. `IInv` adds that a request is
only being read while the budget is not used up, and that a client that is
sending has something to send.

`ConversationProofs` goes on from there. Its invariant `CInv` says that while
the connection works the worker and its client are in step (`Orderly`): what is
on the connection together with what the client has still to send is the rest of
one request, from exactly where the worker is about to read, and the answers so
far are those to the requests before. The alternative, `Stray`, is what a body
that no handler reads leaves: the worker expects a header and will meet what is
none, and will close. A broken connection is excepted, as nothing more is read
from it. `ContinueCorrect` and `NeverMutual` hold for every client; the former is
about a 100 after which the worker waits for a rest, and says that the client has
then paused before one. A 100 that is followed by no read, such as to a preview of a
request without a body, is not restricted.
`WholeCorrect` assumes `~BareBodies`, and `AnswersCorrect` both `~OddBodies` and
`~BareBodies`: clients that send such bodies do get out of step, so that the
properties are false of them and the assumptions cannot be spared.

`ChunkedProofs` proves all properties of `Chunked`, for every buffer size, base
and body, from `ChunkedAssumption`. `SendInv` says what has been written before
each step of the sender, and how far it has counted. `ReadInv` says that the
payload and the chunk at hand are a beginning of the data, wherever the
connection breaks (`Gathering`), and that while it does not, what is on the
connection is what the worker is about to read: the rest of a header, of a
chunk's data, of its line end, followed by whole chunks of what the client has
said of the rest (`InStep`). `Chunks` is for that the least relation between bytes
and the data that they carry that is closed under one more chunk at the end; as the
division into chunks is the client's, no function of the data would do. That a
size is read back as it was written rests on `DigitsIs` and `ValueOf`: that the
recursion of `Digits` has exactly one solution is shown by the least number for
which it would not (`Least`), and that no two numbers have the same digits by
the same argument.

`EncapsulatedProofs` proves the safety properties of `Encapsulated`, for parts of
every size, from `EncapsulatedAssumption`. In the loop, `InLoop` says that what is
before the iterator is in the payload and what is not is on the connection, in
the order of the offsets, so that the difference of two neighbouring offsets is
the length of the part between them (`DataLengthIs`). Afterwards `Placed` says
what the repeated updates may do to the offsets: nothing but add a null-body
where the body begins (`UpdateKeeps`); that leaves the body last, since the order
of the keys puts a null-body before it. `FirstExists` is again the least number
principle, once for offsets and once for places. `TypeCorrect` and
`OffsetsCorrect` hold for all clients; `PartsCorrect`, `LastCorrect` and
`ResponseCorrect` assume `~BareBodies`, without which they are false (see Runs).

`DaemonProofs` proves `TypeCorrect`, `OneDaemonCorrect` and `PidFileCorrect`, for
any number of starts, depths of the directories and lengths of what is printed,
from `DaemonAssumption`. `OneDaemon` follows from `Locked`: a daemon that has
passed the lock holds it until it is `closed`, which needs `Forked`, that by then
it is its last process. `PidFileNames` needs that a print does not reach the first
line unless a former daemon has printed there: the file is never shorter than what
its daemon has put there (`Written`), and who does not serve yet has printed nothing
(`Unprinted`); `Named` is the first line symbol by symbol, so that a write behind it
can be seen to leave it alone, and a write into it to be of a daemon that is gone or
`closed`.

`SurvivalProofs` proves `SomeoneServesCorrect`, that unless the system has refused
a call not all starts fail, if there is a start at all. A start can then only
fail against another one. For the lock that is its `Holder`, for the port whoever
has it; for a directory it is more delicate, as the one that made it may itself
lose the next one. `Front` is the start that is ahead: it is past the directory,
or comes back from making the deepest one that there is; as long as anyone is
`Behind`, and so may lose, there is one in front.

`ModuleProofs` proves all properties of `ModuleTable`, for any number of entries,
modules and requests and any kinds of settings and scripts, from
`ModuleAssumption` and `ModpyAssumption`. `Filled` says that a handler has a slot
for each module that it tried, and what is in it; `Balanced` that each library is
open once for each slot that holds it and was not yet closed, which gives both
that a count does not go below zero and that it ends at zero; `Called` that a
modifier comes from the slot at hand; `Holding` what the Python module owns while
a modifier lives. For `OnlyKnownLeaks` it is counted how many modifiers the requests
so far and the slots before the one at hand can have had (`Used`, `Before`):
`Leaks` says that neither of the two counts is beyond it. `FirstEntry` shows, by the least number principle, that the
entry load_modules finds exists.

Model-checked only: liveness (`TerminationEnds`, `CheckRespawns`,
`WorkerReleased`, `StartSettles` and the two properties named `Answered`), as it
rests on fairness and `ENABLED`, which are out of the prover's reach. The safety
half of them is proved where it could be told apart: `NeverMutual` and
`NeverStarvesCorrect` say that nobody waits for what does not come,
`PartsCorrect` that no read of `Encapsulated` goes beyond what was sent. The three
runs that expect a violation have nothing to prove.

## Not modelled

* Wording and logging; the text of statuses and headers. The signal handlers log,
  that is, they allocate and take the logger's mutex, which the interrupted flow may
  hold: a handler that waits for itself is not modelled, so `TerminationEnds` holds
  up to that. A process that crashes has ended in the sense of `TerminationEnds` and
  `StartSettles`.
* `psocksxx`, libconfig and CPython are external. Whether a write to a closed
  connection raises SIGPIPE depends on psocksxx; a worker that dies of it is a
  `WorkerCrashes` step of `Server`.
* Time: `comm_timeout` is a timeout that may strike at any read, and how fast
  workers are forked anew is left out.
* Pipelined requests, and HTTP bodies that contain what looks like an ICAP
  header.
* The bytes of a header line: lines longer than a buffer, bytes of 0x80 and more;
  trailers after the zero chunk; several chunk extensions; chunk sizes of 2^31
  and more; the missing line end between two chunks that `send_chunked` writes (`SentInOrder`
  follows the bytes of the body only).
* The entity `opt-body`, which neither side writes, and Encapsulated headers that
  are not in the grammar or disagree with what follows them.
* A pid file with a relative path or a path without a slash, and directories
  or pid files that somebody removes meanwhile.
* Settings of a wrong type, and the core settings, which are constants of the
  models; what the destructor of Config does with a table that was never set.
* A termination signal in the middle of a worker's loading or deleting of its
  handlers: `Server` has the handler, without what it deletes.
* The responses that a Python script makes, beyond their status.
