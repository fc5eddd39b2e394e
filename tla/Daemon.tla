------------------------------- MODULE Daemon -------------------------------
(***************************************************************************)
(* Starting bitz-server, several times on one machine: main (src/main.cpp) *)
(* reads its options, makes its directories (mkdirp in src/bitz/util.cpp), *)
(* becomes a daemon that holds a lock on its pid file, binds the port and  *)
(* forks its workers (src/bitz-server.cpp), until a signal ends it.        *)
(*                                                                         *)
(* What one server does once it runs is the subject of Server; here it     *)
(* matters to the starts that come after it: who holds the lock and the    *)
(* port, and what is in the pid file.                                      *)
(***************************************************************************)
EXTENDS Integers, Sequences

CONSTANTS
    Starts,        \* the invocations of the program
    RunDepths,     \* how many directories a pid file may be below the root
    LogDepths,     \* the same for the log file
    MaxPrints      \* bound: what a server writes to a standard stream

ASSUME DaemonAssumption ==
    RunDepths \subseteq Nat /\ LogDepths \subseteq Nat /\ MaxPrints \in Nat

VARIABLES
    depth,     \* the depths of the two directories in the configuration
    at,        \* where a start is in main
    step,      \* where it is in daemonize
    level,     \* mkdirp: the directory it is at, counted from the root
    back,      \* mkdirp: the parent has just been made
    debug,     \* options.debug_flag == 1
    width,     \* the number of digits of its pid
    forks,     \* which of its processes it is: one more for each fork
    workers,   \* its workers: "none", "serving", or "told" to end
    printed,   \* what it has written to a standard stream
    made,      \* the directories that exist
    lock,      \* the process that holds the lock on the pid file
    file,      \* what the pid file contains
    refused    \* the system, or the command line, has refused something

startVars == <<at, step, level, back, debug, width, forks, workers, printed>>
vars == <<depth, startVars, made, lock, file, refused>>

Dirs == {"rundir", "logdir"}

\* Mutants: the lock is taken before the last fork; the pid is written before
\* the lock is taken; there is a fork more.
DaemonStepsLockEarly ==
    <<"fork", "setsid", "close", "open", "lock", "fork", "write">>
DaemonStepsWriteFirst ==
    <<"fork", "setsid", "fork", "close", "open", "write", "lock">>
DaemonStepsForkOnceMore ==
    <<"fork", "setsid", "fork", "fork", "close", "open", "lock", "write">>

\* What daemonize does, in its order.
DaemonSteps ==
    <<"fork", "setsid", "fork", "close", "open", "lock", "write">>

\* "stopping": the termination handler has told the workers and deleted the
\* manager; "closed": it has closed the pid file, and the signal that it has
\* raised again is still to end the process.
Gone == {"off", "failed", "ended", "crashed"}
Places == Gone \cup Dirs \cup
          {"options", "daemonize", "logger", "bind", "spawn", "serving",
           "stopping", "closed"}
Alive(s) == at[s] \notin Gone
Process(s) == <<s, forks[s]>>
NoProcess == <<>>

TypeOK ==
    /\ depth \in [Dirs -> Nat]
    /\ at \in [Starts -> Places]
    /\ step \in [Starts -> 1 .. (Len(DaemonSteps) + 1)]
    /\ \A s \in Starts : at[s] = "daemonize" => step[s] <= Len(DaemonSteps)
    /\ level \in [Starts -> Nat]
    /\ \A s \in Starts : at[s] \in Dirs => level[s] <= depth[at[s]]
    /\ back \in [Starts -> BOOLEAN] /\ debug \in [Starts -> BOOLEAN]
    /\ width \in [Starts -> 1 .. 3]
    /\ forks \in [Starts -> 0 .. 2]
    /\ workers \in [Starts -> {"none", "serving", "told"}]
    /\ printed \in [Starts -> 0 .. MaxPrints]
    /\ made \in [Dirs -> Nat] /\ \A d \in Dirs : made[d] <= depth[d]
    /\ lock \in (Starts \X (0 .. 2)) \cup {NoProcess}
    /\ file \in Seq(Starts \cup {"newline", "text"})
    /\ refused \in BOOLEAN

Init ==
    /\ \E run \in RunDepths, log \in LogDepths :
          depth = [d \in Dirs |-> IF d = "rundir" THEN run ELSE log]
    /\ at = [s \in Starts |-> "off"] /\ step = [s \in Starts |-> 1]
    /\ level = [s \in Starts |-> 0] /\ back = [s \in Starts |-> FALSE]
    /\ debug = [s \in Starts |-> FALSE]
    /\ width \in [Starts -> 1 .. 3]
    /\ forks = [s \in Starts |-> 0]
    /\ workers = [s \in Starts |-> "none"] /\ printed = [s \in Starts |-> 0]
    /\ \E run \in 0 .. depth["rundir"], log \in 0 .. depth["logdir"] :
          made = [d \in Dirs |-> IF d = "rundir" THEN run ELSE log]
    /\ lock = NoProcess /\ file = <<>> /\ refused = FALSE

\* A start goes on to another place.
Go(s, place) == at' = [at EXCEPT ![s] = place]

\* The process of a start ends, and the system releases its lock.
Ends(s, place) ==
    /\ Go(s, place)
    /\ lock' = (IF lock = Process(s) THEN NoProcess ELSE lock)

-----------------------------------------------------------------------------
(* main up to daemonize.                                                    *)

\* The handlers are installed first. debug_flag is only set by --debug, and
\* not initialised: without it, it is likely 0, and may be 1.
Launch(s) ==
    /\ at[s] = "off" /\ Go(s, "options")
    /\ \E d \in BOOLEAN : debug' = [debug EXCEPT ![s] = d]
    /\ UNCHANGED <<depth, step, level, back, width, forks, workers, printed,
                   made, lock, file, refused>>

ToDirectory(s, d) ==
    /\ Go(s, d)
    /\ level' = [level EXCEPT ![s] = depth[d]]
    /\ back' = [back EXCEPT ![s] = FALSE]

\* read_options and the configuration: a directory for the pid file is only
\* made for a daemon.
ReadOptions(s) ==
    /\ at[s] = "options"
    /\ \/ /\ ToDirectory(s, IF debug[s] THEN "logdir" ELSE "rundir")
          /\ UNCHANGED refused
       \/ Go(s, "ended") /\ UNCHANGED <<level, back, refused>>
       \/ Go(s, "failed") /\ refused' = TRUE /\ UNCHANGED <<level, back>>
    /\ UNCHANGED <<depth, step, debug, width, forks, workers, printed, made,
                   lock, file>>

-----------------------------------------------------------------------------
(* mkdirp.                                                                  *)

\* The path at a level of the directory that is made exists, or its parent
\* does. The path at level 0 is empty: there is no such directory.
Exists(s) == level[s] > 0 /\ level[s] <= made[at[s]]
ParentExists(s) == level[s] = made[at[s]] + 1

\* Mutant: an existing directory is an error.
DirectoryIsThereNever(s) == FALSE

\* EEXIST is good when a path is tried first, not when its parent has been made.
DirectoryIsThere(s) == Exists(s) /\ ~back[s]

DirectoryDone(s) ==
    IF level[s] < depth[at[s]]
    THEN /\ level' = [level EXCEPT ![s] = @ + 1]
         /\ back' = [back EXCEPT ![s] = TRUE]
         /\ UNCHANGED at
    ELSE CASE at[s] = "rundir" -> ToDirectory(s, "logdir")
           [] at[s] = "logdir" ->
                  /\ Go(s, IF debug[s] THEN "bind" ELSE "daemonize")
                  /\ UNCHANGED <<level, back>>

\* mkdir succeeds.
MakeDirectory(s) ==
    /\ at[s] \in Dirs /\ ParentExists(s)
    /\ made' = [made EXCEPT ![at[s]] = level[s]]
    /\ DirectoryDone(s)
    /\ UNCHANGED <<depth, step, debug, width, forks, workers, printed, lock,
                   file, refused>>

FindDirectory(s) ==
    /\ at[s] \in Dirs /\ DirectoryIsThere(s)
    /\ DirectoryDone(s)
    /\ UNCHANGED <<depth, step, debug, width, forks, workers, printed, made,
                   lock, file, refused>>

\* EEXIST at the second try: somebody else has made the directory meanwhile.
LoseDirectory(s) ==
    /\ at[s] \in Dirs /\ Exists(s) /\ ~DirectoryIsThere(s)
    /\ Ends(s, "failed")
    /\ UNCHANGED <<depth, step, level, back, debug, width, forks, workers,
                   printed, made, file, refused>>

\* Mutant: the call goes to the same path again.
ParentLevelSame(s) == level[s]

ParentLevel(s) == level[s] - 1

\* ENOENT: first the parent.
MakeParent(s) ==
    /\ at[s] \in Dirs /\ level[s] > 0 /\ ~Exists(s) /\ ~ParentExists(s)
    /\ level' = [level EXCEPT ![s] = ParentLevel(s)]
    /\ UNCHANGED <<depth, at, step, back, debug, width, forks, workers,
                   printed, made, lock, file, refused>>

\* The parent of the empty path is the empty path: the calls have no end.
OverflowStack(s) ==
    /\ at[s] \in Dirs /\ level[s] = 0
    /\ Ends(s, "crashed")
    /\ UNCHANGED <<depth, step, level, back, debug, width, forks, workers,
                   printed, made, file, refused>>

-----------------------------------------------------------------------------
(* daemonize.                                                               *)

Daemonizing(s, what) == at[s] = "daemonize" /\ DaemonSteps[step[s]] = what

StepOn(s) ==
    /\ step' = [step EXCEPT ![s] = @ + 1]
    /\ IF step[s] < Len(DaemonSteps) THEN UNCHANGED at ELSE Go(s, "logger")

\* The child goes on; the parent exits, and takes its locks with it.
ForkDaemon(s) ==
    /\ Daemonizing(s, "fork") /\ StepOn(s)
    /\ forks' = [forks EXCEPT ![s] = @ + 1]
    /\ lock' = (IF lock = Process(s) THEN NoProcess ELSE lock)
    /\ UNCHANGED <<depth, level, back, debug, width, workers, printed, made,
                   file, refused>>

\* A new session, a new directory, and the file that will be locked. Of the
\* standard streams only the first stays open: the file gets the number of
\* another, or of the third when syslog's socket has the second.
PrepareDaemon(s) ==
    /\ \E what \in {"setsid", "open"} : Daemonizing(s, what)
    /\ StepOn(s)
    /\ UNCHANGED <<depth, level, back, debug, width, forks, workers, printed,
                   made, lock, file, refused>>

\* Closing any descriptor of a file releases the process's locks on it.
CloseDescriptors(s) ==
    /\ Daemonizing(s, "close") /\ StepOn(s)
    /\ lock' = (IF lock = Process(s) THEN NoProcess ELSE lock)
    /\ UNCHANGED <<depth, level, back, debug, width, forks, workers, printed,
                   made, file, refused>>

LockFile(s) ==
    /\ Daemonizing(s, "lock")
    /\ \/ /\ lock \in {NoProcess, Process(s)}
          /\ lock' = Process(s) /\ StepOn(s)
       \/ /\ lock \notin {NoProcess, Process(s)}
          /\ Ends(s, "failed") /\ UNCHANGED step
    /\ UNCHANGED <<depth, level, back, debug, width, forks, workers, printed,
                   made, file, refused>>

PidLine(s) == [i \in 1 .. width[s] |-> s] \o <<"newline">>

\* A write at an offset: what is there is overwritten, what follows it stays.
WriteAt(offset, text) ==
    SubSeq(file, 1, offset) \o text
        \o SubSeq(file, offset + Len(text) + 1, Len(file))

WritePid(s) ==
    /\ Daemonizing(s, "write") /\ StepOn(s)
    /\ file' = WriteAt(0, PidLine(s))
    /\ UNCHANGED <<depth, level, back, debug, width, forks, workers, printed,
                   made, lock, refused>>

-----------------------------------------------------------------------------
(* The rest of main: start and run; and what the system refuses.            *)

OpenLog(s) ==
    /\ at[s] = "logger" /\ Go(s, "bind")
    /\ UNCHANGED <<depth, step, level, back, debug, width, forks, workers,
                   printed, made, lock, file, refused>>

\* The listening socket is shared by a manager and its workers.
PortFree ==
    \A t \in Starts : at[t] \notin {"spawn", "serving"} /\ workers[t] = "none"

Bind(s) ==
    /\ at[s] = "bind"
    /\ \/ PortFree /\ Go(s, "spawn") /\ UNCHANGED lock
       \/ ~PortFree /\ Ends(s, "failed")
    /\ UNCHANGED <<depth, step, level, back, debug, width, forks, workers,
                   printed, made, file, refused>>

Spawn(s) ==
    /\ at[s] = "spawn" /\ Go(s, "serving")
    /\ workers' = [workers EXCEPT ![s] = "serving"]
    /\ UNCHANGED <<depth, step, level, back, debug, width, forks, printed,
                   made, lock, file, refused>>

\* A call that fails ends the process. The workers that were forked before a
\* fork failed stay behind.
Refuse(s) ==
    /\ \/ at[s] \in Dirs \cup {"spawn"}
       \/ \E what \in {"fork", "open"} : Daemonizing(s, what)
    /\ refused' = TRUE
    /\ Ends(s, "failed")
    /\ \/ UNCHANGED workers
       \/ at[s] = "spawn" /\ workers' = [workers EXCEPT ![s] = "serving"]
    /\ UNCHANGED <<depth, step, level, back, debug, width, forks, printed,
                   made, file>>

\* What a daemon or a worker writes to its standard streams goes into the
\* file, at the offset that they share; a worker may outlive its daemon.
PrintText(s) ==
    /\ at[s] = "serving" \/ workers[s] # "none"
    /\ ~debug[s] /\ printed[s] < MaxPrints
    /\ file' = WriteAt(Len(PidLine(s)) + printed[s], <<"text">>)
    /\ printed' = [printed EXCEPT ![s] = @ + 1]
    /\ UNCHANGED <<depth, at, step, level, back, debug, width, forks, workers,
                   made, lock, refused>>

-----------------------------------------------------------------------------
(* The end of a server.                                                     *)

\* The handler needs the logger: before it is made, and between
\* spdlog::drop and the logger of the daemon, there is none.
NoLogger(s) == at[s] \in {"options", "daemonize", "logger"}

\* Of the workers of a server that is stopped while it forks them there may be
\* none yet, and the last one may not be in the pool.
WorkersLeft(s, how) ==
    IF at[s] = "spawn" THEN {"none", "serving", how}
    ELSE {IF workers[s] = "serving" THEN how ELSE workers[s]}

\* termination_handler up to server::shutdown: Manager::shutdown sends the
\* workers SIGTERM and does not wait for them, and the manager is deleted with
\* its socket. The handler is not interrupted by a second signal.
Terminate(s) ==
    /\ Alive(s) /\ at[s] \notin {"stopping", "closed"}
    /\ \/ NoLogger(s) /\ Ends(s, "crashed") /\ UNCHANGED workers
       \/ /\ ~NoLogger(s) /\ Go(s, "stopping") /\ UNCHANGED lock
          /\ \E w \in WorkersLeft(s, "told") :
                workers' = [workers EXCEPT ![s] = w]
    /\ UNCHANGED <<depth, step, level, back, debug, width, forks, printed,
                   made, file, refused>>

\* server::shutdown closes the pid file, and with it goes the lock; the
\* process lives on.
ClosePidFile(s) ==
    /\ at[s] = "stopping" /\ Go(s, "closed")
    /\ lock' = (IF lock = Process(s) THEN NoProcess ELSE lock)
    /\ UNCHANGED <<depth, step, level, back, debug, width, forks, workers,
                   printed, made, file, refused>>

\* The signal raised at the end of the handler is delivered: when the handler
\* returns, or later, when run unblocks it.
Die(s) ==
    /\ at[s] = "closed" /\ Ends(s, "ended")
    /\ UNCHANGED <<depth, step, level, back, debug, width, forks, workers,
                   printed, made, file, refused>>

\* SIGKILL, or a fault, leaves the workers as they are.
Kill(s) ==
    /\ Alive(s)
    /\ Ends(s, "crashed")
    /\ \E w \in WorkersLeft(s, "serving") : workers' = [workers EXCEPT ![s] = w]
    /\ UNCHANGED <<depth, step, level, back, debug, width, forks, printed,
                   made, file, refused>>

WorkersEnd(s) ==
    /\ workers[s] = "told" \/ (workers[s] = "serving" /\ ~Alive(s))
    /\ workers' = [workers EXCEPT ![s] = "none"]
    /\ UNCHANGED <<depth, at, step, level, back, debug, width, forks, printed,
                   made, lock, file, refused>>

-----------------------------------------------------------------------------

MainStep(s) ==
    \/ ReadOptions(s)
    \/ MakeDirectory(s) \/ FindDirectory(s) \/ LoseDirectory(s)
    \/ MakeParent(s) \/ OverflowStack(s)
    \/ ForkDaemon(s) \/ PrepareDaemon(s) \/ CloseDescriptors(s)
    \/ LockFile(s) \/ WritePid(s)
    \/ OpenLog(s) \/ Bind(s) \/ Spawn(s)
    \/ ClosePidFile(s) \/ Die(s)

Next ==
    \E s \in Starts :
        \/ Launch(s) \/ MainStep(s) \/ Refuse(s) \/ PrintText(s)
        \/ Terminate(s) \/ Kill(s) \/ WorkersEnd(s)

Spec == Init /\ [][Next]_vars

\* A process that has been started runs. Nothing makes anybody start one or
\* end one, nothing makes the system refuse a call, or workers end.
FairSpec == Spec /\ \A s \in Starts : WF_vars(MainStep(s))

-----------------------------------------------------------------------------
(* Properties.                                                              *)

\* daemonize: "lock pid file to ensure we have only one copy". Of two daemons
\* that live and have passed the lock, one is about to die: it has told its
\* workers, deleted its manager with the port, and closed the pid file. (The
\* lock goes with that close, before the process does, so for this moment
\* there may be two.) A lock belongs to a process, so neither the parent's
\* exit nor a closed descriptor may come after it.
PastLock(s) ==
    /\ Alive(s)
    /\ \E i \in 1 .. (step[s] - 1) : DaemonSteps[i] = "lock"
OneDaemon ==
    \A s, t \in Starts :
        PastLock(s) /\ PastLock(t) /\ s # t => "closed" \in {at[s], at[t]}

\* Workers that outlive their daemon, or its pid file, have printed at a
\* position of the file.
PrintedOver(i) ==
    \E t \in Starts :
        /\ ~Alive(t) \/ at[t] = "closed"
        /\ i - Len(PidLine(t)) \in 1 .. printed[t]

\* daemonize writes its pid into the file that it has locked: until the daemon
\* closes it, the first line of the file is its pid, whatever former daemons
\* have left there, later starts try and its own workers print. What the
\* workers of a former daemon print is all that may be found inside it, and
\* only behind the length of that daemon's own line.
PidFileNames ==
    \A s \in Starts :
        PastLock(s) /\ at[s] \notin {"daemonize", "closed"} =>
            /\ Len(file) >= Len(PidLine(s))
            /\ \A i \in 1 .. Len(PidLine(s)) :
                  \/ file[i] = PidLine(s)[i]
                  \/ file[i] = "text" /\ PrintedOver(i)

\* Several starts at once get into each other's way at the directories
\* (mkdirp), the lock (daemonize) and the port (Manager::Manager), but they do
\* not all fail, if the system refuses nothing.
SomeoneServes == (\A s \in Starts : at[s] = "failed") => refused

\* Every start comes to an end of main's preparations: it serves or is gone.
\* mkdirp calls itself until a parent exists.
StartSettles ==
    \A s \in Starts : at[s] = "options" ~> at[s] \in Gone \cup {"serving"}
=============================================================================
