------------------------------- MODULE Server -------------------------------
(***************************************************************************)
(* The pre-forking core of bitz-server: the manager process                *)
(* (src/bitz/manager.cpp), its start, its run loop and its signal handlers *)
(* (src/bitz-server.cpp), and its workers as the kernel sees them.         *)
(*                                                                         *)
(* The manager's code is a sequence of atomic steps between which a signal *)
(* handler may run: every handler is installed with a full sa_mask, so it  *)
(* runs to its end before the interrupted code or another handler goes on, *)
(* while the workers, which are other processes, go on all the time.       *)
(* SIGTERM, SIGQUIT and SIGINT share termination_handler and are the       *)
(* members of TermSigs.                                                    *)
(***************************************************************************)
EXTENDS Integers, FiniteSets

CONSTANTS
    MaxWorkers,      \* config.max_workers
    Pids,            \* the process identifiers fork() may hand to a worker
    NoPid,           \* worker_pid 0: nobody in this slot
    Junk,            \* what an uninitialised worker_pool_t may hold
    TermSigs,        \* the signals served by termination_handler
    CHLD,            \* SIGCHLD
    SplitIncrement,  \* TRUE: the build loads and stores workers_count apart
    CountBound       \* bound: how far workers_count may drift in such a build

ASSUME MaxWorkersAssumption == MaxWorkers \in Nat
ASSUME PidsAssumption == NoPid \notin Pids /\ Junk \notin Pids /\ NoPid # Junk
ASSUME SignalsAssumption == CHLD \notin TermSigs
ASSUME SplitAssumption == SplitIncrement \in BOOLEAN /\ CountBound \in Nat

Slots == 0 .. (MaxWorkers - 1)

VARIABLES
    pc,           \* where the manager's main flow is
    fate,         \* "running", or how the manager process ended
    phase,        \* "spawn" inside Manager::spawn, "run" inside server::run
    slot,         \* the loop index of spawn / manage_workers
    child,        \* spawn_worker's local worker_pid, until it is recorded
    loaded,       \* the register of a split workers_count++
    pool,         \* worker_pool[i].worker_pid
    count,        \* workers_count
    manager,      \* globals.manager: "null", "live" or "deleted"
    handler,      \* the step of the handler that is running, or "none"
    signo,        \* the termination signal being handled
    pending,      \* signals sent to the manager and not delivered
    default,      \* termination signals whose disposition is SIG_DFL again
    terminating,  \* globals.terminating
    proc,         \* the kernel's view of each worker process
    copy,         \* the worker_pool a new child inherited, as a set of pids
    termed,       \* workers with an undelivered termination signal
    faults        \* the misdeeds done so far (history)

flowVars   == <<pc, fate, phase, slot, child, loaded>>
poolVars   == <<pool, count, manager>>
signalVars == <<handler, signo, pending, default, terminating>>
procVars   == <<proc, copy, termed>>
vars == <<flowVars, poolVars, signalVars, procVars, faults>>

(***************************************************************************)
(* The life of a worker process.  "newborn": forked, _manager.worker still *)
(* false, so a handler running in it takes it for the manager.  "loading": *)
(* its Worker object is not in worker_pool yet.  "worker": serving.        *)
(* "ending": the Worker object is deleted, _exit comes next.               *)
(***************************************************************************)
LiveStates == {"newborn", "loading", "worker", "ending"}
ProcStates == LiveStates \cup {"free", "zombie"}

Live == {p \in Pids : proc[p] \in LiveStates}
Recorded == {i \in Slots : pool[i] \in Pids}
Owners == {pool[i] : i \in Recorded}

\* Ended by exit(), by a signal's default action, by a memory fault.
EndStates == {"exited", "signaled", "crashed"}
Gone == fate # "running"

FlowStates == {"new", "spawn", "alloc", "fork", "count", "store", "record",
               "block", "presuspend", "suspend", "unblock", "check", "scan"}
HandlerStates == {"none", "reap", "shutdown", "delete", "raise"}
Faults == {"stray kill", "sibling kill", "null pool", "use after delete",
           "double delete", "junk delete", "worker double delete"}

TypeOK ==
    /\ pc \in FlowStates
    /\ fate \in EndStates \cup {"running"}
    /\ phase \in {"spawn", "run"}
    /\ slot \in 0 .. MaxWorkers
    /\ child \in Pids \cup {NoPid}
    /\ loaded \in Int
    /\ pool \in [Slots -> Pids \cup {NoPid, Junk}]
    /\ count \in Int
    /\ manager \in {"null", "live", "deleted"}
    /\ handler \in HandlerStates
    /\ signo \in TermSigs \cup {CHLD}
    /\ pending \subseteq TermSigs \cup {CHLD}
    /\ default \subseteq TermSigs
    /\ terminating \in BOOLEAN
    /\ proc \in [Pids -> ProcStates]
    /\ copy \in [Pids -> SUBSET (Pids \cup {Junk})]
    /\ termed \subseteq Pids
    /\ faults \subseteq Faults

Init ==
    /\ pc = "new" /\ fate = "running" /\ phase = "spawn" /\ slot = 0
    /\ child = NoPid
    /\ loaded = 0 /\ count = 0 /\ manager = "null"
    /\ pool = [i \in Slots |-> NoPid]
    /\ handler = "none" /\ signo = CHLD /\ pending = {} /\ default = {}
    /\ terminating = FALSE
    /\ proc = [p \in Pids |-> "free"]
    /\ copy = [p \in Pids |-> {}]
    /\ termed = {} /\ faults = {}

-----------------------------------------------------------------------------
(* Signal masks.  run() blocks the termination signals except while it      *)
(* waits in sigsuspend and while it manages the workers; SIGCHLD is never   *)
(* blocked outside a handler.                                               *)

Masked == IF pc \in {"presuspend", "unblock"} THEN TermSigs ELSE {}
Deliverable ==
    IF Gone \/ handler # "none" THEN {} ELSE pending \ Masked

\* The main flow executes its next instruction only when no signal waits.
Running == ~Gone /\ handler = "none" /\ Deliverable = {}

Step(from, to) == pc = from /\ pc' = to

\* The manager process ends; init(8) reaps the children that are zombies.
ManagerEnds(how) ==
    /\ fate' = how
    /\ proc' = [p \in Pids |-> IF proc[p] = "zombie" THEN "free" ELSE proc[p]]
    /\ pending' = {}
    /\ handler' = "none"
    /\ UNCHANGED <<pc, phase, slot, child, loaded, poolVars, signo, default,
                   terminating, copy, termed>>

-----------------------------------------------------------------------------
(* server::start, Manager::Manager and Manager::spawn.                      *)

NewManager ==
    /\ Running
    /\ \/ /\ Step("new", "spawn")
          /\ manager' = "live"
          /\ UNCHANGED <<fate, phase, slot, child, loaded, pool, count,
                         signalVars, procVars>>
       \/ /\ pc = "new"                \* the address is in use: exit(1)
          /\ ManagerEnds("exited")
    /\ UNCHANGED faults

SpawnSetup ==
    /\ Running
    /\ Step("spawn", "alloc")
    /\ UNCHANGED <<fate, phase, slot, child, loaded, poolVars, signalVars,
                   procVars, faults>>

\* "Off by one": the loop of spawn runs once more.
AfterSlotOnceMore(i) ==
    IF phase = "run" THEN "scan"
    ELSE IF i <= MaxWorkers THEN "fork" ELSE "block"

\* What follows once slot i is done: the next slot of the spawn loop, the
\* next slot of the manage_workers loop, or the run loop.
AfterSlot(i) ==
    IF phase = "run" THEN "scan"
    ELSE IF i < MaxWorkers THEN "fork" ELSE "block"

\* new worker_pool_t[max_workers] leaves its elements uninitialised.
SpawnAlloc ==
    /\ Running
    /\ Step("alloc", AfterSlot(0))
    /\ \E x \in {NoPid, Junk} : pool' = [i \in Slots |-> x]
    /\ UNCHANGED <<fate, phase, slot, child, loaded, count, manager,
                   signalVars, procVars, faults>>

-----------------------------------------------------------------------------
(* Manager::spawn_worker in the manager.                                    *)

ForkWorker(p) ==
    /\ Running
    /\ proc[p] = "free"
    /\ Step("fork", "count")
    /\ child' = p
    /\ proc' = [proc EXCEPT ![p] = "newborn"]
    /\ copy' = [copy EXCEPT ![p] = {pool[i] : i \in Slots} \ {NoPid}]
    /\ UNCHANGED <<fate, phase, slot, loaded, poolVars, signalVars, termed,
                   faults>>

\* In spawn the exception reaches start(), which exits; manage_workers
\* catches it and goes on with the next slot.
ForkFails ==
    /\ Running
    /\ pc = "fork"
    /\ \/ /\ phase = "spawn"
          /\ ManagerEnds("exited")
       \/ /\ phase = "run"
          /\ pc' = "scan" /\ slot' = slot + 1
          /\ UNCHANGED <<fate, phase, child, loaded, poolVars, signalVars,
                         procVars>>
    /\ UNCHANGED faults

CountWorker ==
    /\ Running
    /\ ~SplitIncrement
    /\ Step("count", "record")
    /\ count' = count + 1
    /\ UNCHANGED <<fate, phase, slot, child, loaded, pool, manager,
                   signalVars, procVars, faults>>

LoadCount ==
    /\ Running
    /\ SplitIncrement
    /\ count < CountBound
    /\ Step("count", "store")
    /\ loaded' = count
    /\ UNCHANGED <<fate, phase, slot, child, poolVars, signalVars, procVars,
                   faults>>

StoreCount ==
    /\ Running
    /\ Step("store", "record")
    /\ count' = loaded + 1
    /\ loaded' = 0
    /\ UNCHANGED <<fate, phase, slot, child, pool, manager, signalVars,
                   procVars, faults>>

RecordWorker ==
    /\ Running
    /\ Step("record", AfterSlot(slot + 1))
    /\ pool' = [pool EXCEPT ![slot] = child]
    /\ child' = NoPid
    /\ slot' = slot + 1
    /\ UNCHANGED <<fate, phase, loaded, count, manager, signalVars, procVars,
                   faults>>

-----------------------------------------------------------------------------
(* server::run and Manager::manage_workers.                                 *)

BlockTermination ==
    /\ Running
    /\ Step("block", "presuspend")
    /\ phase' = "run"
    /\ slot' = 0
    /\ UNCHANGED <<fate, child, loaded, poolVars, signalVars, procVars,
                   faults>>

\* The loop condition, and the call that waits for a signal.  Should the
\* condition fail, run() and main() return.
SigSuspend ==
    /\ Running
    /\ pc = "presuspend"
    /\ IF terminating
       THEN ManagerEnds("exited")
       ELSE /\ pc' = "suspend"
            /\ UNCHANGED <<fate, phase, slot, child, loaded, poolVars,
                           signalVars, procVars>>
    /\ UNCHANGED faults

UnblockTermination ==
    /\ Running
    /\ Step("unblock", "check")
    /\ UNCHANGED <<fate, phase, slot, child, loaded, poolVars, signalVars,
                   procVars, faults>>

CheckWorkers ==
    /\ Running
    /\ Step("check", IF count # MaxWorkers THEN "scan" ELSE "block")
    /\ slot' = 0
    /\ UNCHANGED <<fate, phase, child, loaded, poolVars, signalVars, procVars,
                   faults>>

\* "Off by one": the scan forgets the last slot.
ScanSlotForgetsLast ==
    /\ Running
    /\ pc = "scan"
    /\ \/ slot >= MaxWorkers - 1
          /\ pc' = "check" /\ UNCHANGED slot
       \/ slot < MaxWorkers - 1 /\ pool[slot] = NoPid
          /\ pc' = "fork" /\ UNCHANGED slot
       \/ slot < MaxWorkers - 1 /\ pool[slot] # NoPid
          /\ slot' = slot + 1 /\ UNCHANGED pc
    /\ UNCHANGED <<fate, phase, child, loaded, poolVars, signalVars, procVars,
                   faults>>

\* "Missing guard": a worker is spawned for every slot.
ScanSlotSpawnsAll ==
    /\ Running
    /\ pc = "scan"
    /\ pc' = IF slot = MaxWorkers THEN "check" ELSE "fork"
    /\ UNCHANGED <<fate, phase, slot, child, loaded, poolVars, signalVars,
                   procVars, faults>>

ScanSlot ==
    /\ Running
    /\ pc = "scan"
    /\ \/ slot = MaxWorkers
          /\ pc' = "check" /\ UNCHANGED slot
       \/ slot < MaxWorkers /\ pool[slot] = NoPid
          /\ pc' = "fork" /\ UNCHANGED slot
       \/ slot < MaxWorkers /\ pool[slot] # NoPid
          /\ slot' = slot + 1 /\ UNCHANGED pc
    /\ UNCHANGED <<fate, phase, child, loaded, poolVars, signalVars, procVars,
                   faults>>

-----------------------------------------------------------------------------
(* sigchld_handler and Manager::reap_worker.                                *)

SigchldEnter ==
    /\ CHLD \in Deliverable
    /\ handler' = "reap"
    /\ pending' = pending \ {CHLD}
    /\ UNCHANGED <<flowVars, poolVars, signo, default, terminating, procVars,
                   faults>>

\* reap_worker: the first slot that holds the pid is emptied and counted off.
Forget(p) ==
    \/ \E i \in Recorded :
          /\ pool[i] = p
          /\ \A j \in 0 .. (i - 1) : pool[j] # p
          /\ pool' = [pool EXCEPT ![i] = NoPid]
          /\ count' = count - 1
    \/ p \notin Owners /\ UNCHANGED <<pool, count>>

\* A handler that touches the deleted manager crashes, or finds the freed
\* memory still readable and changes nothing that is used again.
Misuse(fault) ==
    /\ faults' = faults \cup {fault}
    /\ UNCHANGED <<pool, count>>

\* "Swapped order": the worker is counted off although no slot holds its pid.
ReapWorkerAlwaysCounts(p) ==
    /\ handler = "reap"
    /\ proc[p] = "zombie"
    /\ proc' = [proc EXCEPT ![p] = "free"]
    /\ count' = count - 1
    /\ pool' = [i \in Slots |-> IF pool[i] = p THEN NoPid ELSE pool[i]]
    /\ UNCHANGED <<flowVars, manager, signalVars, copy, termed, faults>>

\* "Wrong index": the slot the main flow works on is emptied.
ReapWorkerWrongSlot(p) ==
    /\ handler = "reap"
    /\ proc[p] = "zombie"
    /\ proc' = [proc EXCEPT ![p] = "free"]
    /\ IF slot \in Recorded
       THEN pool' = [pool EXCEPT ![slot] = NoPid] /\ count' = count - 1
       ELSE UNCHANGED <<pool, count>>
    /\ UNCHANGED <<flowVars, manager, signalVars, copy, termed, faults>>

ReapWorker(p) ==
    /\ handler = "reap"
    /\ proc[p] = "zombie"
    /\ proc' = [proc EXCEPT ![p] = "free"]
    /\ CASE manager = "live"    -> Forget(p) /\ UNCHANGED faults
         [] manager = "deleted" -> Misuse("use after delete")
         [] manager = "null"    -> UNCHANGED <<pool, count, faults>>
    /\ UNCHANGED <<flowVars, manager, signalVars, copy, termed>>

SigchldReturn ==
    /\ handler = "reap"
    /\ \A p \in Pids : proc[p] # "zombie"
    /\ handler' = "none"
    /\ pc' = IF pc = "suspend" THEN "unblock" ELSE pc
    /\ UNCHANGED <<fate, phase, slot, child, loaded, poolVars, signo, pending,
                   default, terminating, procVars, faults>>

-----------------------------------------------------------------------------
(* termination_handler and Manager::shutdown in the manager.                *)

\* If the server terminates already the signal is raised again, and the
\* handler goes on (nothing returns after the raise).
TermEnter(s) ==
    /\ s \in Deliverable \cap TermSigs
    /\ s \notin default
    /\ handler' = "shutdown"
    /\ signo' = s
    /\ pending' = IF terminating THEN pending ELSE pending \ {s}
    /\ terminating' = TRUE
    /\ UNCHANGED <<flowVars, poolVars, default, procVars, faults>>

\* spawn() has set max_workers already and worker_pool not yet.
PoolAllocated == pc # "alloc" \/ MaxWorkers = 0

Targets == {pool[i] : i \in Slots} \ {NoPid}
IsStray(p) == p = Junk \/ proc[p] = "free"
KillFaults(targets) ==
    IF \E p \in targets : IsStray(p) THEN {"stray kill"} ELSE {}

\* kill( worker_pid, SIGTERM ) for every slot that is taken.
KillWorkers ==
    /\ termed' = termed \cup (Targets \cap Live)
    /\ faults' = faults \cup KillFaults(Targets)

\* "Off by one": the last slot gets no signal.
ManagerShutdownForgetsLast ==
    /\ handler = "shutdown"
    /\ manager = "live"
    /\ PoolAllocated
    /\ handler' = "delete"
    /\ LET told == {pool[i] : i \in Slots \ {MaxWorkers - 1}}
       IN  termed' = termed \cup (told \cap Live)
    /\ UNCHANGED <<flowVars, poolVars, signo, pending, default, terminating,
                   proc, copy, faults>>

ManagerShutdown ==
    /\ handler = "shutdown"
    /\ handler' = IF manager = "null" THEN "raise" ELSE "delete"
    /\ CASE manager = "null"    -> UNCHANGED <<termed, faults>>
         [] manager = "live"    -> PoolAllocated /\ KillWorkers
         [] manager = "deleted" -> /\ Misuse("use after delete")
                                   /\ UNCHANGED termed
    /\ UNCHANGED <<flowVars, poolVars, signo, pending, default, terminating,
                   proc, copy>>

ManagerDelete ==
    /\ handler = "delete"
    /\ handler' = "raise"
    /\ manager' = "deleted"
    /\ faults' = IF manager = "deleted" THEN faults \cup {"double delete"}
                                        ELSE faults
    /\ UNCHANGED <<flowVars, pool, count, signo, pending, default,
                   terminating, procVars>>

\* A handler faults: the pool is not allocated yet, or the manager is gone.
ManagerCrashes ==
    /\ \/ /\ handler = "shutdown" /\ manager = "live"
          /\ ~PoolAllocated
          /\ faults' = faults \cup {"null pool"}
       \/ /\ manager = "deleted"
          /\ \/ handler = "shutdown"
             \/ handler = "reap" /\ \E p \in Pids : proc[p] = "zombie"
          /\ faults' = faults \cup {"use after delete"}
       \/ /\ manager = "deleted" /\ handler = "delete"
          /\ faults' = faults \cup {"double delete"}
    /\ ManagerEnds("crashed")

\* "Missing reset": the signal's default action is not restored.
RaiseAgainHandled ==
    /\ handler = "raise"
    /\ handler' = "none"
    /\ pending' = pending \cup {signo}
    /\ signo' = CHLD
    /\ pc' = IF pc = "suspend" THEN "unblock" ELSE pc
    /\ UNCHANGED <<fate, phase, slot, child, loaded, poolVars, default,
                   terminating, procVars, faults>>

\* "Dropped call": the signal is not raised again.
RaiseAgainForgotten ==
    /\ handler = "raise"
    /\ handler' = "none"
    /\ default' = default \cup {signo}
    /\ signo' = CHLD
    /\ pc' = IF pc = "suspend" THEN "unblock" ELSE pc
    /\ UNCHANGED <<fate, phase, slot, child, loaded, poolVars, pending,
                   terminating, procVars, faults>>

\* server::shutdown, signal( sig, SIG_DFL ), raise( sig ) and the return.
RaiseAgain ==
    /\ handler = "raise"
    /\ handler' = "none"
    /\ default' = default \cup {signo}
    /\ pending' = pending \cup {signo}
    /\ signo' = CHLD
    /\ pc' = IF pc = "suspend" THEN "unblock" ELSE pc
    /\ UNCHANGED <<fate, phase, slot, child, loaded, poolVars, terminating,
                   procVars, faults>>

DieBySignal(s) ==
    /\ s \in Deliverable \cap default
    /\ ManagerEnds("signaled")
    /\ UNCHANGED faults

-----------------------------------------------------------------------------
(* The worker processes.                                                    *)

\* A worker dies: a zombie if it has a parent to reap it.
WorkerDies(p) ==
    /\ proc' = [proc EXCEPT ![p] = IF Gone THEN "free" ELSE "zombie"]
    /\ copy' = [copy EXCEPT ![p] = {}]
    /\ pending' = IF Gone THEN pending ELSE pending \cup {CHLD}
    /\ UNCHANGED <<flowVars, poolVars, handler, signo, default, terminating>>

Progress(p, from, to) ==
    /\ proc[p] = from
    /\ proc' = [proc EXCEPT ![p] = to]
    /\ UNCHANGED <<flowVars, poolVars, signalVars, termed, faults>>

BecomeWorker(p) == Progress(p, "newborn", "loading") /\ UNCHANGED copy

LoadWorker(p) ==
    /\ Progress(p, "loading", "worker")
    /\ copy' = [copy EXCEPT ![p] = {}]

\* Worker::run returns and the Worker object is deleted.
EndOfCycle(p) == Progress(p, "worker", "ending") /\ UNCHANGED copy

WorkerExits(p) ==
    /\ proc[p] = "ending"
    /\ WorkerDies(p)
    /\ termed' = termed \ {p}
    /\ UNCHANGED faults

\* Killed from outside, or by a fault of its own, while it serves.
WorkerCrashes(p) ==
    /\ proc[p] = "worker"
    /\ WorkerDies(p)
    /\ termed' = termed \ {p}
    /\ UNCHANGED faults

\* termination_handler in the child: what it does depends on how much of
\* spawn_worker the child has executed.
WorkerTerminated(p) ==
    /\ p \in termed
    /\ WorkerDies(p)
    /\ \/ /\ proc[p] = "newborn"                  \* it acts as the manager
          /\ termed' = (termed \ {p}) \cup ((copy[p] \cap Live) \ {p})
          /\ faults' = faults \cup KillFaults(copy[p])
                       \cup {f \in {"sibling kill"} : copy[p] \cap Live # {}}
       \/ /\ proc[p] = "loading"                  \* deletes what it inherited
          /\ termed' = termed \ {p}
          /\ faults' = faults \cup {f \in {"junk delete"} : Junk \in copy[p]}
       \/ /\ proc[p] = "worker"
          /\ termed' = termed \ {p}
          /\ UNCHANGED faults
       \/ /\ proc[p] = "ending"                   \* deletes it once more
          /\ termed' = termed \ {p}
          /\ faults' = faults \cup {"worker double delete"}

-----------------------------------------------------------------------------
(* Outside: someone signals the manager, or one worker.                     *)

SendTermination(s) ==
    /\ ~Gone
    /\ s \notin pending
    /\ pending' = pending \cup {s}
    /\ UNCHANGED <<flowVars, poolVars, handler, signo, default, terminating,
                   procVars, faults>>

SignalWorker(p) ==
    /\ p \in Live \ termed
    /\ termed' = termed \cup {p}
    /\ UNCHANGED <<flowVars, poolVars, signalVars, proc, copy, faults>>

-----------------------------------------------------------------------------
Spawn == NewManager \/ SpawnSetup \/ SpawnAlloc
SpawnWorker ==
    \/ ForkFails \/ CountWorker \/ LoadCount \/ StoreCount \/ RecordWorker
    \/ \E p \in Pids : ForkWorker(p)
RunLoop ==
    \/ BlockTermination \/ SigSuspend \/ UnblockTermination
    \/ CheckWorkers \/ ScanSlot
Handler ==
    \/ SigchldEnter \/ SigchldReturn \/ ManagerShutdown \/ ManagerDelete
    \/ ManagerCrashes \/ RaiseAgain
    \/ \E p \in Pids : ReapWorker(p)
    \/ \E s \in TermSigs : TermEnter(s) \/ DieBySignal(s)
Manager == Spawn \/ SpawnWorker \/ RunLoop \/ Handler

WorkerStep(p) == BecomeWorker(p) \/ LoadWorker(p) \/ WorkerTerminated(p)
Environment ==
    \/ \E p \in Pids : EndOfCycle(p) \/ WorkerExits(p) \/ WorkerCrashes(p)
    \/ \E p \in Pids : SignalWorker(p)
    \/ \E s \in TermSigs : SendTermination(s)

Next == Manager \/ (\E p \in Pids : WorkerStep(p)) \/ Environment

Spec == Init /\ [][Next]_vars

\* The kernel schedules the manager and its workers and delivers signals;
\* fork() does not fail for ever on the same slot.  When workers end, and who
\* signals whom, is left open.
Fairness ==
    /\ WF_vars(Manager)
    /\ \A i \in Slots : SF_vars(slot = i /\ \E p \in Pids : ForkWorker(p))
    /\ \A p \in Pids : WF_vars(WorkerStep(p))
FairSpec == Spec /\ Fairness
-----------------------------------------------------------------------------
(* What the manager must get right whatever signals interrupt it.           *)

\* workers_count is the number of slots that are taken, except between the
\* increment and the assignment to the slot in spawn_worker: neither the
\* reaper nor a failed fork may leave the two apart, or manage_workers stops
\* too early or never ends.
CountMatchesPool ==
    count = Cardinality(Recorded) + (IF pc = "record" THEN 1 ELSE 0)

\* How far workers_count is from the slots that are taken.
Drift == count - Cardinality(Recorded) - (IF pc = "record" THEN 1 ELSE 0)

\* In a build that splits the increment, workers_count parts from the pool in
\* one way only: a torn increment stores over what the reaper has counted off
\* meanwhile, so the count becomes too high by at least one and by at most
\* the other slots that are empty then.  No other step makes or mends a
\* difference.  (The property bounds the damage of a tear, it does not excuse
\* it: manage_workers compares the count with max_workers, so the manager
\* overlooks as many empty slots as decrements were lost, and while the count
\* is above max_workers its loop does not end.)
DriftIsTorn ==
    [][LET lost == Drift' - Drift
       IN  lost # 0 =>
              /\ pc = "store"
              /\ lost \in 1 .. Cardinality(Slots \ (Recorded \cup {slot}))]_vars

\* Every child of the manager is in a slot, or is the one that spawn_worker
\* is about to enter: a child the manager has lost track of is never
\* terminated, and its death never makes room for another.  (The reverse does
\* not hold: a child that is reaped before it is recorded leaves its pid in
\* the pool.)
ChildrenKnown ==
    ~Gone => \A p \in Pids : proc[p] # "free" => p \in Owners \/ p = child

\* max_workers is "maximum number of workers" (the configuration file):
\* there are never more worker processes, however deaths, reaping and
\* spawning interleave, and whatever the manager left behind when it ended.
WorkersBounded == Cardinality(Live) <= MaxWorkers

\* When a termination signal ends the manager, no worker that was recorded
\* goes on without a SIGTERM.  (A worker whose fork was under way may: it is
\* in no slot yet, and survives the manager.)
TermReachesChildren ==
    fate = "signaled" => \A p \in Live : p \in termed \/ p = child

\* "This process will never return, instead the termination signal will end
\* the process" (bitz-server.h); "we should never get here" (main.cpp).
RunNeverReturns == fate = "exited" => phase = "spawn"

\* No slot is emptied before its process has died, no process is born while
\* another one is unrecorded, and workers_count is the number of slots taken
\* after every step: the manager implements the worker pool of WorkerPool.
SlotOwner == [i \in Slots |-> IF pool[i] \in Pids THEN pool[i] ELSE NoPid]
Tally == count - (IF pc = "record" THEN 1 ELSE 0)
Pool == INSTANCE WorkerPool
            WITH owner <- SlotOwner, tally <- Tally, alive <- Live
PoolImplemented == Pool!PoolSpec

\* A termination signal ends the manager, wherever it finds it.  (A fault in
\* a handler counts as an end; what the handlers log, which takes a mutex and
\* memory that the interrupted code may hold, is left out.)
TerminationEnds == (pending \cap TermSigs # {}) ~> Gone

\* A slot that manage_workers finds empty is filled again, unless the manager
\* ends: no failing fork() makes it pass over the slot for good.  (Filled with
\* the pid of a new child, which may be dead when it is recorded.)
CheckRespawns ==
    \A i \in Slots :
        (pc = "check" /\ pool[i] = NoPid) ~> (pool[i] # NoPid \/ Gone)

-----------------------------------------------------------------------------
(* What the comments and the documentation promise and the code does not do *)
(* in every interleaving; each is the property of a run of its own.         *)

\* "Run the server managing workers until a termination signal is received"
\* (bitz-server.h): a worker that is missing is spawned again.
MissingIsSpawned ==
    (pc = "suspend" /\ count # MaxWorkers) ~> (count = MaxWorkers \/ Gone)

\* "the termination signal will end the process" (bitz-server.h), and not a
\* memory fault on the way: no handler uses the manager once it is deleted.
NoUseAfterDelete == "use after delete" \notin faults
=============================================================================
