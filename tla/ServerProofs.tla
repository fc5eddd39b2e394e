---------------------------- MODULE ServerProofs ----------------------------
(***************************************************************************)
(* Proofs about Server, for any number of workers, any set of pids and any *)
(* set of termination signals.                                             *)
(*                                                                         *)
(* The inductive invariant ties the manager's position in its code to the  *)
(* slot and the child it is working on (FlowInv), to the handler that runs *)
(* (HandlerInv) and to what the handlers have left behind (ReachInv).      *)
(***************************************************************************)
EXTENDS Server, FiniteSetTheorems, TLAPS

\* spawn_worker holds an unrecorded child exactly between fork() and the
\* assignment to the slot, and that slot is empty.  While spawn() fills the
\* pool, the slots it has not reached hold no pid.
InSpawnWorker == {"count", "store", "record"}
FlowInv ==
    /\ pc \in InSpawnWorker => child \in Pids
    /\ pc \notin InSpawnWorker => child = NoPid
    /\ pc \in InSpawnWorker \cup {"fork"} =>
          slot \in Slots /\ pool[slot] \notin Pids
    /\ pc \in {"new", "spawn", "alloc"} => phase = "spawn" /\ slot = 0
    /\ phase = "spawn" =>
          /\ pc \in InSpawnWorker
                   \cup {"new", "spawn", "alloc", "fork", "block"}
          /\ \A j \in Slots : j >= slot => pool[j] \notin Pids

\* The handlers' order: shutdown, delete, raise; afterwards the default
\* action of a signal that is pending waits for the manager.
HandlerInv ==
    /\ handler \in {"shutdown", "delete", "raise"} =>
          signo \in TermSigs /\ terminating
    /\ manager = "null" => pc = "new"
    /\ manager = "deleted" => default # {} \/ handler = "raise"
    /\ ~Gone /\ terminating /\ handler \in {"none", "reap"} => default # {}
    /\ ~Gone => default \subseteq pending
    /\ default # {} => terminating
    /\ Gone => handler = "none"

\* No worker is left out by a shutdown that has been done.
AllTermed == \A p \in Live : p \in termed \/ p = child
ShutdownDone ==
    handler \in {"delete", "raise"} \/ manager = "deleted" \/ default # {}
ReachInv ==
    /\ ShutdownDone => AllTermed
    /\ fate = "signaled" => ShutdownDone
    /\ pc = "new" => Live = {}

\* The mask that run() installs keeps termination out of the loop condition.
MaskInv ==
    /\ ~Gone /\ pc = "presuspend" => ~terminating
    /\ RunNeverReturns

\* The parts that need each other to be inductive.
FlowsInv ==
    /\ TypeOK
    /\ FlowInv
    /\ HandlerInv
    /\ ChildrenKnown
    /\ ReachInv
    /\ MaskInv

\* No more workers than slots, while the manager is there and after it.
BoundInv == IsFiniteSet(Live) /\ WorkersBounded

\* The count, in a build whose increment is one instruction.
CountInv == CountMatchesPool /\ pc # "store"

IInv == FlowsInv /\ BoundInv /\ (~SplitIncrement => CountInv)

-----------------------------------------------------------------------------
(* One lemma for each part of the invariant, one step for each action.      *)

\* Every step preserves the types.
LEMMA TypeStep ==
    ASSUME TypeOK, FlowInv, HandlerInv, [Next]_vars
    PROVE  TypeOK'
<1> USE DEF TypeOK,
           flowVars, poolVars, signalVars, procVars
<1>1. CASE NewManager
  <2>1. CASE ManagerEnds("exited") /\ UNCHANGED faults
    BY <2>1 DEF ManagerEnds, EndStates, LiveStates, ProcStates,
       HandlerStates
  <2>2. CASE ~ManagerEnds("exited")
    BY <1>1, <2>2 DEF NewManager, Step, FlowStates
  <2> QED
    BY <1>1, <2>1, <2>2 DEF NewManager
<1>2. CASE SpawnSetup
  BY <1>2 DEF SpawnSetup, Step, FlowStates
<1>3. CASE SpawnAlloc
  BY <1>3 DEF SpawnAlloc, Step, AfterSlot, FlowStates
<1>4. ASSUME NEW p \in Pids, ForkWorker(p) PROVE TypeOK'
  BY <1>4 DEF ForkWorker, Step, FlowStates, LiveStates, ProcStates, Slots
<1>5. CASE ForkFails
  <2>1. CASE ManagerEnds("exited") /\ UNCHANGED faults
    BY <2>1 DEF ManagerEnds, EndStates, LiveStates, ProcStates,
       HandlerStates
  <2>2. CASE ~ManagerEnds("exited")
    BY <1>5, <2>2, MaxWorkersAssumption DEF ForkFails, FlowStates, FlowInv,
       InSpawnWorker, Slots
  <2> QED
    BY <1>5, <2>1, <2>2 DEF ForkFails
<1>6. CASE CountWorker
  BY <1>6 DEF CountWorker, Step, FlowStates
<1>7. CASE LoadCount
  BY <1>7 DEF LoadCount, Step, FlowStates
<1>8. CASE StoreCount
  BY <1>8 DEF StoreCount, Step, FlowStates
<1>9. CASE RecordWorker
  BY <1>9, MaxWorkersAssumption DEF RecordWorker, Step, AfterSlot,
     FlowStates, Slots, FlowInv, InSpawnWorker
<1>10. CASE BlockTermination
  BY <1>10, MaxWorkersAssumption DEF BlockTermination, Step, FlowStates
<1>11. CASE SigSuspend
  <2>1. CASE ManagerEnds("exited") /\ UNCHANGED faults
    BY <2>1 DEF ManagerEnds, EndStates, LiveStates, ProcStates,
       HandlerStates
  <2>2. CASE ~ManagerEnds("exited")
    BY <1>11, <2>2 DEF SigSuspend, FlowStates
  <2> QED
    BY <1>11, <2>1, <2>2 DEF SigSuspend
<1>12. CASE UnblockTermination
  BY <1>12 DEF UnblockTermination, Step, FlowStates
<1>13. CASE CheckWorkers
  BY <1>13, MaxWorkersAssumption DEF CheckWorkers, Step, FlowStates
<1>14. CASE ScanSlot
  BY <1>14, MaxWorkersAssumption DEF ScanSlot, FlowStates, Slots
<1>15. CASE SigchldEnter
  BY <1>15 DEF SigchldEnter, HandlerStates
<1>16. ASSUME NEW p \in Pids, ReapWorker(p) PROVE TypeOK'
  <2>1. ASSUME Forget(p)
        PROVE  pool' \in [Slots -> Pids \cup {NoPid, Junk}] /\ count' \in Int
    <3>1. CASE UNCHANGED <<pool, count>>
      BY <3>1
    <3>2. ASSUME NEW i \in Slots, pool' = [pool EXCEPT ![i] = NoPid],
                 count' = count - 1
          PROVE  pool' \in [Slots -> Pids \cup {NoPid, Junk}] /\ count' \in Int
      BY <3>2
    <3> QED
      BY <2>1, <3>1, <3>2 DEF Forget, Recorded
  <2>2. pool' \in [Slots -> Pids \cup {NoPid, Junk}] /\ count' \in Int
    BY <1>16, <2>1 DEF ReapWorker, Misuse
  <2>3. faults' \subseteq Faults
    BY <1>16 DEF ReapWorker, Misuse, Faults
  <2> QED
    BY <1>16, <2>2, <2>3 DEF ReapWorker, LiveStates, ProcStates
<1>17. CASE SigchldReturn
  BY <1>17 DEF SigchldReturn, FlowStates, HandlerStates
<1>18. ASSUME NEW s \in TermSigs, TermEnter(s) PROVE TypeOK'
  BY <1>18 DEF TermEnter, HandlerStates
<1>19. CASE ManagerShutdown
  BY <1>19 DEF ManagerShutdown, KillWorkers, Misuse, KillFaults,
     HandlerStates, Faults, Live
<1>20. CASE ManagerDelete
  BY <1>20 DEF ManagerDelete, HandlerStates, Faults
<1>21. CASE ManagerCrashes
  BY <1>21 DEF ManagerCrashes, ManagerEnds, HandlerStates, EndStates,
     Faults, LiveStates, ProcStates
<1>22. CASE RaiseAgain
  BY <1>22 DEF RaiseAgain, FlowStates, HandlerStates, HandlerInv
<1>23. ASSUME NEW s \in TermSigs, DieBySignal(s) PROVE TypeOK'
  BY <1>23 DEF DieBySignal, ManagerEnds, HandlerStates, EndStates,
     LiveStates, ProcStates
<1>24. ASSUME NEW p \in Pids, BecomeWorker(p) PROVE TypeOK'
  BY <1>24 DEF BecomeWorker, Progress, LiveStates, ProcStates
<1>25. ASSUME NEW p \in Pids, LoadWorker(p) PROVE TypeOK'
  BY <1>25 DEF LoadWorker, Progress, LiveStates, ProcStates
<1>26. ASSUME NEW p \in Pids, EndOfCycle(p) PROVE TypeOK'
  BY <1>26 DEF EndOfCycle, Progress, LiveStates, ProcStates
<1>27. ASSUME NEW p \in Pids, WorkerExits(p) PROVE TypeOK'
  BY <1>27 DEF WorkerExits, WorkerDies, LiveStates, ProcStates
<1>28. ASSUME NEW p \in Pids, WorkerCrashes(p) PROVE TypeOK'
  BY <1>28 DEF WorkerCrashes, WorkerDies, LiveStates, ProcStates
<1>29. ASSUME NEW p \in Pids, WorkerTerminated(p) PROVE TypeOK'
  BY <1>29 DEF WorkerTerminated, WorkerDies, KillFaults, LiveStates,
     ProcStates, Faults, Live
<1>30. ASSUME NEW s \in TermSigs, SendTermination(s) PROVE TypeOK'
  BY <1>30 DEF SendTermination
<1>31. ASSUME NEW p \in Pids, SignalWorker(p) PROVE TypeOK'
  BY <1>31 DEF SignalWorker, Live
<1>32. CASE UNCHANGED vars
  BY <1>32 DEF vars
<1> QED
  BY <1>1, <1>2, <1>3, <1>4, <1>5, <1>6, <1>7, <1>8, <1>9, <1>10, <1>11,
     <1>12, <1>13, <1>14, <1>15, <1>16, <1>17, <1>18, <1>19, <1>20, <1>21,
     <1>22, <1>23, <1>24, <1>25, <1>26, <1>27, <1>28, <1>29, <1>30, <1>31,
     <1>32 DEF Next, Manager, Spawn, SpawnWorker, RunLoop, Handler,
     WorkerStep, Environment


\* Every step keeps the main flow's slot and child in order.
LEMMA FlowStep ==
    ASSUME TypeOK, FlowInv, HandlerInv, [Next]_vars
    PROVE  FlowInv'
<1> USE DEF FlowInv, InSpawnWorker,
           flowVars, poolVars, signalVars, procVars
<1>1. CASE NewManager
  <2>1. CASE ManagerEnds("exited")
    BY <2>1 DEF ManagerEnds
  <2>2. CASE ~ManagerEnds("exited")
    BY <1>1, <2>2, MaxWorkersAssumption DEF NewManager, Step
  <2> QED
    BY <2>1, <2>2
<1>2. CASE SpawnSetup
  BY <1>2 DEF SpawnSetup, Step
<1>3. CASE SpawnAlloc
  BY <1>3, MaxWorkersAssumption, PidsAssumption DEF SpawnAlloc, Step,
     AfterSlot, TypeOK, Slots
<1>4. ASSUME NEW p \in Pids, ForkWorker(p) PROVE FlowInv'
  BY <1>4, PidsAssumption DEF ForkWorker, Step, TypeOK
<1>5. CASE ForkFails
  <2>1. CASE ManagerEnds("exited")
    BY <2>1 DEF ManagerEnds
  <2>2. CASE ~ManagerEnds("exited")
    BY <1>5, <2>2, MaxWorkersAssumption DEF ForkFails, TypeOK, Slots
  <2> QED
    BY <2>1, <2>2
<1>6. CASE CountWorker
  BY <1>6 DEF CountWorker, Step
<1>7. CASE LoadCount
  BY <1>7 DEF LoadCount, Step
<1>8. CASE StoreCount
  BY <1>8 DEF StoreCount, Step
<1>9. CASE RecordWorker
  BY <1>9, MaxWorkersAssumption, PidsAssumption DEF RecordWorker, Step,
     AfterSlot, TypeOK, Slots
<1>10. CASE BlockTermination
  BY <1>10, MaxWorkersAssumption, PidsAssumption DEF BlockTermination, Step,
     TypeOK, Slots
<1>11. CASE SigSuspend
  <2>1. CASE ManagerEnds("exited")
    BY <2>1 DEF ManagerEnds
  <2>2. CASE ~ManagerEnds("exited")
    BY <1>11, <2>2, MaxWorkersAssumption DEF SigSuspend
  <2> QED
    BY <2>1, <2>2
<1>12. CASE UnblockTermination
  BY <1>12 DEF UnblockTermination, Step
<1>13. CASE CheckWorkers
  BY <1>13, MaxWorkersAssumption, PidsAssumption DEF CheckWorkers, Step,
     TypeOK, Slots
<1>14. CASE ScanSlot
  BY <1>14, MaxWorkersAssumption, PidsAssumption DEF ScanSlot, TypeOK, Slots
<1>15. CASE SigchldEnter
  BY <1>15 DEF SigchldEnter
<1>16. ASSUME NEW p \in Pids, ReapWorker(p) PROVE FlowInv'
  BY <1>16, PidsAssumption DEF ReapWorker, Forget, Misuse, TypeOK, Recorded
<1>17. CASE SigchldReturn
  BY <1>17 DEF SigchldReturn
<1>18. ASSUME NEW s \in TermSigs, TermEnter(s) PROVE FlowInv'
  BY <1>18 DEF TermEnter
<1>19. CASE ManagerShutdown
  BY <1>19 DEF ManagerShutdown, KillWorkers, Misuse, KillFaults
<1>20. CASE ManagerDelete
  BY <1>20 DEF ManagerDelete
<1>21. CASE ManagerCrashes
  BY <1>21 DEF ManagerCrashes, ManagerEnds
<1>22. CASE RaiseAgain
  BY <1>22 DEF RaiseAgain
<1>23. ASSUME NEW s \in TermSigs, DieBySignal(s) PROVE FlowInv'
  BY <1>23 DEF DieBySignal, ManagerEnds
<1>24. ASSUME NEW p \in Pids, BecomeWorker(p) PROVE FlowInv'
  BY <1>24 DEF BecomeWorker, Progress
<1>25. ASSUME NEW p \in Pids, LoadWorker(p) PROVE FlowInv'
  BY <1>25 DEF LoadWorker, Progress
<1>26. ASSUME NEW p \in Pids, EndOfCycle(p) PROVE FlowInv'
  BY <1>26 DEF EndOfCycle, Progress
<1>27. ASSUME NEW p \in Pids, WorkerExits(p) PROVE FlowInv'
  BY <1>27 DEF WorkerExits, WorkerDies
<1>28. ASSUME NEW p \in Pids, WorkerCrashes(p) PROVE FlowInv'
  BY <1>28 DEF WorkerCrashes, WorkerDies
<1>29. ASSUME NEW p \in Pids, WorkerTerminated(p) PROVE FlowInv'
  BY <1>29 DEF WorkerTerminated, WorkerDies, KillFaults
<1>30. ASSUME NEW s \in TermSigs, SendTermination(s) PROVE FlowInv'
  BY <1>30 DEF SendTermination
<1>31. ASSUME NEW p \in Pids, SignalWorker(p) PROVE FlowInv'
  BY <1>31 DEF SignalWorker
<1>32. CASE UNCHANGED vars
  BY <1>32 DEF vars, Slots
<1> QED
  BY <1>1, <1>2, <1>3, <1>4, <1>5, <1>6, <1>7, <1>8, <1>9, <1>10, <1>11,
     <1>12, <1>13, <1>14, <1>15, <1>16, <1>17, <1>18, <1>19, <1>20, <1>21,
     <1>22, <1>23, <1>24, <1>25, <1>26, <1>27, <1>28, <1>29, <1>30, <1>31,
     <1>32 DEF Next, Manager, Spawn, SpawnWorker, RunLoop, Handler,
     WorkerStep, Environment


\* Every step keeps to the order of the handlers.
LEMMA HandlerStep ==
    ASSUME TypeOK, HandlerInv, [Next]_vars
    PROVE  HandlerInv'
<1> USE DEF HandlerInv, Gone,
           flowVars, poolVars, signalVars, procVars
<1>1. CASE NewManager
  <2>1. CASE ManagerEnds("exited")
    BY <1>1, <2>1 DEF NewManager, ManagerEnds, Running, Gone
  <2>2. CASE ~ManagerEnds("exited")
    BY <1>1, <2>2 DEF NewManager, Step, Gone, Running
  <2> QED
    BY <2>1, <2>2
<1>2. CASE SpawnSetup
  BY <1>2 DEF SpawnSetup, Step, Gone
<1>3. CASE SpawnAlloc
  BY <1>3 DEF SpawnAlloc, Step, AfterSlot, Gone
<1>4. ASSUME NEW p \in Pids, ForkWorker(p) PROVE HandlerInv'
  BY <1>4 DEF ForkWorker, Step, Gone
<1>5. CASE ForkFails
  <2>1. CASE ManagerEnds("exited")
    BY <1>5, <2>1 DEF ForkFails, ManagerEnds, Running, Gone
  <2>2. CASE ~ManagerEnds("exited")
    BY <1>5, <2>2 DEF ForkFails, Gone
  <2> QED
    BY <2>1, <2>2
<1>6. CASE CountWorker
  BY <1>6 DEF CountWorker, Step
<1>7. CASE LoadCount
  BY <1>7 DEF LoadCount, Step
<1>8. CASE StoreCount
  BY <1>8 DEF StoreCount, Step
<1>9. CASE RecordWorker
  BY <1>9 DEF RecordWorker, Step, AfterSlot
<1>10. CASE BlockTermination
  BY <1>10 DEF BlockTermination, Step
<1>11. CASE SigSuspend
  <2>1. CASE ManagerEnds("exited")
    BY <1>11, <2>1 DEF SigSuspend, ManagerEnds, Running, Gone
  <2>2. CASE ~ManagerEnds("exited")
    BY <1>11, <2>2 DEF SigSuspend, Gone
  <2> QED
    BY <2>1, <2>2
<1>12. CASE UnblockTermination
  BY <1>12 DEF UnblockTermination, Step
<1>13. CASE CheckWorkers
  BY <1>13 DEF CheckWorkers, Step
<1>14. CASE ScanSlot
  BY <1>14 DEF ScanSlot
<1>15. CASE SigchldEnter
  BY <1>15, SignalsAssumption DEF SigchldEnter, Deliverable, Gone, TypeOK
<1>16. ASSUME NEW p \in Pids, ReapWorker(p) PROVE HandlerInv'
  BY <1>16 DEF ReapWorker, Forget, Misuse
<1>17. CASE SigchldReturn
  BY <1>17 DEF SigchldReturn
<1>18. ASSUME NEW s \in TermSigs, TermEnter(s) PROVE HandlerInv'
  BY <1>18 DEF TermEnter, Deliverable, Gone
<1>19. CASE ManagerShutdown
  BY <1>19 DEF ManagerShutdown, KillWorkers, Misuse, KillFaults
<1>20. CASE ManagerDelete
  BY <1>20 DEF ManagerDelete
<1>21. CASE ManagerCrashes
  BY <1>21 DEF ManagerCrashes, ManagerEnds, Gone, EndStates
<1>22. CASE RaiseAgain
  BY <1>22 DEF RaiseAgain
<1>23. ASSUME NEW s \in TermSigs, DieBySignal(s) PROVE HandlerInv'
  BY <1>23 DEF DieBySignal, ManagerEnds, Deliverable, Gone
<1>24. ASSUME NEW p \in Pids, BecomeWorker(p) PROVE HandlerInv'
  BY <1>24 DEF BecomeWorker, Progress
<1>25. ASSUME NEW p \in Pids, LoadWorker(p) PROVE HandlerInv'
  BY <1>25 DEF LoadWorker, Progress
<1>26. ASSUME NEW p \in Pids, EndOfCycle(p) PROVE HandlerInv'
  BY <1>26 DEF EndOfCycle, Progress
<1>27. ASSUME NEW p \in Pids, WorkerExits(p) PROVE HandlerInv'
  BY <1>27 DEF WorkerExits, WorkerDies, Gone
<1>28. ASSUME NEW p \in Pids, WorkerCrashes(p) PROVE HandlerInv'
  BY <1>28 DEF WorkerCrashes, WorkerDies, Gone
<1>29. ASSUME NEW p \in Pids, WorkerTerminated(p) PROVE HandlerInv'
  BY <1>29 DEF WorkerTerminated, WorkerDies, KillFaults, Gone
<1>30. ASSUME NEW s \in TermSigs, SendTermination(s) PROVE HandlerInv'
  BY <1>30 DEF SendTermination
<1>31. ASSUME NEW p \in Pids, SignalWorker(p) PROVE HandlerInv'
  BY <1>31 DEF SignalWorker
<1>32. CASE UNCHANGED vars
  BY <1>32 DEF vars
<1> QED
  BY <1>1, <1>2, <1>3, <1>4, <1>5, <1>6, <1>7, <1>8, <1>9, <1>10, <1>11,
     <1>12, <1>13, <1>14, <1>15, <1>16, <1>17, <1>18, <1>19, <1>20, <1>21,
     <1>22, <1>23, <1>24, <1>25, <1>26, <1>27, <1>28, <1>29, <1>30, <1>31,
     <1>32 DEF Next, Manager, Spawn, SpawnWorker, RunLoop, Handler,
     WorkerStep, Environment


\* Every step keeps track of the children.
LEMMA KnownStep ==
    ASSUME TypeOK, FlowInv, ChildrenKnown, [Next]_vars
    PROVE  ChildrenKnown'
<1> USE DEF ChildrenKnown, Gone, Owners, Recorded,
           flowVars, poolVars, signalVars, procVars
<1>1. CASE NewManager
  <2>1. CASE ManagerEnds("exited")
    BY <1>1, <2>1 DEF NewManager, ManagerEnds, Running, Gone
  <2>2. CASE ~ManagerEnds("exited")
    BY <1>1, <2>2 DEF NewManager, Step
  <2> QED
    BY <2>1, <2>2
<1>2. CASE SpawnSetup
  BY <1>2 DEF SpawnSetup, Step
<1>3. CASE SpawnAlloc
  BY <1>3, PidsAssumption DEF SpawnAlloc, Step, AfterSlot, TypeOK, FlowInv,
     InSpawnWorker, Slots
<1>4. ASSUME NEW p \in Pids, ForkWorker(p) PROVE ChildrenKnown'
  BY <1>4, PidsAssumption DEF ForkWorker, Step, TypeOK, FlowInv,
     InSpawnWorker, Running
<1>5. CASE ForkFails
  <2>1. CASE ManagerEnds("exited")
    BY <1>5, <2>1 DEF ForkFails, ManagerEnds, Running, Gone
  <2>2. CASE ~ManagerEnds("exited")
    BY <1>5, <2>2 DEF ForkFails
  <2> QED
    BY <2>1, <2>2
<1>6. CASE CountWorker
  BY <1>6 DEF CountWorker, Step
<1>7. CASE LoadCount
  BY <1>7 DEF LoadCount, Step
<1>8. CASE StoreCount
  BY <1>8 DEF StoreCount, Step
<1>9. CASE RecordWorker
  BY <1>9, PidsAssumption DEF RecordWorker, Step, AfterSlot, TypeOK,
     FlowInv, InSpawnWorker, Slots
<1>10. CASE BlockTermination
  BY <1>10 DEF BlockTermination, Step
<1>11. CASE SigSuspend
  <2>1. CASE ManagerEnds("exited")
    BY <1>11, <2>1 DEF SigSuspend, ManagerEnds, Running, Gone
  <2>2. CASE ~ManagerEnds("exited")
    BY <1>11, <2>2 DEF SigSuspend
  <2> QED
    BY <2>1, <2>2
<1>12. CASE UnblockTermination
  BY <1>12 DEF UnblockTermination, Step
<1>13. CASE CheckWorkers
  BY <1>13 DEF CheckWorkers, Step
<1>14. CASE ScanSlot
  BY <1>14 DEF ScanSlot
<1>15. CASE SigchldEnter
  BY <1>15 DEF SigchldEnter
<1>16. ASSUME NEW p \in Pids, ReapWorker(p) PROVE ChildrenKnown'
  <2>1. SUFFICES ASSUME ~Gone, NEW q \in Pids, q # p, proc[q] # "free",
                        q # child
                 PROVE  q \in Owners'
    BY <1>16 DEF ReapWorker, TypeOK, Gone
  <2>2. PICK j \in Slots : pool[j] = q
    BY <2>1
  <2>3. pool'[j] = q
    <3>1. CASE UNCHANGED pool
      BY <2>2, <3>1
    <3>2. CASE Forget(p)
      BY <2>1, <2>2, <3>2 DEF Forget, TypeOK
    <3> QED
      BY <1>16, <3>1, <3>2 DEF ReapWorker, Misuse, TypeOK
  <2> QED
    BY <2>1, <2>3
<1>17. CASE SigchldReturn
  BY <1>17 DEF SigchldReturn
<1>18. ASSUME NEW s \in TermSigs, TermEnter(s) PROVE ChildrenKnown'
  BY <1>18 DEF TermEnter
<1>19. CASE ManagerShutdown
  BY <1>19 DEF ManagerShutdown, KillWorkers, Misuse, KillFaults
<1>20. CASE ManagerDelete
  BY <1>20 DEF ManagerDelete
<1>21. CASE ManagerCrashes
  BY <1>21 DEF ManagerCrashes, ManagerEnds
<1>22. CASE RaiseAgain
  BY <1>22 DEF RaiseAgain
<1>23. ASSUME NEW s \in TermSigs, DieBySignal(s) PROVE ChildrenKnown'
  BY <1>23 DEF DieBySignal, ManagerEnds
<1>24. ASSUME NEW p \in Pids, BecomeWorker(p) PROVE ChildrenKnown'
  BY <1>24 DEF BecomeWorker, Progress, TypeOK, LiveStates
<1>25. ASSUME NEW p \in Pids, LoadWorker(p) PROVE ChildrenKnown'
  BY <1>25 DEF LoadWorker, Progress, TypeOK, LiveStates
<1>26. ASSUME NEW p \in Pids, EndOfCycle(p) PROVE ChildrenKnown'
  BY <1>26 DEF EndOfCycle, Progress, TypeOK, LiveStates
<1>27. ASSUME NEW p \in Pids, WorkerExits(p) PROVE ChildrenKnown'
  BY <1>27 DEF WorkerExits, WorkerDies, TypeOK, LiveStates
<1>28. ASSUME NEW p \in Pids, WorkerCrashes(p) PROVE ChildrenKnown'
  BY <1>28 DEF WorkerCrashes, WorkerDies, TypeOK, LiveStates
<1>29. ASSUME NEW p \in Pids, WorkerTerminated(p) PROVE ChildrenKnown'
  BY <1>29 DEF WorkerTerminated, WorkerDies, KillFaults, TypeOK, Live,
     LiveStates
<1>30. ASSUME NEW s \in TermSigs, SendTermination(s) PROVE ChildrenKnown'
  BY <1>30 DEF SendTermination
<1>31. ASSUME NEW p \in Pids, SignalWorker(p) PROVE ChildrenKnown'
  BY <1>31 DEF SignalWorker
<1>32. CASE UNCHANGED vars
  BY <1>32 DEF vars
<1> QED
  BY <1>1, <1>2, <1>3, <1>4, <1>5, <1>6, <1>7, <1>8, <1>9, <1>10, <1>11,
     <1>12, <1>13, <1>14, <1>15, <1>16, <1>17, <1>18, <1>19, <1>20, <1>21,
     <1>22, <1>23, <1>24, <1>25, <1>26, <1>27, <1>28, <1>29, <1>30, <1>31,
     <1>32 DEF Next, Manager, Spawn, SpawnWorker, RunLoop, Handler,
     WorkerStep, Environment


\* Every step leaves no recorded worker out of a shutdown that has been done.
LEMMA ReachStep ==
    ASSUME TypeOK, FlowInv, HandlerInv, ChildrenKnown, ReachInv, [Next]_vars
    PROVE  ReachInv'
<1> USE DEF ReachInv, ShutdownDone, AllTermed,
           flowVars, poolVars, signalVars, procVars
<1>1. CASE NewManager
  <2>1. CASE ManagerEnds("exited")
    BY <1>1, <2>1 DEF NewManager, ManagerEnds, Running, Gone, TypeOK, Live,
       LiveStates
  <2>2. CASE ~ManagerEnds("exited")
    BY <1>1, <2>2 DEF NewManager, Step, Live, HandlerInv
  <2> QED
    BY <2>1, <2>2
<1>2. CASE SpawnSetup
  BY <1>2 DEF SpawnSetup, Step, Live
<1>3. CASE SpawnAlloc
  BY <1>3 DEF SpawnAlloc, Step, AfterSlot, Live
<1>4. ASSUME NEW p \in Pids, ForkWorker(p) PROVE ReachInv'
  BY <1>4, PidsAssumption DEF ForkWorker, Step, Running, Deliverable,
     Masked, HandlerInv, FlowInv, TypeOK, Gone, InSpawnWorker, Live,
     LiveStates
<1>5. CASE ForkFails
  <2>1. CASE ManagerEnds("exited")
    BY <1>5, <2>1 DEF ForkFails, ManagerEnds, Running, Gone, TypeOK, Live,
       LiveStates
  <2>2. CASE ~ManagerEnds("exited")
    BY <1>5, <2>2 DEF ForkFails, Live
  <2> QED
    BY <2>1, <2>2
<1>6. CASE CountWorker
  BY <1>6 DEF CountWorker, Step, Live
<1>7. CASE LoadCount
  BY <1>7 DEF LoadCount, Step, Live
<1>8. CASE StoreCount
  BY <1>8 DEF StoreCount, Step, Live
<1>9. CASE RecordWorker
  BY <1>9, PidsAssumption DEF RecordWorker, Step, AfterSlot, Running,
     Deliverable, Masked, HandlerInv, FlowInv, TypeOK, Gone, InSpawnWorker,
     Live, LiveStates
<1>10. CASE BlockTermination
  BY <1>10 DEF BlockTermination, Step, Live
<1>11. CASE SigSuspend
  <2>1. CASE ManagerEnds("exited")
    BY <1>11, <2>1 DEF SigSuspend, ManagerEnds, Running, Gone, Live,
       LiveStates, TypeOK
  <2>2. CASE ~ManagerEnds("exited")
    BY <1>11, <2>2 DEF SigSuspend, Live
  <2> QED
    BY <2>1, <2>2
<1>12. CASE UnblockTermination
  BY <1>12 DEF UnblockTermination, Step, Live
<1>13. CASE CheckWorkers
  BY <1>13 DEF CheckWorkers, Step, Live
<1>14. CASE ScanSlot
  BY <1>14 DEF ScanSlot, Live
<1>15. CASE SigchldEnter
  BY <1>15 DEF SigchldEnter, Live, Deliverable
<1>16. ASSUME NEW p \in Pids, ReapWorker(p) PROVE ReachInv'
  BY <1>16 DEF ReapWorker, Forget, Misuse, Live, LiveStates, TypeOK
<1>17. CASE SigchldReturn
  BY <1>17 DEF SigchldReturn, Live
<1>18. ASSUME NEW s \in TermSigs, TermEnter(s) PROVE ReachInv'
  BY <1>18 DEF TermEnter, Live, Deliverable
<1>19. CASE ManagerShutdown
  <2>1. CASE manager = "null"
    BY <1>19, <2>1 DEF ManagerShutdown, HandlerInv, Live
  <2>2. CASE manager = "live"
    BY <1>19, <2>2, PidsAssumption DEF ManagerShutdown, KillWorkers, Targets,
       ChildrenKnown, HandlerInv, Owners, Recorded, Live, LiveStates
  <2>3. CASE manager = "deleted"
    BY <1>19, <2>3 DEF ManagerShutdown, Misuse, Live
  <2> QED
    BY <2>1, <2>2, <2>3 DEF TypeOK
<1>20. CASE ManagerDelete
  BY <1>20 DEF ManagerDelete, Live
<1>21. CASE ManagerCrashes
  BY <1>21 DEF ManagerCrashes, ManagerEnds, Live, LiveStates, TypeOK
<1>22. CASE RaiseAgain
  BY <1>22 DEF RaiseAgain, Live
<1>23. ASSUME NEW s \in TermSigs, DieBySignal(s) PROVE ReachInv'
  BY <1>23 DEF DieBySignal, ManagerEnds, Live, LiveStates, Deliverable,
     TypeOK
<1>24. ASSUME NEW p \in Pids, BecomeWorker(p) PROVE ReachInv'
  BY <1>24 DEF BecomeWorker, Progress, TypeOK, Live, LiveStates
<1>25. ASSUME NEW p \in Pids, LoadWorker(p) PROVE ReachInv'
  BY <1>25 DEF LoadWorker, Progress, TypeOK, Live, LiveStates
<1>26. ASSUME NEW p \in Pids, EndOfCycle(p) PROVE ReachInv'
  BY <1>26 DEF EndOfCycle, Progress, TypeOK, Live, LiveStates
<1>27. ASSUME NEW p \in Pids, WorkerExits(p) PROVE ReachInv'
  BY <1>27 DEF WorkerExits, WorkerDies, TypeOK, Live, LiveStates, Gone
<1>28. ASSUME NEW p \in Pids, WorkerCrashes(p) PROVE ReachInv'
  BY <1>28 DEF WorkerCrashes, WorkerDies, TypeOK, Live, LiveStates, Gone
<1>29. ASSUME NEW p \in Pids, WorkerTerminated(p) PROVE ReachInv'
  BY <1>29 DEF WorkerTerminated, WorkerDies, KillFaults, TypeOK, Live,
     LiveStates, Gone
<1>30. ASSUME NEW s \in TermSigs, SendTermination(s) PROVE ReachInv'
  BY <1>30 DEF SendTermination, Live
<1>31. ASSUME NEW p \in Pids, SignalWorker(p) PROVE ReachInv'
  BY <1>31 DEF SignalWorker, Live
<1>32. CASE UNCHANGED vars
  BY <1>32 DEF vars, Live
<1> QED
  BY <1>1, <1>2, <1>3, <1>4, <1>5, <1>6, <1>7, <1>8, <1>9, <1>10, <1>11,
     <1>12, <1>13, <1>14, <1>15, <1>16, <1>17, <1>18, <1>19, <1>20, <1>21,
     <1>22, <1>23, <1>24, <1>25, <1>26, <1>27, <1>28, <1>29, <1>30, <1>31,
     <1>32 DEF Next, Manager, Spawn, SpawnWorker, RunLoop, Handler,
     WorkerStep, Environment


\* Every step keeps termination out of the loop condition of run().
LEMMA MaskStep ==
    ASSUME TypeOK, FlowInv, HandlerInv, MaskInv, [Next]_vars
    PROVE  MaskInv'
<1> USE DEF MaskInv, RunNeverReturns, Gone,
           flowVars, poolVars, signalVars, procVars
<1>1. CASE NewManager
  <2>1. CASE ManagerEnds("exited")
    BY <1>1, <2>1 DEF NewManager, ManagerEnds, Running, Gone, FlowInv
  <2>2. CASE ~ManagerEnds("exited")
    BY <1>1, <2>2 DEF NewManager, Step
  <2> QED
    BY <2>1, <2>2
<1>2. CASE SpawnSetup
  BY <1>2 DEF SpawnSetup, Step
<1>3. CASE SpawnAlloc
  BY <1>3 DEF SpawnAlloc, Step, AfterSlot
<1>4. ASSUME NEW p \in Pids, ForkWorker(p) PROVE MaskInv'
  BY <1>4 DEF ForkWorker, Step
<1>5. CASE ForkFails
  <2>1. CASE phase = "spawn"
    BY <1>5, <2>1 DEF ForkFails, ManagerEnds
  <2>2. CASE phase = "run"
    BY <1>5, <2>2 DEF ForkFails, ManagerEnds, Running
  <2> QED
    BY <2>1, <2>2 DEF TypeOK
<1>6. CASE CountWorker
  BY <1>6 DEF CountWorker, Step
<1>7. CASE LoadCount
  BY <1>7 DEF LoadCount, Step
<1>8. CASE StoreCount
  BY <1>8 DEF StoreCount, Step
<1>9. CASE RecordWorker
  BY <1>9 DEF RecordWorker, Step, AfterSlot
<1>10. CASE BlockTermination
  BY <1>10 DEF BlockTermination, Step, Running, Deliverable, Masked,
     HandlerInv, TypeOK
<1>11. CASE SigSuspend
  <2>1. ~terminating
    BY <1>11 DEF SigSuspend, Running
  <2> QED
    BY <1>11, <2>1 DEF SigSuspend
<1>12. CASE UnblockTermination
  BY <1>12 DEF UnblockTermination, Step
<1>13. CASE CheckWorkers
  BY <1>13 DEF CheckWorkers, Step
<1>14. CASE ScanSlot
  BY <1>14 DEF ScanSlot
<1>15. CASE SigchldEnter
  BY <1>15 DEF SigchldEnter
<1>16. ASSUME NEW p \in Pids, ReapWorker(p) PROVE MaskInv'
  BY <1>16 DEF ReapWorker, Forget, Misuse
<1>17. CASE SigchldReturn
  BY <1>17 DEF SigchldReturn
<1>18. ASSUME NEW s \in TermSigs, TermEnter(s) PROVE MaskInv'
  BY <1>18 DEF TermEnter, Deliverable, Masked
<1>19. CASE ManagerShutdown
  BY <1>19 DEF ManagerShutdown, KillWorkers, Misuse, KillFaults
<1>20. CASE ManagerDelete
  BY <1>20 DEF ManagerDelete
<1>21. CASE ManagerCrashes
  BY <1>21 DEF ManagerCrashes, ManagerEnds
<1>22. CASE RaiseAgain
  BY <1>22 DEF RaiseAgain
<1>23. ASSUME NEW s \in TermSigs, DieBySignal(s) PROVE MaskInv'
  BY <1>23 DEF DieBySignal, ManagerEnds
<1>24. ASSUME NEW p \in Pids, BecomeWorker(p) PROVE MaskInv'
  BY <1>24 DEF BecomeWorker, Progress
<1>25. ASSUME NEW p \in Pids, LoadWorker(p) PROVE MaskInv'
  BY <1>25 DEF LoadWorker, Progress
<1>26. ASSUME NEW p \in Pids, EndOfCycle(p) PROVE MaskInv'
  BY <1>26 DEF EndOfCycle, Progress
<1>27. ASSUME NEW p \in Pids, WorkerExits(p) PROVE MaskInv'
  BY <1>27 DEF WorkerExits, WorkerDies
<1>28. ASSUME NEW p \in Pids, WorkerCrashes(p) PROVE MaskInv'
  BY <1>28 DEF WorkerCrashes, WorkerDies
<1>29. ASSUME NEW p \in Pids, WorkerTerminated(p) PROVE MaskInv'
  BY <1>29 DEF WorkerTerminated, WorkerDies, KillFaults
<1>30. ASSUME NEW s \in TermSigs, SendTermination(s) PROVE MaskInv'
  BY <1>30 DEF SendTermination
<1>31. ASSUME NEW p \in Pids, SignalWorker(p) PROVE MaskInv'
  BY <1>31 DEF SignalWorker
<1>32. CASE UNCHANGED vars
  BY <1>32 DEF vars
<1> QED
  BY <1>1, <1>2, <1>3, <1>4, <1>5, <1>6, <1>7, <1>8, <1>9, <1>10, <1>11,
     <1>12, <1>13, <1>14, <1>15, <1>16, <1>17, <1>18, <1>19, <1>20, <1>21,
     <1>22, <1>23, <1>24, <1>25, <1>26, <1>27, <1>28, <1>29, <1>30, <1>31,
     <1>32 DEF Next, Manager, Spawn, SpawnWorker, RunLoop, Handler,
     WorkerStep, Environment


\* Only fork() adds a worker, and only while the manager is there.
LEMMA LiveStep ==
    ASSUME TypeOK, Gone', [Next]_vars
    PROVE  Live' \subseteq Live
<1> USE DEF Live, LiveStates, TypeOK,
           flowVars, poolVars, signalVars, procVars
<1>1. CASE NewManager
  <2>1. CASE ManagerEnds("exited")
    BY <1>1, <2>1 DEF NewManager, ManagerEnds, Running, Gone
  <2>2. CASE ~ManagerEnds("exited")
    BY <1>1, <2>2 DEF NewManager
  <2> QED
    BY <2>1, <2>2
<1>2. CASE SpawnSetup
  BY <1>2 DEF SpawnSetup, Step
<1>3. CASE SpawnAlloc
  BY <1>3 DEF SpawnAlloc, Step, AfterSlot
<1>4. ASSUME NEW p \in Pids, ForkWorker(p) PROVE Live' \subseteq Live
  BY <1>4 DEF ForkWorker, Step, Running, Gone
<1>5. CASE ForkFails
  <2>1. CASE ManagerEnds("exited")
    BY <1>5, <2>1 DEF ForkFails, ManagerEnds, Running, Gone
  <2>2. CASE ~ManagerEnds("exited")
    BY <1>5, <2>2 DEF ForkFails
  <2> QED
    BY <2>1, <2>2
<1>6. CASE CountWorker
  BY <1>6 DEF CountWorker, Step
<1>7. CASE LoadCount
  BY <1>7 DEF LoadCount, Step
<1>8. CASE StoreCount
  BY <1>8 DEF StoreCount, Step
<1>9. CASE RecordWorker
  BY <1>9 DEF RecordWorker, Step, AfterSlot
<1>10. CASE BlockTermination
  BY <1>10 DEF BlockTermination, Step
<1>11. CASE SigSuspend
  <2>1. CASE ManagerEnds("exited")
    BY <1>11, <2>1 DEF SigSuspend, ManagerEnds, Running, Gone
  <2>2. CASE ~ManagerEnds("exited")
    BY <1>11, <2>2 DEF SigSuspend
  <2> QED
    BY <2>1, <2>2
<1>12. CASE UnblockTermination
  BY <1>12 DEF UnblockTermination, Step
<1>13. CASE CheckWorkers
  BY <1>13 DEF CheckWorkers, Step
<1>14. CASE ScanSlot
  BY <1>14 DEF ScanSlot
<1>15. CASE SigchldEnter
  BY <1>15 DEF SigchldEnter
<1>16. ASSUME NEW p \in Pids, ReapWorker(p) PROVE Live' \subseteq Live
  BY <1>16 DEF ReapWorker, Forget, Misuse
<1>17. CASE SigchldReturn
  BY <1>17 DEF SigchldReturn
<1>18. ASSUME NEW s \in TermSigs, TermEnter(s) PROVE Live' \subseteq Live
  BY <1>18 DEF TermEnter
<1>19. CASE ManagerShutdown
  BY <1>19 DEF ManagerShutdown, KillWorkers, Misuse, KillFaults
<1>20. CASE ManagerDelete
  BY <1>20 DEF ManagerDelete
<1>21. CASE ManagerCrashes
  BY <1>21 DEF ManagerCrashes, ManagerEnds
<1>22. CASE RaiseAgain
  BY <1>22 DEF RaiseAgain
<1>23. ASSUME NEW s \in TermSigs, DieBySignal(s) PROVE Live' \subseteq Live
  BY <1>23 DEF DieBySignal, ManagerEnds
<1>24. ASSUME NEW p \in Pids, BecomeWorker(p) PROVE Live' \subseteq Live
  BY <1>24 DEF BecomeWorker, Progress
<1>25. ASSUME NEW p \in Pids, LoadWorker(p) PROVE Live' \subseteq Live
  BY <1>25 DEF LoadWorker, Progress
<1>26. ASSUME NEW p \in Pids, EndOfCycle(p) PROVE Live' \subseteq Live
  BY <1>26 DEF EndOfCycle, Progress
<1>27. ASSUME NEW p \in Pids, WorkerExits(p) PROVE Live' \subseteq Live
  BY <1>27 DEF WorkerExits, WorkerDies
<1>28. ASSUME NEW p \in Pids, WorkerCrashes(p) PROVE Live' \subseteq Live
  BY <1>28 DEF WorkerCrashes, WorkerDies
<1>29. ASSUME NEW p \in Pids, WorkerTerminated(p) PROVE Live' \subseteq Live
  BY <1>29 DEF WorkerTerminated, WorkerDies, KillFaults
<1>30. ASSUME NEW s \in TermSigs, SendTermination(s) PROVE Live' \subseteq Live
  BY <1>30 DEF SendTermination
<1>31. ASSUME NEW p \in Pids, SignalWorker(p) PROVE Live' \subseteq Live
  BY <1>31 DEF SignalWorker
<1>32. CASE UNCHANGED vars
  BY <1>32 DEF vars
<1> QED
  BY <1>1, <1>2, <1>3, <1>4, <1>5, <1>6, <1>7, <1>8, <1>9, <1>10, <1>11,
     <1>12, <1>13, <1>14, <1>15, <1>16, <1>17, <1>18, <1>19, <1>20, <1>21,
     <1>22, <1>23, <1>24, <1>25, <1>26, <1>27, <1>28, <1>29, <1>30, <1>31,
     <1>32 DEF Next, Manager, Spawn, SpawnWorker, RunLoop, Handler,
     WorkerStep, Environment


\* While the manager is there, every live worker has a slot of its own: the
\* slot that holds its pid or, for a child under way, the slot it will get.
LEMMA ChildrenBounded ==
    TypeOK /\ FlowInv /\ ChildrenKnown /\ ~Gone => BoundInv
<1> SUFFICES ASSUME TypeOK, FlowInv, ChildrenKnown, ~Gone
             PROVE  BoundInv
  OBVIOUS
<1> DEFINE Home(i) == IF pool[i] \in Pids THEN pool[i] ELSE child
           seat == [p \in Live |-> CHOOSE i \in Slots : Home(i) = p]
<1>1. \A p \in Live : \E i \in Slots : Home(i) = p
  <2> SUFFICES ASSUME NEW p \in Live
               PROVE  \E i \in Slots : Home(i) = p
    OBVIOUS
  <2>1. CASE p \in Owners
    BY <2>1 DEF Owners, Recorded
  <2>2. CASE p = child
    BY <2>2, PidsAssumption DEF FlowInv, InSpawnWorker, Live
  <2> QED
    BY <2>1, <2>2 DEF ChildrenKnown, Live, LiveStates
<1>2. \A p \in Live : seat[p] \in Slots /\ Home(seat[p]) = p
  BY <1>1
<1> HIDE DEF seat
<1>3. seat \in Injection(Live, Slots)
  <2>1. seat \in [Live -> Slots]
    BY <1>2 DEF seat
  <2>2. \A p, q \in Live : seat[p] = seat[q] => p = q
    BY <1>2
  <2> QED
    BY <2>1, <2>2 DEF Injection, IsInjective
<1>4. IsFiniteSet(Slots) /\ Cardinality(Slots) = MaxWorkers
  BY FS_Interval, MaxWorkersAssumption DEF Slots
<1>5. IsFiniteSet(Live) /\ Cardinality(Live) <= Cardinality(Slots)
  BY <1>3, <1>4, FS_Injection
<1> QED
  BY <1>4, <1>5 DEF BoundInv, WorkersBounded

\* The slots that are taken are finitely many, and at most MaxWorkers.
LEMMA RecordedFinite ==
    /\ IsFiniteSet(Recorded)
    /\ Cardinality(Recorded) \in Nat
<1>1. IsFiniteSet(Slots)
  BY FS_Interval, MaxWorkersAssumption DEF Slots
<1> QED
  BY <1>1, FS_Subset, FS_CardinalityType DEF Recorded

\* Every step keeps the count and the pool together, in a build with an atomic
\* increment.
LEMMA CountStep ==
    ASSUME ~SplitIncrement, TypeOK, FlowInv, CountInv, [Next]_vars
    PROVE  CountInv'
<1> USE DEF CountInv, CountMatchesPool,
           flowVars, poolVars, signalVars, procVars
<1>1. CASE NewManager
  <2>1. CASE ManagerEnds("exited")
    BY <1>1, <2>1 DEF NewManager, ManagerEnds, Running, Gone, Recorded
  <2>2. CASE ~ManagerEnds("exited")
    BY <1>1, <2>2 DEF NewManager, Step, Recorded
  <2> QED
    BY <2>1, <2>2
<1>2. CASE SpawnSetup
  BY <1>2 DEF SpawnSetup, Step, Recorded
<1>3. CASE SpawnAlloc
  <2>1. Recorded = {}
    BY <1>3 DEF SpawnAlloc, Step, FlowInv, Slots, Recorded
  <2>2. Recorded' = {}
    BY <1>3, PidsAssumption DEF SpawnAlloc, Recorded
  <2> QED
    BY <1>3, <2>1, <2>2 DEF SpawnAlloc, Step, AfterSlot
<1>4. ASSUME NEW p \in Pids, ForkWorker(p) PROVE CountInv'
  BY <1>4 DEF ForkWorker, Step, Recorded
<1>5. CASE ForkFails
  <2>1. CASE ManagerEnds("exited")
    BY <1>5, <2>1 DEF ForkFails, ManagerEnds, Running, Gone, Recorded
  <2>2. CASE ~ManagerEnds("exited")
    BY <1>5, <2>2 DEF ForkFails, Recorded
  <2> QED
    BY <2>1, <2>2
<1>6. CASE CountWorker
  <2>1. Recorded' = Recorded
    BY <1>6 DEF CountWorker, Recorded
  <2> QED
    BY <1>6, <2>1, RecordedFinite DEF CountWorker, Step
<1>7. CASE LoadCount
  BY <1>7 DEF LoadCount, Step, Recorded
<1>8. CASE StoreCount
  BY <1>8 DEF StoreCount, Step, Recorded
<1>9. CASE RecordWorker
  <2>1. Recorded' = Recorded \cup {slot} /\ slot \notin Recorded
    BY <1>9 DEF RecordWorker, Step, TypeOK, FlowInv, InSpawnWorker, Recorded
  <2>2. IsFiniteSet(Recorded) /\ Cardinality(Recorded) \in Nat
    BY RecordedFinite
  <2>3. Cardinality(Recorded') = Cardinality(Recorded) + 1
    BY <2>1, <2>2, FS_AddElement
  <2> QED
    BY <1>9, <2>2, <2>3, MaxWorkersAssumption DEF RecordWorker, Step, AfterSlot
<1>10. CASE BlockTermination
  BY <1>10 DEF BlockTermination, Step, Recorded
<1>11. CASE SigSuspend
  <2>1. CASE ManagerEnds("exited")
    BY <1>11, <2>1 DEF SigSuspend, ManagerEnds, Running, Gone, Recorded
  <2>2. CASE ~ManagerEnds("exited")
    BY <1>11, <2>2 DEF SigSuspend, Recorded
  <2> QED
    BY <2>1, <2>2
<1>12. CASE UnblockTermination
  BY <1>12 DEF UnblockTermination, Step, Recorded
<1>13. CASE CheckWorkers
  BY <1>13 DEF CheckWorkers, Step, Recorded
<1>14. CASE ScanSlot
  BY <1>14 DEF ScanSlot, Recorded
<1>15. CASE SigchldEnter
  BY <1>15 DEF SigchldEnter, Recorded
<1>16. ASSUME NEW p \in Pids, ReapWorker(p) PROVE CountInv'
  <2>1. CASE UNCHANGED <<pool, count>>
    BY <1>16, <2>1 DEF ReapWorker, Recorded
  <2>2. CASE Forget(p) /\ ~UNCHANGED <<pool, count>>
    <3>1. PICK i \in Recorded :
               pool' = [pool EXCEPT ![i] = NoPid] /\ count' = count - 1
      BY <2>2 DEF Forget
    <3>2. Recorded' = Recorded \ {i}
      BY <3>1, PidsAssumption DEF Recorded, TypeOK
    <3>3. IsFiniteSet(Recorded) /\ Cardinality(Recorded) \in Nat
      BY RecordedFinite
    <3>4. Cardinality(Recorded') = Cardinality(Recorded) - 1
      BY <3>2, <3>3, FS_RemoveElement
    <3>5. count \in Int /\ pc' = pc
      BY <1>16 DEF ReapWorker, TypeOK
    <3> QED
      BY <3>1, <3>3, <3>4, <3>5
  <2> QED
    BY <1>16, <2>1, <2>2 DEF ReapWorker, Misuse, TypeOK
<1>17. CASE SigchldReturn
  BY <1>17 DEF SigchldReturn, Recorded
<1>18. ASSUME NEW s \in TermSigs, TermEnter(s) PROVE CountInv'
  BY <1>18 DEF TermEnter, Recorded
<1>19. CASE ManagerShutdown
  BY <1>19 DEF ManagerShutdown, KillWorkers, Misuse, KillFaults, Recorded
<1>20. CASE ManagerDelete
  BY <1>20 DEF ManagerDelete, Recorded
<1>21. CASE ManagerCrashes
  BY <1>21 DEF ManagerCrashes, ManagerEnds, Recorded
<1>22. CASE RaiseAgain
  BY <1>22 DEF RaiseAgain, Recorded
<1>23. ASSUME NEW s \in TermSigs, DieBySignal(s) PROVE CountInv'
  BY <1>23 DEF DieBySignal, ManagerEnds, Recorded
<1>24. ASSUME NEW p \in Pids, BecomeWorker(p) PROVE CountInv'
  BY <1>24 DEF BecomeWorker, Progress, Recorded
<1>25. ASSUME NEW p \in Pids, LoadWorker(p) PROVE CountInv'
  BY <1>25 DEF LoadWorker, Progress, Recorded
<1>26. ASSUME NEW p \in Pids, EndOfCycle(p) PROVE CountInv'
  BY <1>26 DEF EndOfCycle, Progress, Recorded
<1>27. ASSUME NEW p \in Pids, WorkerExits(p) PROVE CountInv'
  BY <1>27 DEF WorkerExits, WorkerDies, Recorded
<1>28. ASSUME NEW p \in Pids, WorkerCrashes(p) PROVE CountInv'
  BY <1>28 DEF WorkerCrashes, WorkerDies, Recorded
<1>29. ASSUME NEW p \in Pids, WorkerTerminated(p) PROVE CountInv'
  BY <1>29 DEF WorkerTerminated, WorkerDies, KillFaults, Recorded
<1>30. ASSUME NEW s \in TermSigs, SendTermination(s) PROVE CountInv'
  BY <1>30 DEF SendTermination, Recorded
<1>31. ASSUME NEW p \in Pids, SignalWorker(p) PROVE CountInv'
  BY <1>31 DEF SignalWorker, Recorded
<1>32. CASE UNCHANGED vars
  BY <1>32 DEF vars, Recorded
<1> QED
  BY <1>1, <1>2, <1>3, <1>4, <1>5, <1>6, <1>7, <1>8, <1>9, <1>10, <1>11,
     <1>12, <1>13, <1>14, <1>15, <1>16, <1>17, <1>18, <1>19, <1>20, <1>21,
     <1>22, <1>23, <1>24, <1>25, <1>26, <1>27, <1>28, <1>29, <1>30, <1>31,
     <1>32 DEF Next, Manager, Spawn, SpawnWorker, RunLoop, Handler,
     WorkerStep, Environment


-----------------------------------------------------------------------------
(* The inductive invariant holds initially and is preserved.                *)

\* Before server::start nothing is running and the pool is empty.
LEMMA InitIInv == Init => IInv
<1> SUFFICES ASSUME Init
             PROVE  IInv
  OBVIOUS
<1> USE MaxWorkersAssumption, PidsAssumption, SignalsAssumption DEF Init
<1>1. TypeOK
  <2>1. slot \in 0 .. MaxWorkers
    OBVIOUS
  <2>2. pool \in [Slots -> Pids \cup {NoPid, Junk}]
    OBVIOUS
  <2>3. /\ proc \in [Pids -> ProcStates]
        /\ copy \in [Pids -> SUBSET (Pids \cup {Junk})]
    BY DEF ProcStates
  <2>4. /\ pc \in FlowStates /\ fate \in EndStates \cup {"running"}
        /\ handler \in HandlerStates /\ terminating \in BOOLEAN
    BY DEF FlowStates, EndStates, HandlerStates
  <2> QED
    BY <2>1, <2>2, <2>3, <2>4 DEF TypeOK
<1>2. Live = {} /\ Recorded = {}
  BY DEF Live, LiveStates, Recorded
<1>3. FlowInv /\ HandlerInv /\ ChildrenKnown /\ MaskInv
  BY DEF FlowInv, InSpawnWorker, HandlerInv, ChildrenKnown, MaskInv,
     RunNeverReturns, Gone
<1>4. ReachInv
  BY <1>2 DEF ReachInv, ShutdownDone, AllTermed
<1>5. BoundInv
  BY <1>2, FS_EmptySet DEF BoundInv, WorkersBounded
<1>6. CountInv
  BY <1>2, FS_EmptySet DEF CountInv, CountMatchesPool
<1> QED
  BY <1>1, <1>3, <1>4, <1>5, <1>6 DEF IInv, FlowsInv

\* The lemmas above, put together.
LEMMA NextIInv == IInv /\ [Next]_vars => IInv'
<1> SUFFICES ASSUME IInv, [Next]_vars
             PROVE  IInv'
  OBVIOUS
<1>1. FlowsInv'
  BY TypeStep, FlowStep, HandlerStep, KnownStep, ReachStep, MaskStep
     DEF IInv, FlowsInv
<1>2. BoundInv'
  <2>1. CASE Gone'
    <3>1. Live' \subseteq Live
      BY <2>1, LiveStep DEF IInv, FlowsInv
    <3>2. IsFiniteSet(Live) /\ Cardinality(Live) <= MaxWorkers
      BY DEF IInv, BoundInv, WorkersBounded
    <3>3. IsFiniteSet(Live') /\ Cardinality(Live') <= Cardinality(Live)
      BY <3>1, <3>2, FS_Subset
    <3>4. Cardinality(Live') \in Nat /\ Cardinality(Live) \in Nat
      BY <3>2, <3>3, FS_CardinalityType
    <3> QED
      BY <3>2, <3>3, <3>4, MaxWorkersAssumption DEF BoundInv, WorkersBounded
  <2>2. CASE ~Gone'
    <3>1. (TypeOK /\ FlowInv /\ ChildrenKnown /\ ~Gone => BoundInv)'
      BY ChildrenBounded, PTL
    <3> QED
      BY <1>1, <2>2, <3>1 DEF FlowsInv
  <2> QED
    BY <2>1, <2>2
<1>3. (~SplitIncrement => CountInv)'
  BY CountStep DEF IInv, FlowsInv
<1> QED
  BY <1>1, <1>2, <1>3 DEF IInv

\* The invariant holds in every state the server can reach.
THEOREM Invariance == Spec => []IInv
  BY InitIInv, NextIInv, PTL DEF Spec

-----------------------------------------------------------------------------
(* What follows from it.                                                    *)

\* Type correctness: every variable of the manager, of the handlers and of
\* the kernel's view of the workers stays in its set.
THEOREM TypeCorrect == Spec => []TypeOK
<1>1. IInv => TypeOK
  BY DEF IInv, FlowsInv
<1> QED
  BY <1>1, Invariance, PTL

\* In a build whose workers_count++ is one instruction, workers_count agrees
\* with the pool whatever SIGCHLD interrupts (spawn_worker, reap_worker).
THEOREM CountCorrect ==
    ASSUME ~SplitIncrement
    PROVE  Spec => []CountMatchesPool
<1>1. IInv => CountMatchesPool
  BY DEF IInv, CountInv
<1> QED
  BY <1>1, Invariance, PTL

\* No child of the manager is ever in no slot, except the one spawn_worker is
\* about to record.
THEOREM ChildrenCorrect == Spec => []ChildrenKnown
<1>1. IInv => ChildrenKnown
  BY DEF IInv, FlowsInv
<1> QED
  BY <1>1, Invariance, PTL

\* There are never more worker processes than max_workers.
THEOREM BoundCorrect == Spec => []WorkersBounded
<1>1. IInv => WorkersBounded
  BY DEF IInv, BoundInv
<1> QED
  BY <1>1, Invariance, PTL

\* When a termination signal ends the manager, termination_handler has sent
\* SIGTERM to every live worker but the one that is being forked.
THEOREM TerminationCorrect == Spec => []TermReachesChildren
<1>1. IInv => TermReachesChildren
  BY DEF IInv, FlowsInv, ReachInv, AllTermed, TermReachesChildren
<1> QED
  BY <1>1, Invariance, PTL

\* Once run() has been entered the process does not end by returning.
THEOREM RunCorrect == Spec => []RunNeverReturns
<1>1. IInv => RunNeverReturns
  BY DEF IInv, FlowsInv, MaskInv
<1> QED
  BY <1>1, Invariance, PTL

PoolOrStutter == [Pool!PoolNext]_Pool!abstractVars

\* Every step of the server is a step of the abstract pool, or leaves it alone.
LEMMA PoolStep ==
    ASSUME FlowsInv, pc # "store", [Next]_vars
    PROVE  PoolOrStutter
<1> USE DEF PoolOrStutter, SlotOwner, Tally, Pool!abstractVars,
           flowVars, poolVars, signalVars, procVars
<1> TypeOK /\ FlowInv /\ ChildrenKnown
  BY DEF FlowsInv
<1>1. CASE NewManager
  <2>1. CASE ManagerEnds("exited")
    BY <1>1, <2>1 DEF NewManager, ManagerEnds, Running, Gone, Live,
       LiveStates, TypeOK
  <2>2. CASE ~ManagerEnds("exited")
    BY <1>1, <2>2 DEF NewManager, Step, Live, LiveStates, TypeOK
  <2> QED
    BY <2>1, <2>2
<1>2. CASE SpawnSetup
  BY <1>2 DEF SpawnSetup, Step, Live, TypeOK
<1>3. CASE SpawnAlloc
  <2>1. SlotOwner' = SlotOwner
    BY <1>3, PidsAssumption DEF SpawnAlloc, Step, FlowInv, TypeOK, Slots
  <2> QED
    BY <1>3, <2>1 DEF SpawnAlloc, Step, AfterSlot, Live
<1>4. ASSUME NEW p \in Pids, ForkWorker(p) PROVE PoolOrStutter
  <2>1. p \notin Live /\ Live' = Live \cup {p}
    BY <1>4 DEF ForkWorker, TypeOK, Live, LiveStates
  <2>2. Live \subseteq Pool!Enrolled
    BY <1>4, PidsAssumption DEF ForkWorker, Running, Step, ChildrenKnown, FlowInv,
       InSpawnWorker, Owners, Recorded, Live, LiveStates, Pool!Enrolled
  <2>3. Pool!Born(p)
    BY <1>4, <2>1, <2>2 DEF ForkWorker, Step, Pool!Born
  <2> QED
    BY <2>3 DEF Pool!PoolNext
<1>5. CASE ForkFails
  <2>1. CASE ManagerEnds("exited")
    BY <1>5, <2>1 DEF ForkFails, ManagerEnds, Running, Gone, Live,
       LiveStates, TypeOK
  <2>2. CASE ~ManagerEnds("exited")
    BY <1>5, <2>2 DEF ForkFails, Live, LiveStates, TypeOK
  <2> QED
    BY <2>1, <2>2
<1>6. CASE CountWorker
  BY <1>6 DEF CountWorker, Step, Live, TypeOK
<1>7. CASE LoadCount
  BY <1>7 DEF LoadCount, Step, Live, TypeOK
<1>8. CASE StoreCount
  BY <1>8 DEF StoreCount, Step
<1>9. CASE RecordWorker
  <2>1. PICK i \in Slots, q \in Pids : i = slot /\ q = child
    BY <1>9 DEF RecordWorker, Step, FlowInv, InSpawnWorker
  <2>2. SlotOwner[i] = NoPid
    BY <1>9, <2>1 DEF RecordWorker, Step, FlowInv, InSpawnWorker
  <2>3. SlotOwner' = [SlotOwner EXCEPT ![i] = q]
    BY <1>9, <2>1 DEF RecordWorker, TypeOK
  <2>4. Tally' = Tally + 1
    BY <1>9 DEF RecordWorker, Step, AfterSlot, TypeOK
  <2>5. Pool!Enrol(i, q)
    BY <1>9, <2>2, <2>3, <2>4 DEF RecordWorker, Live, Pool!Enrol
  <2> QED
    BY <2>5 DEF Pool!PoolNext
<1>10. CASE BlockTermination
  BY <1>10 DEF BlockTermination, Step, Live, TypeOK
<1>11. CASE SigSuspend
  <2>1. CASE ManagerEnds("exited")
    BY <1>11, <2>1 DEF SigSuspend, ManagerEnds, Running, Gone, Live,
       LiveStates, TypeOK
  <2>2. CASE ~ManagerEnds("exited")
    BY <1>11, <2>2 DEF SigSuspend, Live, LiveStates, TypeOK
  <2> QED
    BY <2>1, <2>2
<1>12. CASE UnblockTermination
  BY <1>12 DEF UnblockTermination, Step, Live, TypeOK
<1>13. CASE CheckWorkers
  BY <1>13 DEF CheckWorkers, Step, Live, TypeOK
<1>14. CASE ScanSlot
  BY <1>14 DEF ScanSlot, Live, TypeOK
<1>15. CASE SigchldEnter
  BY <1>15 DEF SigchldEnter, Live, TypeOK
<1>16. ASSUME NEW p \in Pids, ReapWorker(p) PROVE PoolOrStutter
  <2>1. Live' = Live /\ pc' = pc /\ p \notin Live
    BY <1>16 DEF ReapWorker, Live, LiveStates, TypeOK
  <2>2. CASE UNCHANGED <<pool, count>>
    BY <1>16, <2>1, <2>2
  <2>3. CASE Forget(p) /\ ~UNCHANGED <<pool, count>>
    <3>1. PICK i \in Recorded : /\ pool[i] = p
                               /\ pool' = [pool EXCEPT ![i] = NoPid]
                               /\ count' = count - 1
      BY <2>3 DEF Forget
    <3>2. SlotOwner[i] \in Pids \ Live
      BY <2>1, <3>1 DEF Recorded
    <3>3. SlotOwner' = [SlotOwner EXCEPT ![i] = NoPid]
      BY <3>1, PidsAssumption DEF Recorded, TypeOK
    <3>4. Tally' = Tally - 1
      BY <2>1, <3>1 DEF TypeOK
    <3>5. Pool!StrikeOff(i)
      BY <2>1, <3>1, <3>2, <3>3, <3>4 DEF Pool!StrikeOff, Recorded
    <3> QED
      BY <3>1, <3>5 DEF Pool!PoolNext, Recorded
  <2> QED
    BY <1>16, <2>2, <2>3 DEF ReapWorker, Misuse, TypeOK
<1>17. CASE SigchldReturn
  BY <1>17 DEF SigchldReturn, Live, TypeOK
<1>18. ASSUME NEW s \in TermSigs, TermEnter(s) PROVE PoolOrStutter
  BY <1>18 DEF TermEnter, Live, TypeOK
<1>19. CASE ManagerShutdown
  BY <1>19 DEF ManagerShutdown, KillWorkers, Misuse, KillFaults, Live,
     TypeOK
<1>20. CASE ManagerDelete
  BY <1>20 DEF ManagerDelete, Live, TypeOK
<1>21. CASE ManagerCrashes
  BY <1>21 DEF ManagerCrashes, ManagerEnds, Live, LiveStates, TypeOK
<1>22. CASE RaiseAgain
  BY <1>22 DEF RaiseAgain, Live, TypeOK
<1>23. ASSUME NEW s \in TermSigs, DieBySignal(s) PROVE PoolOrStutter
  BY <1>23 DEF DieBySignal, ManagerEnds, Live, LiveStates, TypeOK
<1>24. ASSUME NEW p \in Pids, BecomeWorker(p) PROVE PoolOrStutter
  BY <1>24 DEF BecomeWorker, Progress, Live, LiveStates, TypeOK
<1>25. ASSUME NEW p \in Pids, LoadWorker(p) PROVE PoolOrStutter
  BY <1>25 DEF LoadWorker, Progress, Live, LiveStates, TypeOK
<1>26. ASSUME NEW p \in Pids, EndOfCycle(p) PROVE PoolOrStutter
  BY <1>26 DEF EndOfCycle, Progress, Live, LiveStates, TypeOK
<1>27. ASSUME NEW p \in Pids, WorkerExits(p) PROVE PoolOrStutter
  <2>1. p \in Live /\ Live' = Live \ {p}
    BY <1>27 DEF WorkerExits, WorkerDies, Live, LiveStates, TypeOK
  <2>2. Pool!Die(p)
    BY <1>27, <2>1 DEF WorkerExits, WorkerDies, Pool!Die
  <2> QED
    BY <2>2 DEF Pool!PoolNext
<1>28. ASSUME NEW p \in Pids, WorkerCrashes(p) PROVE PoolOrStutter
  <2>1. p \in Live /\ Live' = Live \ {p}
    BY <1>28 DEF WorkerCrashes, WorkerDies, Live, LiveStates, TypeOK
  <2>2. Pool!Die(p)
    BY <1>28, <2>1 DEF WorkerCrashes, WorkerDies, Pool!Die
  <2> QED
    BY <2>2 DEF Pool!PoolNext
<1>29. ASSUME NEW p \in Pids, WorkerTerminated(p) PROVE PoolOrStutter
  <2>1. p \in Live /\ Live' = Live \ {p}
    BY <1>29 DEF WorkerTerminated, WorkerDies, Live, LiveStates, TypeOK
  <2>2. Pool!Die(p)
    BY <1>29, <2>1 DEF WorkerTerminated, WorkerDies, Pool!Die
  <2> QED
    BY <2>2 DEF Pool!PoolNext
<1>30. ASSUME NEW s \in TermSigs, SendTermination(s) PROVE PoolOrStutter
  BY <1>30 DEF SendTermination, Live, TypeOK
<1>31. ASSUME NEW p \in Pids, SignalWorker(p) PROVE PoolOrStutter
  BY <1>31 DEF SignalWorker, Live, TypeOK
<1>32. CASE UNCHANGED vars
  BY <1>32 DEF vars, Live
<1> QED
  BY <1>1, <1>2, <1>3, <1>4, <1>5, <1>6, <1>7, <1>8, <1>9, <1>10, <1>11,
     <1>12, <1>13, <1>14, <1>15, <1>16, <1>17, <1>18, <1>19, <1>20, <1>21,
     <1>22, <1>23, <1>24, <1>25, <1>26, <1>27, <1>28, <1>29, <1>30, <1>31,
     <1>32 DEF Next, Manager, Spawn, SpawnWorker, RunLoop, Handler,
     WorkerStep, Environment


\* The manager implements WorkerPool: a slot is struck off only after its
\* process has died, and no process is born while another is unrecorded.
THEOREM PoolCorrect ==
    ASSUME ~SplitIncrement
    PROVE  Spec => PoolImplemented
<1>1. Init => Pool!PoolInit
  <2> SUFFICES ASSUME Init
               PROVE  Pool!PoolInit
    OBVIOUS
  <2>1. SlotOwner = [i \in Slots |-> NoPid]
    BY PidsAssumption DEF Init, SlotOwner
  <2>2. Tally = 0
    BY DEF Init, Tally
  <2>3. Live = {}
    BY DEF Init, Live, LiveStates
  <2> QED
    BY <2>1, <2>2, <2>3 DEF Pool!PoolInit
<1>2. IInv /\ [Next]_vars => PoolOrStutter
  BY PoolStep DEF IInv, CountInv
<1> QED
  BY <1>1, <1>2, Invariance, PTL
     DEF Spec, PoolImplemented, Pool!PoolSpec, PoolOrStutter

-----------------------------------------------------------------------------
(* A build that splits the increment.                                       *)

\* While the increment is under way the register is ahead of the count by
\* what the reaper has counted off since it was loaded, and each of these
\* decrements stands for a slot that is empty besides the one at hand.
DriftInv ==
    pc = "store" =>
        /\ count <= loaded
        /\ loaded - count
               <= Cardinality(Slots \ {slot}) - Cardinality(Recorded)

\* What one step may do to the distance of count and pool.
LostInStore ==
    LET lost == Drift' - Drift
    IN  lost # 0 =>
           /\ pc = "store"
           /\ lost \in 1 .. Cardinality(Slots \ (Recorded \cup {slot}))

\* What a step may do to the pool and the count.
Elsewhere ==
    /\ UNCHANGED <<pool, count, loaded>>
    /\ \/ UNCHANGED <<pc, slot>>
       \/ {pc, pc'} \cap {"store", "record"} = {}

LEMMA StepOnPool ==
    ASSUME TypeOK, [Next]_vars
    PROVE  \/ Elsewhere
           \/ SpawnAlloc \/ CountWorker \/ LoadCount \/ StoreCount \/ RecordWorker
           \/ /\ \E p \in Pids : Forget(p)
              /\ UNCHANGED <<pc, loaded, slot>>
<1> USE DEF Elsewhere, flowVars, poolVars, signalVars, procVars
<1>1. CASE Spawn
  BY <1>1 DEF Spawn, NewManager, SpawnSetup, ManagerEnds, Step
<1>2. CASE SpawnWorker
  BY <1>2 DEF SpawnWorker, ForkFails, ForkWorker, ManagerEnds, Step
<1>3. CASE RunLoop
  BY <1>3 DEF RunLoop, BlockTermination, SigSuspend, UnblockTermination,
              CheckWorkers, ScanSlot, ManagerEnds, Step
<1>4. CASE Handler
  <2>1. ASSUME NEW p \in Pids, ReapWorker(p)
        PROVE  /\ UNCHANGED <<pc, loaded, slot>>
               /\ Forget(p) \/ UNCHANGED <<pool, count>>
    <3>1. manager = "live" => Forget(p)
      BY <2>1, Zenon DEF ReapWorker
    <3>2. manager = "deleted" => Misuse("use after delete")
      BY <2>1, Zenon DEF ReapWorker
    <3>3. manager = "null" => UNCHANGED <<pool, count>>
      BY <2>1, Zenon DEF ReapWorker
    <3>4. UNCHANGED <<pc, loaded, slot>>
      BY <2>1 DEF ReapWorker
    <3>5. Forget(p) \/ UNCHANGED <<pool, count>>
      BY <3>1, <3>2, <3>3 DEF TypeOK, Misuse
    <3> QED
      BY <3>4, <3>5
  <2>2. CASE \/ SigchldEnter \/ SigchldReturn \/ ManagerShutdown \/ ManagerDelete
             \/ ManagerCrashes \/ RaiseAgain
             \/ \E s \in TermSigs : TermEnter(s) \/ DieBySignal(s)
    BY <2>2 DEF SigchldEnter, SigchldReturn, ManagerShutdown, ManagerDelete,
                ManagerCrashes, RaiseAgain, TermEnter, DieBySignal, ManagerEnds,
                KillWorkers, Misuse
  <2> QED
    BY <1>4, <2>1, <2>2 DEF Handler
<1>5. CASE (\E p \in Pids : WorkerStep(p)) \/ Environment
  BY <1>5 DEF WorkerStep, BecomeWorker, LoadWorker, WorkerTerminated,
              Environment, EndOfCycle, WorkerExits, WorkerCrashes, SignalWorker,
              SendTermination, Progress, WorkerDies
<1>6. CASE UNCHANGED vars
  BY <1>6 DEF vars
<1> QED
  BY <1>1, <1>2, <1>3, <1>4, <1>5, <1>6 DEF Next, Manager

\* The slot at hand is not taken while its worker is unrecorded.
LEMMA OtherSlots ==
    ASSUME TypeOK, FlowInv, pc \in {"count", "store"}
    PROVE  /\ slot \in Slots \ Recorded
           /\ Recorded \subseteq Slots \ {slot}
           /\ IsFiniteSet(Slots \ {slot})
           /\ Cardinality(Slots \ (Recorded \cup {slot}))
                  = Cardinality(Slots \ {slot}) - Cardinality(Recorded)
           /\ Cardinality(Recorded) <= Cardinality(Slots \ {slot})
<1>1. slot \in Slots /\ slot \notin Recorded
  BY DEF FlowInv, InSpawnWorker, Recorded
<1>2. Recorded \subseteq Slots \ {slot}
  BY <1>1 DEF Recorded
<1>3. IsFiniteSet(Slots)
  BY FS_Interval, MaxWorkersAssumption DEF Slots
<1>4. IsFiniteSet(Slots \ {slot})
  BY <1>3, FS_Subset
<1>5. (Slots \ {slot}) \cap Recorded = Recorded
  BY <1>2
<1>6. Cardinality((Slots \ {slot}) \ Recorded)
          = Cardinality(Slots \ {slot}) - Cardinality((Slots \ {slot}) \cap Recorded)
  BY <1>4, FS_Difference, RecordedFinite
<1>7. (Slots \ {slot}) \ Recorded = Slots \ (Recorded \cup {slot})
  OBVIOUS
<1>8. Cardinality(Recorded) <= Cardinality(Slots \ {slot})
  BY <1>2, <1>4, FS_Subset
<1> QED
  BY <1>1, <1>2, <1>4, <1>5, <1>6, <1>7, <1>8

\* One lemma for both halves: a step keeps DriftInv and is a torn store if it
\* moves the count away from the pool.
LEMMA DriftStep ==
    ASSUME TypeOK, FlowInv, DriftInv, [Next]_vars
    PROVE  DriftInv' /\ LostInStore
<1> USE DEF DriftInv, LostInStore, Drift
<1>1. Cardinality(Recorded) \in Nat /\ IsFiniteSet(Recorded) /\ count \in Int
      /\ loaded \in Int
  BY RecordedFinite DEF TypeOK
<1>2. CASE Elsewhere
  <2>1. Recorded' = Recorded
    BY <1>2 DEF Elsewhere, Recorded
  <2>2. pc' = "store" => pc = "store" /\ slot' = slot
    BY <1>2 DEF Elsewhere
  <2>3. (pc' = "record") <=> (pc = "record")
    BY <1>2 DEF Elsewhere
  <2>4. Drift' = Drift
    BY <1>1, <1>2, <2>1, <2>3 DEF Elsewhere
  <2>5. LostInStore
    <3> HIDE DEF Drift
    <3>1. Drift \in Int
      BY <1>1 DEF Drift
    <3> QED
      BY <2>4, <3>1
  <2>6. DriftInv'
    <3>1. UNCHANGED <<count, loaded>>
      BY <1>2 DEF Elsewhere
    <3> QED
      BY <2>1, <2>2, <3>1
  <2> QED
    BY <2>5, <2>6
<1>3. CASE SpawnAlloc
  <2>1. Recorded = {}
    BY <1>3 DEF SpawnAlloc, Step, FlowInv, Slots, Recorded
  <2>2. Recorded' = {}
    BY <1>3, PidsAssumption DEF SpawnAlloc, Recorded
  <2> QED
    BY <1>1, <1>3, <2>1, <2>2 DEF SpawnAlloc, Step, AfterSlot
<1>4. CASE CountWorker
  <2>1. Recorded' = Recorded
    BY <1>4 DEF CountWorker, Recorded
  <2> QED
    BY <1>1, <1>4, <2>1 DEF CountWorker, Step
<1>5. CASE LoadCount
  <2>1. Recorded' = Recorded
    BY <1>5 DEF LoadCount, poolVars, Recorded
  <2>2. pc = "count" /\ slot' = slot
    BY <1>5 DEF LoadCount, Step
  <2>3. Cardinality(Slots \ {slot}) \in Nat
    BY <2>2, OtherSlots, FS_CardinalityType
  <2>4. Cardinality(Recorded) <= Cardinality(Slots \ {slot})
    BY <2>2, OtherSlots
  <2> QED
    BY <1>1, <1>5, <2>1, <2>2, <2>3, <2>4 DEF LoadCount, Step, poolVars
<1>6. CASE StoreCount
  <2>1. Recorded' = Recorded
    BY <1>6 DEF StoreCount, Recorded
  <2>2. pc = "store" /\ pc' = "record" /\ count' = loaded + 1
    BY <1>6 DEF StoreCount, Step
  <2>3. Drift' - Drift = loaded - count
    BY <1>1, <2>1, <2>2
  <2>4. Cardinality(Slots \ (Recorded \cup {slot}))
            = Cardinality(Slots \ {slot}) - Cardinality(Recorded)
    BY <2>2, OtherSlots
  <2>5. Cardinality(Slots \ {slot}) \in Nat
    BY <2>2, OtherSlots, FS_CardinalityType
  <2> QED
    BY <1>1, <2>2, <2>3, <2>4, <2>5
<1>7. CASE RecordWorker
  <2>1. Recorded' = Recorded \cup {slot} /\ slot \notin Recorded
    BY <1>7 DEF RecordWorker, Step, TypeOK, FlowInv, InSpawnWorker, Recorded
  <2>2. Cardinality(Recorded') = Cardinality(Recorded) + 1
    BY <1>1, <2>1, FS_AddElement
  <2> QED
    BY <1>1, <1>7, <2>2, MaxWorkersAssumption DEF RecordWorker, Step, AfterSlot
<1>8. ASSUME NEW p \in Pids, Forget(p), UNCHANGED <<pc, loaded, slot>>
      PROVE  DriftInv' /\ LostInStore
  <2>1. CASE UNCHANGED <<pool, count>>
    <3>1. Recorded' = Recorded
      BY <2>1 DEF Recorded
    <3> QED
      BY <1>1, <1>8, <2>1, <3>1
  <2>2. CASE ~UNCHANGED <<pool, count>>
    <3>1. PICK i \in Recorded :
               pool' = [pool EXCEPT ![i] = NoPid] /\ count' = count - 1
      BY <1>8, <2>2 DEF Forget
    <3>2. Recorded' = Recorded \ {i}
      BY <3>1, PidsAssumption DEF Recorded, TypeOK
    <3>3. Cardinality(Recorded') = Cardinality(Recorded) - 1
      BY <1>1, <3>2, FS_RemoveElement
    <3>4. pc = "store" => Cardinality(Slots \ {slot}) \in Nat
      BY OtherSlots, FS_CardinalityType
    <3> QED
      BY <1>1, <1>8, <3>1, <3>3, <3>4
  <2> QED
    BY <2>1, <2>2
<1> QED
  BY <1>2, <1>3, <1>4, <1>5, <1>6, <1>7, <1>8, StepOnPool

\* In every build, for any number of workers and wherever SIGCHLD interrupts,
\* workers_count leaves the number of taken slots only when an increment
\* stores over decrements of the reaper, upwards and by no more than the other
\* slots that are empty then (spawn_worker, reap_worker).
THEOREM DriftCorrect == Spec => DriftIsTorn
<1>1. Init => DriftInv
  BY DEF Init, DriftInv
<1>2. IInv /\ DriftInv /\ [Next]_vars => DriftInv' /\ LostInStore
  BY DriftStep DEF IInv, FlowsInv
<1>3. IInv /\ DriftInv /\ [Next]_vars => [LostInStore]_vars
  BY <1>2
<1> QED
  BY <1>1, <1>2, <1>3, Invariance, PTL DEF Spec, DriftIsTorn, LostInStore
=============================================================================
