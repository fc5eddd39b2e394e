---------------------------- MODULE SurvivalProofs ----------------------------
(***************************************************************************)
(* Several starts do not all fail: a proof about Daemon, for every number  *)
(* of starts and every depth of the directories.                           *)
(*                                                                         *)
(* A start only fails, if the system refuses nothing, against another one: *)
(* it finds a directory that another has made since, a lock that another   *)
(* holds, or a port that another has.  The invariant says that the other   *)
(* one is still there, or that one which is further on is: whoever made    *)
(* the deepest directory is ahead of all that may lose one (Front).        *)
(***************************************************************************)
EXTENDS DaemonProofs

\* The process that holds the lock has come to daemonize, and has not closed
\* the pid file again.
Holding == {"daemonize", "logger", "stopping"} \cup Running
Holder(t) == lock = Process(t) /\ at[t] \in Holding
LockHeld == lock # NoProcess => \E t \in Starts : Holder(t)

\* Beyond a directory, or gone without having failed.
PastDir(d) == Holding \cup {"closed", "ended", "crashed"}
                \cup (IF d = "rundir" THEN {"logdir"} ELSE {})

\* The start that is ahead of all that make a directory.
Ahead(t, d) ==
    \/ at[t] \in PastDir(d)
    \/ at[t] = d /\ back[t] /\ level[t] = made[d] + 1
Front(d) == \E t \in Starts : Ahead(t, d)

\* A start that another one has overtaken.
Behind(s, d) ==
    /\ at[s] = d /\ level[s] <= made[d]
    /\ back[s] \/ level[s] < depth[d]

Survival ==
    /\ \E s \in Starts : at[s] # "failed"
    /\ \A s \in Starts : workers[s] # "none" => at[s] # "failed"
    /\ \A d \in Dirs, s \in Starts : Behind(s, d) => Front(d)

SInv == LockHeld /\ (refused \/ Survival)

-----------------------------------------------------------------------------
(* What a step leaves of the others' positions and of the directories.      *)

\* Where another start is in mkdirp stays.
LEMMA PositionStays ==
    ASSUME TypeOK, NEW s \in Starts, NEW t \in Starts, t # s, StartStep(s)
    PROVE  level'[t] = level[t] /\ back'[t] = back[t]
<1> USE DEF TypeOK
<1> DEFINE Kept == level'[t] = level[t] /\ back'[t] = back[t]
<1>1. DirectoryDone(s) /\ at[s] \in Dirs => Kept
  BY DEF DirectoryDone, ToDirectory, Dirs
<1>2. CASE Launch(s)
  BY <1>2 DEF Launch
<1>3. CASE ReadOptions(s)
  BY <1>3 DEF ReadOptions, ToDirectory
<1>4. CASE MakeDirectory(s)
  BY <1>1, <1>4 DEF MakeDirectory
<1>5. CASE FindDirectory(s)
  BY <1>1, <1>5 DEF FindDirectory
<1>6. CASE LoseDirectory(s)
  BY <1>6 DEF LoseDirectory
<1>7. CASE MakeParent(s)
  BY <1>7 DEF MakeParent
<1>8. CASE OverflowStack(s)
  BY <1>8 DEF OverflowStack
<1>9. CASE ForkDaemon(s) \/ PrepareDaemon(s) \/ CloseDescriptors(s)
  BY <1>9 DEF ForkDaemon, PrepareDaemon, CloseDescriptors
<1>10. CASE LockFile(s) \/ WritePid(s)
  BY <1>10 DEF LockFile, WritePid
<1>11. CASE OpenLog(s) \/ Bind(s) \/ Spawn(s)
  BY <1>11 DEF OpenLog, Bind, Spawn
<1>12. CASE Refuse(s) \/ PrintText(s)
  BY <1>12 DEF Refuse, PrintText
<1>13. CASE Terminate(s) \/ ClosePidFile(s) \/ Die(s)
  BY <1>13 DEF Terminate, ClosePidFile, Die
<1>14. CASE Kill(s) \/ WorkersEnd(s)
  BY <1>14 DEF Kill, WorkersEnd
<1> QED
  BY <1>2, <1>3, <1>4, <1>5, <1>6, <1>7, <1>8, <1>9, <1>10, <1>11, <1>12,
     <1>13, <1>14 DEF StartStep, MainStep

\* A directory appears when a start that is there makes it.
LEMMA DirectoriesStay ==
    ASSUME TypeOK, NEW s \in Starts, StartStep(s), NEW d \in Dirs
    PROVE  /\ depth' = depth
           /\ ~(MakeDirectory(s) /\ at[s] = d) => made'[d] = made[d]
<1>1. CASE MakeDirectory(s)
  BY <1>1 DEF MakeDirectory, TypeOK
<1>2. CASE ~MakeDirectory(s)
  BY <1>2 DEF StartStep, MainStep,
         Launch, ReadOptions, FindDirectory, LoseDirectory,
         MakeParent, OverflowStack, ForkDaemon, PrepareDaemon,
         CloseDescriptors, LockFile, WritePid, OpenLog, Bind, Spawn, Refuse,
         PrintText, Terminate, ClosePidFile, Die, Kill, WorkersEnd
<1> QED
  BY <1>1, <1>2

\* Nobody's refusal is forgotten.
LEMMA RefusedStays ==
    ASSUME NEW s \in Starts, StartStep(s), ~refused'
    PROVE  ~refused
  BY DEF StartStep, MainStep,
         Launch, ReadOptions, MakeDirectory, FindDirectory, LoseDirectory,
         MakeParent, OverflowStack, ForkDaemon, PrepareDaemon,
         CloseDescriptors, LockFile, WritePid, OpenLog, Bind, Spawn, Refuse,
         PrintText, Terminate, ClosePidFile, Die, Kill, WorkersEnd

-----------------------------------------------------------------------------
(* The lock.                                                                *)

\* Only the call for the lock gets it.
LEMMA LockGot ==
    ASSUME NEW s \in Starts, StartStep(s), lock = NoProcess,
           lock' # NoProcess
    PROVE  LockFile(s)
  BY DEF StartStep, MainStep, Ends,
         Launch, ReadOptions, MakeDirectory, FindDirectory, LoseDirectory,
         MakeParent, OverflowStack, ForkDaemon, PrepareDaemon,
         CloseDescriptors, WritePid, OpenLog, Bind, Spawn, Refuse,
         PrintText, Terminate, ClosePidFile, Die, Kill, WorkersEnd

\* A step of the holder releases the lock, or leaves the holder in its place.
LEMMA HolderStep ==
    ASSUME TypeOK, NEW s \in Starts, StartStep(s), Holder(s)
    PROVE  lock' = NoProcess \/ Holder(s)'
<1> USE DEF Holder, Holding, Running, Process
<1>1. /\ lock = Process(s)
      /\ at[s] \in {"daemonize", "logger", "bind", "spawn", "serving",
                   "stopping"}
  OBVIOUS
<1>2. step[s] \in 1 .. 8
  BY StepsAre DEF TypeOK
<1>3. CASE Launch(s) \/ ReadOptions(s)
  BY <1>1, <1>3 DEF Launch, ReadOptions
<1>4. CASE MakeDirectory(s) \/ FindDirectory(s) \/ LoseDirectory(s)
  BY <1>1, <1>4 DEF MakeDirectory, FindDirectory, LoseDirectory, Dirs
<1>5. CASE MakeParent(s) \/ OverflowStack(s)
  BY <1>1, <1>5 DEF MakeParent, OverflowStack, Dirs
<1>6. CASE ForkDaemon(s) \/ CloseDescriptors(s)
  BY <1>1, <1>6 DEF ForkDaemon, CloseDescriptors
<1>7. CASE PrepareDaemon(s)
  BY <1>1, <1>2, <1>7, StepsAre DEF PrepareDaemon, StepOn, Go, TypeOK
<1>8. CASE LockFile(s)
  <2>1. lock' = Process(s) /\ StepOn(s) /\ UNCHANGED forks
    BY <1>1, <1>8 DEF LockFile
  <2> QED
    BY <1>1, <2>1 DEF StepOn, Go, TypeOK
<1>9. CASE WritePid(s)
  BY <1>1, <1>2, <1>9, StepsAre DEF WritePid, StepOn, Go, TypeOK
<1>10. CASE OpenLog(s)
  BY <1>1, <1>10 DEF OpenLog, Go, TypeOK
<1>11. CASE Bind(s)
  BY <1>1, <1>11 DEF Bind, Ends, Go, TypeOK
<1>12. CASE Spawn(s)
  BY <1>1, <1>12 DEF Spawn, Go, TypeOK
<1>13. CASE Refuse(s) \/ ClosePidFile(s) \/ Die(s) \/ Kill(s)
  BY <1>1, <1>13 DEF Refuse, ClosePidFile, Die, Kill, Ends
<1>14. CASE PrintText(s) \/ WorkersEnd(s)
  BY <1>1, <1>14 DEF PrintText, WorkersEnd
<1>15. CASE Terminate(s)
  <2>1. CASE Ends(s, "crashed")
    BY <1>1, <2>1 DEF Ends
  <2>2. CASE Go(s, "stopping") /\ UNCHANGED lock
    BY <1>1, <1>15, <2>2 DEF Terminate, Go, TypeOK
  <2> QED
    BY <1>15, <2>1, <2>2 DEF Terminate
<1> QED
  BY <1>3, <1>4, <1>5, <1>6, <1>7, <1>8, <1>9, <1>10, <1>11, <1>12, <1>13,
     <1>14, <1>15 DEF StartStep, MainStep

LEMMA LockHeldStep ==
    ASSUME TypeOK, LockHeld, NEW s \in Starts, StartStep(s)
    PROVE  LockHeld'
<1> SUFFICES ASSUME lock' # NoProcess
             PROVE  \E t \in Starts : Holder(t)'
  BY DEF LockHeld
<1>1. CASE lock = NoProcess
  <2>1. LockFile(s)
    BY <1>1, LockGot
  <2>2. lock' = Process(s) /\ StepOn(s) /\ UNCHANGED forks /\ at[s] = "daemonize"
    BY <1>1, <2>1 DEF LockFile, Daemonizing
  <2>3. Holder(s)'
    BY <2>2 DEF Holder, Holding, Process, StepOn, Go, TypeOK
  <2> QED
    BY <2>3
<1>2. CASE lock # NoProcess
  <2>1. PICK t \in Starts : Holder(t)
    BY <1>2 DEF LockHeld
  <2>2. CASE t = s
    BY <2>1, <2>2, HolderStep
  <2>3. CASE t # s
    <3>1. lock' = lock /\ at'[t] = at[t] /\ forks'[t] = forks[t]
      BY <2>1, <2>3, LockStays, OthersStay DEF Holder
    <3>2. Holder(t)'
      BY <2>1, <3>1 DEF Holder, Process
    <3> QED
      BY <3>2
  <2> QED
    BY <2>2, <2>3
<1> QED
  BY <1>1, <1>2

-----------------------------------------------------------------------------
(* Whom a start fails against.                                              *)

\* If the system refuses nothing, it is a directory, the lock or the port.
LEMMA FailureIs ==
    ASSUME TypeOK, NEW s \in Starts, StartStep(s), ~refused',
           at[s] # "failed", at'[s] = "failed"
    PROVE  /\ UNCHANGED workers
           /\ \/ LoseDirectory(s)
              \/ LockFile(s) /\ lock \notin {NoProcess, Process(s)}
              \/ Bind(s) /\ ~PortFree
<1>1. CASE Launch(s)
  BY <1>1 DEF Launch, Go, TypeOK
<1>2. CASE ReadOptions(s)
  BY <1>2 DEF ReadOptions, ToDirectory, Go, TypeOK, Dirs
<1>3. CASE MakeDirectory(s) \/ FindDirectory(s)
  <2>1. at[s] \in Dirs /\ DirectoryDone(s)
    BY <1>3 DEF MakeDirectory, FindDirectory
  <2> QED
    BY <2>1, DoneIs DEF Go, TypeOK
<1>4. CASE LoseDirectory(s)
  BY <1>4 DEF LoseDirectory
<1>5. CASE MakeParent(s)
  BY <1>5 DEF MakeParent
<1>6. CASE OverflowStack(s)
  BY <1>6 DEF OverflowStack, Ends, Go, TypeOK
<1>7. CASE ForkDaemon(s) \/ PrepareDaemon(s) \/ CloseDescriptors(s)
  BY <1>7 DEF ForkDaemon, PrepareDaemon, CloseDescriptors, StepOn, Go, TypeOK
<1>8. CASE LockFile(s)
  BY <1>8 DEF LockFile, StepOn, Go, TypeOK
<1>9. CASE WritePid(s)
  BY <1>9 DEF WritePid, StepOn, Go, TypeOK
<1>10. CASE OpenLog(s)
  BY <1>10 DEF OpenLog, Go, TypeOK
<1>11. CASE Bind(s)
  BY <1>11 DEF Bind, Go, TypeOK
<1>12. CASE Spawn(s)
  BY <1>12 DEF Spawn, Go, TypeOK
<1>13. CASE Refuse(s)
  BY <1>13 DEF Refuse
<1>14. CASE PrintText(s) \/ WorkersEnd(s)
  BY <1>14 DEF PrintText, WorkersEnd
<1>15. CASE Terminate(s) \/ Kill(s)
  BY <1>15 DEF Terminate, Kill, Ends, Go, TypeOK
<1>16. CASE ClosePidFile(s) \/ Die(s)
  BY <1>16 DEF ClosePidFile, Die, Ends, Go, TypeOK
<1> QED
  BY <1>1, <1>2, <1>3, <1>4, <1>5, <1>6, <1>7, <1>8, <1>9, <1>10, <1>11,
     <1>12, <1>13, <1>14, <1>15, <1>16 DEF StartStep, MainStep

\* A start that has come past the lock, or has gone otherwise than by failing,
\* is ahead of all that make a directory.
LEMMA PastAll ==
    ASSUME NEW t \in Starts, NEW d \in Dirs,
           at[t] \in Holding \cup {"closed", "ended", "crashed"}
    PROVE  Ahead(t, d)
  BY DEF Ahead, PastDir

LEMMA AheadLives ==
    ASSUME NEW t \in Starts, NEW d \in Dirs, Ahead(t, d)
    PROVE  at[t] # "failed"
  BY DEF Ahead, PastDir, Holding, Running, Dirs

\* A start that fails leaves another one, which is ahead wherever it was.
LEMMA FailsAgainst ==
    ASSUME TypeOK, Unprinted, LockHeld, Survival,
           NEW s \in Starts, StartStep(s), ~refused',
           at[s] # "failed", at'[s] = "failed"
    PROVE  \E u \in Starts :
              /\ u # s /\ at[u] # "failed"
              /\ \A d \in Dirs : Ahead(s, d) => Ahead(u, d)
<1>1. CASE LoseDirectory(s)
  <2> DEFINE here == at[s]
  <2>1. here \in Dirs /\ Behind(s, here)
    BY <1>1 DEF LoseDirectory, Exists, DirectoryIsThere, Behind
  <2>2. PICK u \in Starts : Ahead(u, here)
    BY <2>1 DEF Survival, Front
  <2>3. level[s] \in Nat /\ made[here] \in Nat
    BY <2>1 DEF TypeOK
  <2>4. ~Ahead(s, here)
    BY <2>1, <2>3 DEF Ahead, Behind, PastDir, Holding, Running, Dirs
  <2>5. \A d \in Dirs : Ahead(s, d) => Ahead(u, d)
    <3>1. CASE here = "rundir"
      BY <2>4, <3>1 DEF Ahead, PastDir, Holding, Running, Dirs
    <3>2. CASE here = "logdir"
      BY <2>2, <2>4, <3>2 DEF Ahead, PastDir, Dirs
    <3> QED
      BY <2>1, <3>1, <3>2 DEF Dirs
  <2>6. u # s /\ at[u] # "failed"
    BY <2>1, <2>2, <2>4, AheadLives
  <2> QED
    BY <2>5, <2>6
<1>2. CASE LockFile(s) /\ lock \notin {NoProcess, Process(s)}
  <2>1. PICK u \in Starts : Holder(u)
    BY <1>2 DEF LockHeld
  <2>2. u # s /\ at[u] \in Holding
    BY <1>2, <2>1 DEF Holder
  <2>3. at[u] # "failed" /\ \A d \in Dirs : Ahead(u, d)
    BY <2>2, PastAll DEF Holding, Running
  <2> QED
    BY <2>2, <2>3
<1>3. CASE Bind(s) /\ ~PortFree
  <2>1. PICK u \in Starts : at[u] \in {"spawn", "serving"} \/ workers[u] # "none"
    BY <1>3 DEF PortFree
  <2>2. at[s] = "bind"
    BY <1>3 DEF Bind
  <2>3. at[u] \in {"spawn", "serving", "stopping", "closed", "ended",
                   "crashed"}
    BY <2>1 DEF Unprinted, Leaving, Survival
  <2>4. u # s
    BY <2>2, <2>3
  <2>5. at[u] # "failed" /\ \A d \in Dirs : Ahead(u, d)
    BY <2>3, PastAll DEF Holding, Running
  <2> QED
    BY <2>4, <2>5
<1> QED
  BY <1>1, <1>2, <1>3, FailureIs

-----------------------------------------------------------------------------
(* The front stays.                                                         *)

\* Who makes a directory is then ahead of all that make one.
LEMMA MakerAhead ==
    ASSUME TypeOK, NEW s \in Starts, NEW d \in Dirs, at[s] = d,
           MakeDirectory(s)
    PROVE  Ahead(s, d)'
<1>1. /\ DirectoryDone(s)
      /\ made' = [made EXCEPT ![d] = level[s]]
  BY DEF MakeDirectory
<1>2. level[s] \in Nat /\ made'[d] = level[s]
  BY <1>1 DEF TypeOK
<1>3. CASE level[s] < depth[d]
  <2>1. /\ level'[s] = level[s] + 1 /\ back'[s] = TRUE
        /\ at'[s] = at[s]
    BY <1>1, <1>3 DEF DirectoryDone, TypeOK
  <2> QED
    BY <1>2, <2>1 DEF Ahead
<1>4. CASE ~(level[s] < depth[d]) /\ d = "rundir"
  <2>1. at'[s] = "logdir"
    BY <1>1, <1>4 DEF DirectoryDone, ToDirectory, Go, TypeOK
  <2> QED
    BY <1>4, <2>1 DEF Ahead, PastDir
<1>5. CASE ~(level[s] < depth[d]) /\ d = "logdir"
  <2>1. at'[s] \in {"bind", "daemonize"}
    BY <1>1, <1>5 DEF DirectoryDone, Go, TypeOK
  <2> QED
    BY <2>1 DEF Ahead, PastDir, Holding, Running
<1> QED
  BY <1>1, <1>3, <1>4, <1>5 DEF Dirs

\* A start that is ahead stays ahead, unless it fails or makes the directory.
LEMMA AheadStays ==
    ASSUME TypeOK, NEW s \in Starts, StartStep(s), NEW d \in Dirs,
           Ahead(s, d), at'[s] # "failed", ~(MakeDirectory(s) /\ at[s] = d)
    PROVE  Ahead(s, d)'
<1> DEFINE Past == Holding \cup {"closed", "ended", "crashed"}
<1>1. /\ Past = {"daemonize", "logger", "bind", "spawn", "serving",
                 "stopping", "closed", "ended", "crashed"}
      /\ Dirs = {"rundir", "logdir"}
  BY DEF Holding, Running, Dirs
<1>2. \/ at[s] \in Past
      \/ d = "rundir" /\ at[s] = "logdir"
      \/ at[s] = d /\ back[s] /\ level[s] = made[d] + 1
  BY DEF Ahead, PastDir
<1>3. \/ at'[s] \in Past
      \/ d = "rundir" /\ at'[s] = "logdir"
      \/ UNCHANGED <<at, back, level, made>>
      => Ahead(s, d)'
  BY <1>2 DEF Ahead, PastDir
<1> HIDE DEF Past
<1>4. at[s] \in Past => at[s] \notin Dirs /\ at[s] \notin {"off", "options"}
  BY <1>1
<1>5. made[d] \in Nat /\ depth[d] \in Nat
  BY DEF TypeOK
<1>6. CASE Launch(s) \/ ReadOptions(s)
  BY <1>1, <1>2, <1>6 DEF Launch, ReadOptions
<1>7. CASE MakeDirectory(s) \/ FindDirectory(s)
  <2>1. at[s] = "logdir" /\ d = "rundir"
    <3>1. at[s] \in Dirs
      BY <1>7 DEF MakeDirectory, FindDirectory
    <3>2. CASE at[s] = d /\ back[s] /\ level[s] = made[d] + 1
      BY <1>5, <1>7, <3>2 DEF FindDirectory, DirectoryIsThere, Exists
    <3> QED
      BY <1>2, <1>4, <3>1, <3>2
  <2>2. DirectoryDone(s) /\ at[s] \in Dirs
    BY <1>7, <2>1 DEF MakeDirectory, FindDirectory, Dirs
  <2>3. at'[s] \in {"logdir", "daemonize", "bind"}
    BY <2>1, <2>2, DoneIs DEF Go, TypeOK
  <2> QED
    BY <1>1, <1>3, <2>1, <2>3
<1>8. CASE LoseDirectory(s)
  BY <1>8 DEF LoseDirectory, Ends, Go, TypeOK
<1>9. CASE MakeParent(s)
  <2>1. at[s] \in Dirs /\ level[s] # made[at[s]] + 1 /\ UNCHANGED at
    BY <1>9 DEF MakeParent, ParentExists
  <2> QED
    BY <1>2, <1>3, <1>4, <2>1
<1>10. CASE OverflowStack(s) \/ Terminate(s) \/ Kill(s)
  <2>1. at'[s] \in {"stopping", "crashed"}
    BY <1>10 DEF OverflowStack, Terminate, Kill, Ends, Go, TypeOK
  <2> QED
    BY <1>1, <1>3, <2>1
<1>11. CASE ForkDaemon(s) \/ PrepareDaemon(s) \/ CloseDescriptors(s)
  <2>1. at[s] = "daemonize" /\ StepOn(s)
    BY <1>11 DEF ForkDaemon, PrepareDaemon, CloseDescriptors, Daemonizing
  <2>2. at'[s] \in {"daemonize", "logger"}
    BY <2>1 DEF StepOn, Go, TypeOK
  <2> QED
    BY <1>1, <1>3, <2>2
<1>12. CASE LockFile(s) \/ WritePid(s)
  <2>1. at[s] = "daemonize" /\ (StepOn(s) \/ Ends(s, "failed"))
    BY <1>12 DEF LockFile, WritePid, Daemonizing
  <2>2. at'[s] \in {"daemonize", "logger"}
    BY <2>1 DEF StepOn, Ends, Go, TypeOK
  <2> QED
    BY <1>1, <1>3, <2>2
<1>13. CASE OpenLog(s) \/ Bind(s) \/ Spawn(s)
  <2>1. at'[s] \in {"bind", "spawn", "serving"}
    BY <1>13 DEF OpenLog, Bind, Spawn, Ends, Go, TypeOK
  <2> QED
    BY <1>1, <1>3, <2>1
<1>14. CASE Refuse(s)
  BY <1>14 DEF Refuse, Ends, Go, TypeOK
<1>15. CASE PrintText(s) \/ WorkersEnd(s)
  BY <1>3, <1>15 DEF PrintText, WorkersEnd
<1>16. CASE ClosePidFile(s) \/ Die(s)
  <2>1. at'[s] \in {"closed", "ended"}
    BY <1>16 DEF ClosePidFile, Die, Ends, Go, TypeOK
  <2> QED
    BY <1>1, <1>3, <2>1
<1> QED
  BY <1>6, <1>7, <1>8, <1>9, <1>10, <1>11, <1>12, <1>13, <1>14,
     <1>15, <1>16 DEF StartStep, MainStep

LEMMA FrontStays ==
    ASSUME TypeOK, Unprinted, LockHeld, Survival,
           NEW s \in Starts, StartStep(s), ~refused', NEW d \in Dirs, Front(d)
    PROVE  Front(d)'
<1>1. CASE MakeDirectory(s) /\ at[s] = d
  BY <1>1, MakerAhead DEF Front
<1>2. CASE ~(MakeDirectory(s) /\ at[s] = d)
  <2>1. made'[d] = made[d]
    BY <1>2, DirectoriesStay
  <2>2. \A u \in Starts : u # s /\ Ahead(u, d) => Ahead(u, d)'
    BY <2>1, OthersStay, PositionStays DEF Ahead, PastDir
  <2>3. PICK t \in Starts : Ahead(t, d)
    BY DEF Front
  <2>4. CASE t # s
    BY <2>2, <2>3, <2>4 DEF Front
  <2>5. CASE t = s /\ at'[s] # "failed"
    BY <1>2, <2>3, <2>5, AheadStays DEF Front
  <2>6. CASE t = s /\ at'[s] = "failed"
    <3>1. PICK u \in Starts : u # s /\ Ahead(u, d)
      BY <2>3, <2>6, AheadLives, FailsAgainst
    <3> QED
      BY <2>2, <3>1 DEF Front
  <2> QED
    BY <2>4, <2>5, <2>6
<1> QED
  BY <1>1, <1>2

-----------------------------------------------------------------------------
(* Whoever is behind was behind already, or is overtaken now.               *)

LEMMA BehindBefore ==
    ASSUME TypeOK, NEW s \in Starts, StartStep(s), NEW d \in Dirs,
           Behind(s, d)', ~(MakeDirectory(s) /\ at[s] = d)
    PROVE  Behind(s, d)
<1> USE DEF Behind
<1>1. /\ made[d] \in Nat /\ depth[d] \in Nat /\ level[s] \in Nat
      /\ depth' = depth /\ made'[d] = made[d]
  BY DirectoriesStay DEF TypeOK
<1>2. /\ at'[s] = d /\ level'[s] <= made'[d]
      /\ back'[s] \/ level'[s] < depth'[d]
  OBVIOUS
<1>3. d \in {"rundir", "logdir"}
  BY DEF Dirs
<1>4. ToDirectory(s, d) => FALSE
  <2> SUFFICES ASSUME ToDirectory(s, d) PROVE FALSE
    OBVIOUS
  <2>1. level'[s] = depth[d] /\ back'[s] = FALSE
    BY DEF ToDirectory, TypeOK
  <2> QED
    BY <1>1, <1>2, <2>1
<1>5. CASE Launch(s)
  BY <1>2, <1>3, <1>5 DEF Launch, Go, TypeOK
<1>6. CASE ReadOptions(s)
  <2>1. \/ ToDirectory(s, "logdir") \/ ToDirectory(s, "rundir")
        \/ at'[s] \in {"ended", "failed"}
    BY <1>6 DEF ReadOptions, Go, TypeOK
  <2>2. ToDirectory(s, "logdir") \/ ToDirectory(s, "rundir")
    BY <1>2, <1>3, <2>1
  <2>3. ToDirectory(s, at'[s])
    BY <2>2, <1>3 DEF ToDirectory, Go, TypeOK
  <2> QED
    BY <1>2, <1>4, <2>3
<1>7. CASE MakeDirectory(s) \/ FindDirectory(s)
  <2>1. at[s] \in {"rundir", "logdir"} /\ DirectoryDone(s)
    BY <1>7 DEF MakeDirectory, FindDirectory, Dirs
  <2>2. CASE level[s] < depth[at[s]]
    <3>1. level'[s] = level[s] + 1 /\ UNCHANGED at
      BY <2>1, <2>2 DEF DirectoryDone, TypeOK
    <3> QED
      BY <1>1, <1>2, <2>2, <3>1
  <2>3. CASE ~(level[s] < depth[at[s]]) /\ at[s] = "rundir"
    <3>1. ToDirectory(s, "logdir")
      BY <2>1, <2>3 DEF DirectoryDone
    <3>2. at'[s] = "logdir"
      BY <3>1 DEF ToDirectory, Go, TypeOK
    <3> QED
      BY <1>2, <1>4, <3>1, <3>2
  <2>4. CASE ~(level[s] < depth[at[s]]) /\ at[s] = "logdir"
    <3>1. at'[s] \in {"bind", "daemonize"}
      BY <2>1, <2>4 DEF DirectoryDone, Go, TypeOK
    <3> QED
      BY <1>2, <1>3, <3>1
  <2> QED
    BY <2>1, <2>2, <2>3, <2>4
<1>8. CASE \/ LoseDirectory(s) \/ OverflowStack(s) \/ Refuse(s)
           \/ Terminate(s) \/ ClosePidFile(s) \/ Die(s) \/ Kill(s)
  <2>1. at'[s] \in {"failed", "crashed", "ended", "stopping", "closed"}
    BY <1>8 DEF LoseDirectory, OverflowStack, Refuse, Terminate,
       ClosePidFile, Die, Kill, Ends, Go, TypeOK
  <2> QED
    BY <1>2, <1>3, <2>1
<1>9. CASE MakeParent(s)
  <2>1. /\ level[s] > 0 /\ ~(level[s] > 0 /\ level[s] <= made[at[s]])
        /\ level[s] # made[at[s]] + 1 /\ UNCHANGED at
        /\ level'[s] = level[s] - 1
    BY <1>9 DEF MakeParent, Exists, ParentExists, ParentLevel, TypeOK
  <2> QED
    BY <1>1, <1>2, <2>1
<1>10. CASE ForkDaemon(s) \/ PrepareDaemon(s) \/ CloseDescriptors(s)
  <2>1. at[s] = "daemonize" /\ StepOn(s)
    BY <1>10 DEF ForkDaemon, PrepareDaemon, CloseDescriptors, Daemonizing
  <2>2. at'[s] \in {"daemonize", "logger"}
    BY <2>1 DEF StepOn, Go, TypeOK
  <2> QED
    BY <1>2, <1>3, <2>2
<1>11. CASE LockFile(s) \/ WritePid(s)
  <2>1. at[s] = "daemonize" /\ (StepOn(s) \/ Ends(s, "failed"))
    BY <1>11 DEF LockFile, WritePid, Daemonizing
  <2>2. at'[s] \in {"daemonize", "logger", "failed"}
    BY <2>1 DEF StepOn, Ends, Go, TypeOK
  <2> QED
    BY <1>2, <1>3, <2>2
<1>12. CASE OpenLog(s) \/ Bind(s) \/ Spawn(s)
  <2>1. at'[s] \in {"bind", "spawn", "serving", "failed"}
    BY <1>12 DEF OpenLog, Bind, Spawn, Ends, Go, TypeOK
  <2> QED
    BY <1>2, <1>3, <2>1
<1>13. CASE PrintText(s) \/ WorkersEnd(s)
  BY <1>1, <1>2, <1>13 DEF PrintText, WorkersEnd
<1> QED
  BY <1>5, <1>6, <1>7, <1>8, <1>9, <1>10, <1>11, <1>12,
     <1>13 DEF StartStep, MainStep

LEMMA OvertakenStep ==
    ASSUME TypeOK, Unprinted, LockHeld, Survival,
           NEW s \in Starts, StartStep(s), ~refused',
           NEW d \in Dirs, NEW t \in Starts, Behind(t, d)'
    PROVE  Front(d)'
<1>1. CASE MakeDirectory(s) /\ at[s] = d
  BY <1>1, MakerAhead DEF Front
<1>2. CASE ~(MakeDirectory(s) /\ at[s] = d)
  <2>1. Behind(t, d)
    <3>1. CASE t = s
      BY <1>2, <3>1, BehindBefore
    <3>2. CASE t # s
      BY <1>2, <3>2, OthersStay, PositionStays, DirectoriesStay DEF Behind
    <3> QED
      BY <3>1, <3>2
  <2>2. Front(d)
    BY <2>1 DEF Survival
  <2> QED
    BY <2>2, FrontStays
<1> QED
  BY <1>1, <1>2

-----------------------------------------------------------------------------
(* The invariant and the theorem.                                           *)

\* A start with workers does not fail, and one that has failed gets none.
LEMMA WorkersStep ==
    ASSUME TypeOK, Unprinted, Survival, NEW s \in Starts, StartStep(s),
           ~refused', NEW t \in Starts, workers'[t] # "none"
    PROVE  at'[t] # "failed"
<1> SUFFICES ASSUME at'[t] = "failed" PROVE FALSE
  OBVIOUS
<1>1. CASE t # s
  BY <1>1, OthersStay DEF Survival
<1>2. CASE t = s /\ at[s] = "failed"
  <2>1. workers[s] = "none"
    BY <1>2 DEF Survival
  <2>2. workers'[s] = "none"
    <3>1. PrintText(s) \/ WorkersEnd(s)
      BY <1>2 DEF StartStep, MainStep, Daemonizing, Alive, Gone, Dirs,
         Launch, ReadOptions, MakeDirectory, FindDirectory, LoseDirectory,
         MakeParent, OverflowStack, ForkDaemon, PrepareDaemon,
         CloseDescriptors, LockFile, WritePid, OpenLog, Bind, Spawn, Refuse,
         Terminate, ClosePidFile, Die, Kill
    <3> QED
      BY <2>1, <3>1 DEF PrintText, WorkersEnd
  <2> QED
    BY <1>2, <2>2
<1>3. CASE t = s /\ at[s] # "failed"
  <2>1. /\ workers'[s] = workers[s]
        /\ LoseDirectory(s) \/ LockFile(s) \/ Bind(s)
    BY <1>3, FailureIs
  <2>2. at[s] \in Dirs \cup {"daemonize", "bind"}
    BY <2>1 DEF LoseDirectory, LockFile, Bind, Daemonizing
  <2>3. workers[s] = "none"
    BY <2>2 DEF Unprinted, Leaving, Dirs
  <2> QED
    BY <1>3, <2>1, <2>3
<1> QED
  BY <1>1, <1>2, <1>3

LEMMA SurvivalStep ==
    ASSUME TypeOK, Unprinted, LockHeld, Survival,
           NEW s \in Starts, StartStep(s), ~refused'
    PROVE  Survival'
<1>1. \E t \in Starts : at'[t] # "failed"
  <2>1. CASE at'[s] # "failed"
    BY <2>1
  <2>2. CASE at'[s] = "failed" /\ at[s] # "failed"
    <3>1. PICK u \in Starts : u # s /\ at[u] # "failed"
      BY <2>2, FailsAgainst
    <3> QED
      BY <3>1, OthersStay
  <2>3. CASE at'[s] = "failed" /\ at[s] = "failed"
    <3>1. PICK u \in Starts : at[u] # "failed"
      BY DEF Survival
    <3> QED
      BY <2>3, <3>1, OthersStay
  <2> QED
    BY <2>1, <2>2, <2>3
<1>2. \A t \in Starts : workers'[t] # "none" => at'[t] # "failed"
  BY WorkersStep
<1>3. \A d \in Dirs, t \in Starts : Behind(t, d)' => Front(d)'
  BY OvertakenStep
<1> QED
  BY <1>1, <1>2, <1>3 DEF Survival

\* As long as the system refuses nothing, not all of the starts fail: who
\* loses a directory, the lock or the port loses it to one that goes on.
\* There has to be a start: of none, all have failed.
THEOREM SomeoneServesCorrect ==
    ASSUME Starts # {}
    PROVE  Spec => []SomeoneServes
<1>1. Init => SInv
  <2> SUFFICES ASSUME Init PROVE SInv
    OBVIOUS
  <2>1. \A s \in Starts : at[s] = "off" /\ workers[s] = "none"
    BY DEF Init
  <2>2. LockHeld
    BY DEF Init, LockHeld
  <2> QED
    BY <2>1, <2>2 DEF SInv, Survival, Behind, Dirs
<1>2. IInv /\ SInv /\ [Next]_vars => SInv'
  <2> SUFFICES ASSUME IInv, SInv, [Next]_vars PROVE SInv'
    OBVIOUS
  <2>1. ASSUME NEW s \in Starts, StartStep(s)
        PROVE  SInv'
    BY <2>1, LockHeldStep, SurvivalStep, RefusedStays DEF SInv, IInv
  <2>2. CASE UNCHANGED vars
    BY <2>2 DEF SInv, LockHeld, Holder, Process, Survival, Behind, Front,
       Ahead, vars, startVars
  <2>3. Next => \E s \in Starts : StartStep(s)
    BY DEF Next, StartStep
  <2> QED
    BY <2>1, <2>2, <2>3
<1>3. SInv => SomeoneServes
  BY DEF SInv, Survival, SomeoneServes
<1> QED
  BY <1>1, <1>2, <1>3, Invariant, PTL DEF Spec

=============================================================================
