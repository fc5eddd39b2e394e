---------------------------- MODULE DaemonProofs ----------------------------
(***************************************************************************)
(* Proofs about Daemon, for every number of starts, every depth of the     *)
(* directories and every length of what is printed: of two daemons that    *)
(* have passed the lock one is about to die, and the pid file names the    *)
(* one that is not, but for what workers of former daemons print over it.  *)
(***************************************************************************)
EXTENDS Daemon, SequenceTheorems, TLAPS

Symbols == Starts \cup {"newline", "text"}
Running == {"bind", "spawn", "serving"}
Leaving == {"stopping", "closed"}

\* Which of its processes a start is, and how far it has come in daemonize,
\* follows from where it is in main.
ForkedAt(s) ==
    /\ at[s] \in {"off", "options"} \cup Dirs => forks[s] = 0 /\ step[s] = 1
    /\ at[s] = "daemonize" =>
          /\ ~debug[s]
          /\ step[s] = 1 => forks[s] = 0
          /\ step[s] \in {2, 3} => forks[s] = 1
          /\ step[s] \in 4 .. 7 => forks[s] = 2
    /\ at[s] = "logger" => ~debug[s] /\ forks[s] = 2 /\ step[s] = 8
    /\ at[s] \in Running =>
          IF debug[s] THEN step[s] = 1 ELSE forks[s] = 2 /\ step[s] = 8
    /\ at[s] \in Leaving => step[s] \in {1, 8}
Forked == \A s \in Starts : ForkedAt(s)

\* A daemon that has passed the lock holds it until it closes the pid file.
Locks(s) == PastLock(s) /\ at[s] # "closed"
Locked == \A s \in Starts : Locks(s) => lock = Process(s)

\* Nothing is printed, and nobody forked, before a server serves; the workers
\* of a server without --debug are those of a daemon.
Unprinted ==
    \A s \in Starts :
        /\ at[s] \notin {"serving", "failed", "ended", "crashed"} \cup Leaving
               => printed[s] = 0 /\ workers[s] = "none"
        /\ ~debug[s] /\ workers[s] # "none" => step[s] = 8

\* The file never becomes shorter than what a daemon has put into it.
Written ==
    \A s \in Starts :
        step[s] = 8 => Len(file) >= Len(PidLine(s)) + printed[s]

\* The first line, one symbol after the other.
NamedAt(s, i) ==
    \/ file[i] = PidLine(s)[i]
    \/ file[i] = "text" /\ PrintedOver(i)
Named ==
    \A s \in Starts :
        Locks(s) /\ at[s] # "daemonize" =>
            \A i \in 1 .. Len(PidLine(s)) : NamedAt(s, i)

IInv == TypeOK /\ Forked /\ Locked /\ Unprinted /\ Written /\ Named

-----------------------------------------------------------------------------
(* The steps of daemonize, the pid line and the file.                       *)

\* daemonize forks twice, closes what is open, and only then locks.
LEMMA StepsAre ==
    /\ Len(DaemonSteps) = 7
    /\ DaemonSteps[1] = "fork" /\ DaemonSteps[2] = "setsid"
    /\ DaemonSteps[3] = "fork" /\ DaemonSteps[4] = "close"
    /\ DaemonSteps[5] = "open" /\ DaemonSteps[6] = "lock"
    /\ DaemonSteps[7] = "write"
  BY DEF DaemonSteps

\* In daemonize, only the write comes after the lock.
LEMMA PastLockIs ==
    ASSUME NEW s \in Starts, step[s] \in 1 .. 8
    PROVE  PastLock(s) <=> Alive(s) /\ step[s] \in {7, 8}
  BY StepsAre DEF PastLock

\* The pid line is a sequence of some digits and a newline.
LEMMA PidLineIs ==
    ASSUME TypeOK, NEW s \in Starts
    PROVE  /\ PidLine(s) \in Seq(Symbols)
           /\ Len(PidLine(s)) = width[s] + 1
<1> DEFINE digits == [i \in 1 .. width[s] |-> s]
<1>1. width[s] \in 1 .. 3
  BY DEF TypeOK
<1>2. digits \in Seq(Symbols) /\ Len(digits) = width[s]
  BY <1>1 DEF Symbols
<1>3. <<"newline">> \in Seq(Symbols) /\ Len(<<"newline">>) = 1
  BY DEF Symbols
<1> QED
  BY <1>1, <1>2, <1>3 DEF PidLine

\* A write keeps what is before its offset, puts the text behind it, and does
\* not shorten the file.
LEMMA WriteKeeps ==
    ASSUME NEW S, file \in Seq(S), NEW text \in Seq(S),
           NEW offset \in Nat, offset <= Len(file)
    PROVE  /\ WriteAt(offset, text) \in Seq(S)
           /\ Len(WriteAt(offset, text)) >= Len(file)
           /\ Len(WriteAt(offset, text)) >= offset + Len(text)
           /\ \A i \in 1 .. offset : WriteAt(offset, text)[i] = file[i]
           /\ \A i \in 1 .. Len(text) :
                 WriteAt(offset, text)[offset + i] = text[i]
           /\ \A i \in (offset + Len(text) + 1) .. Len(file) :
                 WriteAt(offset, text)[i] = file[i]
<1> DEFINE before == SubSeq(file, 1, offset)
           behind == SubSeq(file, offset + Len(text) + 1, Len(file))
<1>1. /\ before \in Seq(S) /\ Len(before) = offset
      /\ \A i \in 1 .. offset : before[i] = file[i]
  OBVIOUS
<1>2. behind \in Seq(S)
  OBVIOUS
<1>3. /\ Len(behind) >= Len(file) - offset - Len(text)
      /\ \A i \in (offset + Len(text) + 1) .. Len(file) :
            /\ i - (offset + Len(text)) \in 1 .. Len(behind)
            /\ behind[i - (offset + Len(text))] = file[i]
  OBVIOUS
<1>4. WriteAt(offset, text) = (before \o text) \o behind
  BY DEF WriteAt
<1>5. before \o text \in Seq(S) /\ Len(before \o text) = offset + Len(text)
  BY <1>1
<1>6. \A i \in 1 .. offset : (before \o text)[i] = file[i]
  BY <1>1
<1>7. \A i \in 1 .. Len(text) : (before \o text)[offset + i] = text[i]
  BY <1>1
<1> HIDE DEF before, behind
<1> QED
  BY <1>2, <1>3, <1>4, <1>5, <1>6, <1>7

-----------------------------------------------------------------------------
(* Types.                                                                   *)

StartStep(s) ==
    \/ Launch(s) \/ MainStep(s) \/ Refuse(s) \/ PrintText(s)
    \/ Terminate(s) \/ Kill(s) \/ WorkersEnd(s)

Positions ==
    /\ at \in [Starts -> Places]
    /\ step \in [Starts -> 1 .. (Len(DaemonSteps) + 1)]
    /\ \A s \in Starts : at[s] = "daemonize" => step[s] <= Len(DaemonSteps)
    /\ level \in [Starts -> Nat] /\ back \in [Starts -> BOOLEAN]
    /\ \A s \in Starts : at[s] \in Dirs => level[s] <= depth[at[s]]

LockType == lock \in (Starts \X (0 .. 2)) \cup {NoProcess}

\* A start that goes to a place where no directory is made.
LEMMA GoTypes ==
    ASSUME TypeOK, NEW s \in Starts, NEW place \in Places \ Dirs,
           place = "daemonize" => step[s] <= Len(DaemonSteps),
           Go(s, place), UNCHANGED <<depth, step, level, back>>
    PROVE  Positions'
  BY DEF Go, TypeOK, Positions

LEMMA EndsTypes ==
    ASSUME TypeOK, NEW s \in Starts, NEW place \in Gone,
           Ends(s, place), UNCHANGED <<depth, step, level, back>>
    PROVE  Positions' /\ LockType'
<1>1. place \in Places \ Dirs /\ place # "daemonize"
  BY DEF Places, Gone, Dirs
<1>2. Positions'
  BY <1>1, GoTypes DEF Ends
<1>3. LockType'
  BY DEF Ends, TypeOK, LockType
<1> QED
  BY <1>2, <1>3

\* The position of a start in mkdirp, after the call for a directory.
LEMMA DirectoryTypes ==
    ASSUME TypeOK, NEW s \in Starts, NEW d \in Dirs,
           ToDirectory(s, d), UNCHANGED <<depth, step>>
    PROVE  Positions'
<1>1. d \in Places /\ depth[d] \in Nat
  BY DEF TypeOK, Places
<1>2. /\ at' \in [Starts -> Places]
      /\ level' \in [Starts -> Nat] /\ back' \in [Starts -> BOOLEAN]
  BY <1>1 DEF ToDirectory, Go, TypeOK
<1> d # "daemonize"
  BY DEF Dirs
<1>4. \A t \in Starts : at'[t] = "daemonize" => step'[t] <= Len(DaemonSteps)
  BY DEF ToDirectory, Go, TypeOK
<1>3. ASSUME NEW t \in Starts, at'[t] \in Dirs
      PROVE  level'[t] <= depth'[at'[t]]
  <2>1. CASE t = s
    BY <1>1, <2>1 DEF ToDirectory, Go, TypeOK
  <2>2. CASE t # s
    BY <1>3, <2>2 DEF ToDirectory, Go, TypeOK
  <2> QED
    BY <2>1, <2>2
<1> QED
  BY <1>2, <1>3, <1>4 DEF Positions, TypeOK

LEMMA DoneTypes ==
    ASSUME TypeOK, NEW s \in Starts, at[s] \in Dirs, step[s] = 1,
           DirectoryDone(s), UNCHANGED <<depth, step>>
    PROVE  Positions'
<1>1. CASE level[s] < depth[at[s]]
  <2>1. /\ level' = [level EXCEPT ![s] = @ + 1]
        /\ back' = [back EXCEPT ![s] = TRUE]
        /\ UNCHANGED at
    BY <1>1 DEF DirectoryDone
  <2>2. level[s] \in Nat /\ depth[at[s]] \in Nat
    BY DEF TypeOK
  <2>3. level' \in [Starts -> Nat] /\ back' \in [Starts -> BOOLEAN]
    BY <2>1, <2>2 DEF TypeOK
  <2>4. \A t \in Starts : at'[t] \in Dirs => level'[t] <= depth'[at'[t]]
    BY <1>1, <2>1, <2>2 DEF TypeOK
  <2> QED
    BY <2>1, <2>3, <2>4 DEF Positions, TypeOK
<1>2. CASE ~(level[s] < depth[at[s]]) /\ at[s] = "rundir"
  <2>1. ToDirectory(s, "logdir")
    BY <1>2 DEF DirectoryDone
  <2> QED
    BY <2>1, DirectoryTypes DEF Dirs
<1>3. CASE ~(level[s] < depth[at[s]]) /\ at[s] = "logdir"
  <2>1. /\ Go(s, IF debug[s] THEN "bind" ELSE "daemonize")
        /\ UNCHANGED <<level, back>>
    BY <1>3 DEF DirectoryDone
  <2>2. {"bind", "daemonize"} \subseteq Places \ Dirs
    BY DEF Places, Gone, Dirs
  <2> QED
    BY <2>1, <2>2, GoTypes, StepsAre
<1> QED
  BY <1>1, <1>2, <1>3 DEF Dirs

LEMMA StepOnTypes ==
    ASSUME TypeOK, NEW s \in Starts, at[s] = "daemonize", StepOn(s),
           UNCHANGED <<depth, level, back>>
    PROVE  Positions'
<1>1. step[s] \in 1 .. Len(DaemonSteps) /\ Len(DaemonSteps) = 7
  BY StepsAre DEF TypeOK
<1>2. step' = [step EXCEPT ![s] = @ + 1]
  BY DEF StepOn
<1>3. step' \in [Starts -> 1 .. (Len(DaemonSteps) + 1)]
  BY <1>1, <1>2 DEF TypeOK
<1>4. CASE step[s] < Len(DaemonSteps) /\ UNCHANGED at
  <2>1. \A t \in Starts :
           at'[t] = "daemonize" => step'[t] <= Len(DaemonSteps)
    BY <1>1, <1>2, <1>4 DEF TypeOK
  <2> QED
    BY <1>3, <1>4, <2>1 DEF Positions, TypeOK
<1>5. CASE Go(s, "logger")
  <2>1. "logger" \in Places \ Dirs
    BY DEF Places, Gone, Dirs
  <2>2. /\ at' \in [Starts -> Places]
        /\ \A t \in Starts : at'[t] \in Dirs => level'[t] <= depth'[at'[t]]
    BY <1>5, <2>1 DEF Go, TypeOK
  <2>3. \A t \in Starts :
           at'[t] = "daemonize" => step'[t] <= Len(DaemonSteps)
    BY <1>2, <1>5 DEF Go, TypeOK
  <2> QED
    BY <1>3, <2>2, <2>3 DEF Positions, TypeOK
<1> QED
  BY <1>4, <1>5 DEF StepOn

\* The offset that a daemon and its workers write at is within the file.
LEMMA OffsetWithin ==
    ASSUME TypeOK, Forked, Unprinted, Written, NEW s \in Starts,
           at[s] = "serving" \/ workers[s] # "none", ~debug[s]
    PROVE  /\ step[s] = 8
           /\ Len(PidLine(s)) + printed[s] \in Nat
           /\ Len(PidLine(s)) + printed[s] <= Len(file)
<1>1. Len(PidLine(s)) \in Nat /\ printed[s] \in Nat
  BY PidLineIs, DaemonAssumption DEF TypeOK
<1>2. step[s] = 8
  BY DEF Forked, ForkedAt, Unprinted, Running
<1>3. Len(file) >= Len(PidLine(s)) + printed[s]
  BY <1>2 DEF Written
<1> QED
  BY <1>1, <1>2, <1>3

-----------------------------------------------------------------------------
(* Every action keeps the types.                                            *)

LEMMA TypeStep ==
    ASSUME IInv, NEW s \in Starts,
           StartStep(s)
    PROVE  TypeOK'
<1> USE DaemonAssumption DEF IInv
<1> {"options", "bind", "spawn", "serving", "stopping", "closed"}
      \subseteq Places \ Dirs
  BY DEF Places, Gone, Dirs
<1> {"failed", "ended", "crashed"} \subseteq Gone /\ Gone \subseteq Places \ Dirs
  BY DEF Gone, Places, Dirs
<1>1. CASE Launch(s)
  <2>1. Positions'
    BY <1>1, GoTypes DEF Launch
  <2> QED
    BY <1>1, <2>1 DEF Launch, TypeOK, Positions, LockType
<1>2. CASE ReadOptions(s)
  <2>1. CASE ToDirectory(s, IF debug[s] THEN "logdir" ELSE "rundir")
    BY <1>2, <2>1, DirectoryTypes DEF ReadOptions, TypeOK, Positions, Dirs
  <2>2. CASE Go(s, "ended") /\ UNCHANGED <<level, back, refused>>
    BY <1>2, <2>2, GoTypes DEF ReadOptions, TypeOK, Positions
  <2>3. CASE Go(s, "failed") /\ refused' = TRUE /\ UNCHANGED <<level, back>>
    BY <1>2, <2>3, GoTypes DEF ReadOptions, TypeOK, Positions
  <2> QED
    BY <1>2, <2>1, <2>2, <2>3 DEF ReadOptions
<1>3. CASE MakeDirectory(s)
  <2>1. Positions'
    BY <1>3, DoneTypes DEF MakeDirectory, Forked, ForkedAt
  <2>2. made' \in [Dirs -> Nat]
    BY <1>3 DEF MakeDirectory, TypeOK
  <2>3. \A d \in Dirs : made'[d] <= depth'[d]
    BY <1>3 DEF MakeDirectory, TypeOK
  <2> QED
    BY <1>3, <2>1, <2>2, <2>3 DEF MakeDirectory, TypeOK, Positions
<1>4. CASE FindDirectory(s)
  <2>1. Positions'
    BY <1>4, DoneTypes DEF FindDirectory, Forked, ForkedAt
  <2> QED
    BY <1>4, <2>1 DEF FindDirectory, TypeOK, Positions, LockType
<1>5. CASE LoseDirectory(s)
  <2>1. Positions' /\ LockType'
    BY <1>5, EndsTypes DEF LoseDirectory
  <2> QED
    BY <1>5, <2>1 DEF LoseDirectory, TypeOK, Positions, LockType
<1>6. CASE MakeParent(s)
  <2>1. level[s] \in Nat /\ level[s] > 0 /\ ParentLevel(s) = level[s] - 1
    BY <1>6 DEF MakeParent, ParentLevel, TypeOK
  <2>2. level' \in [Starts -> Nat]
    BY <1>6, <2>1 DEF MakeParent, TypeOK
  <2>3. depth[at[s]] \in Nat
    BY <1>6 DEF MakeParent, TypeOK
  <2>4. \A t \in Starts : at'[t] \in Dirs => level'[t] <= depth'[at'[t]]
    BY <1>6, <2>1, <2>3 DEF MakeParent, TypeOK
  <2> QED
    BY <1>6, <2>2, <2>4 DEF MakeParent, TypeOK
<1>7. CASE OverflowStack(s)
  <2>1. Positions' /\ LockType'
    BY <1>7, EndsTypes DEF OverflowStack
  <2> QED
    BY <1>7, <2>1 DEF OverflowStack, TypeOK, Positions, LockType
<1>8. CASE ForkDaemon(s)
  <2>1. at[s] = "daemonize"
    BY <1>8 DEF ForkDaemon, Daemonizing
  <2>2. Positions'
    BY <1>8, <2>1, StepOnTypes DEF ForkDaemon
  <2>3. forks[s] \in 0 .. 1
    BY <1>8, StepsAre DEF ForkDaemon, Daemonizing, TypeOK, Forked, ForkedAt
  <2>4. forks' \in [Starts -> 0 .. 2]
    BY <1>8, <2>3 DEF ForkDaemon, TypeOK
  <2>5. LockType'
    BY <1>8 DEF ForkDaemon, TypeOK, LockType
  <2> QED
    BY <1>8, <2>2, <2>4, <2>5 DEF ForkDaemon, TypeOK, Positions, LockType
<1>9. CASE PrepareDaemon(s)
  <2>1. at[s] = "daemonize"
    BY <1>9 DEF PrepareDaemon, Daemonizing
  <2>2. Positions'
    BY <1>9, <2>1, StepOnTypes DEF PrepareDaemon
  <2> QED
    BY <1>9, <2>2 DEF PrepareDaemon, TypeOK, Positions
<1>10. CASE CloseDescriptors(s)
  <2>1. at[s] = "daemonize"
    BY <1>10 DEF CloseDescriptors, Daemonizing
  <2>2. Positions'
    BY <1>10, <2>1, StepOnTypes DEF CloseDescriptors
  <2>3. LockType'
    BY <1>10 DEF CloseDescriptors, TypeOK, LockType
  <2> QED
    BY <1>10, <2>2, <2>3 DEF CloseDescriptors, TypeOK, Positions, LockType
<1>11. CASE LockFile(s)
  <2>1. CASE lock' = Process(s) /\ StepOn(s)
    <3>1. at[s] = "daemonize"
      BY <1>11 DEF LockFile, Daemonizing
    <3>2. Positions'
      BY <1>11, <2>1, <3>1, StepOnTypes DEF LockFile
    <3>3. LockType'
      BY <2>1 DEF LockType, Process, TypeOK
    <3> QED
      BY <1>11, <3>2, <3>3 DEF LockFile, TypeOK, Positions, LockType
  <2>2. CASE Ends(s, "failed") /\ UNCHANGED step
    <3>1. Positions' /\ LockType'
      BY <1>11, <2>2, EndsTypes DEF LockFile
    <3> QED
      BY <1>11, <3>1 DEF LockFile, TypeOK, Positions, LockType
  <2> QED
    BY <1>11, <2>1, <2>2 DEF LockFile
<1>12. CASE WritePid(s)
  <2>1. at[s] = "daemonize"
    BY <1>12 DEF WritePid, Daemonizing
  <2>2. Positions'
    BY <1>12, <2>1, StepOnTypes DEF WritePid
  <2>3. file' \in Seq(Symbols)
    <3>1. file \in Seq(Symbols) /\ 0 <= Len(file)
      BY DEF TypeOK, Symbols
    <3>2. PidLine(s) \in Seq(Symbols)
      BY PidLineIs
    <3>3. WriteAt(0, PidLine(s)) \in Seq(Symbols)
      BY <3>1, <3>2, WriteKeeps
    <3> QED
      BY <1>12, <3>3 DEF WritePid
  <2> QED
    BY <1>12, <2>2, <2>3 DEF WritePid, TypeOK, Positions, Symbols
<1>13. CASE OpenLog(s)
  <2>1. Positions'
    BY <1>13, GoTypes DEF OpenLog
  <2> QED
    BY <1>13, <2>1 DEF OpenLog, TypeOK, Positions, LockType
<1>14. CASE Bind(s)
  <2>1. CASE Go(s, "spawn") /\ UNCHANGED lock
    BY <1>14, <2>1, GoTypes DEF Bind, TypeOK, Positions
  <2>2. CASE Ends(s, "failed")
    BY <1>14, <2>2, EndsTypes DEF Bind, TypeOK, Positions, LockType
  <2> QED
    BY <1>14, <2>1, <2>2 DEF Bind
<1>15. CASE Spawn(s)
  <2>1. Positions'
    BY <1>15, GoTypes DEF Spawn
  <2> QED
    BY <1>15, <2>1 DEF Spawn, TypeOK, Positions, LockType
<1>16. CASE Refuse(s)
  <2>1. Positions' /\ LockType'
    BY <1>16, EndsTypes DEF Refuse
  <2> QED
    BY <1>16, <2>1 DEF Refuse, TypeOK, Positions, LockType
<1>17. CASE PrintText(s)
  <2>1. file' \in Seq(Symbols)
    <3>1. <<"text">> \in Seq(Symbols)
      BY DEF Symbols
    <3> QED
      BY <1>17, <3>1, OffsetWithin, WriteKeeps DEF PrintText, TypeOK, Symbols
  <2>2. printed' \in [Starts -> 0 .. MaxPrints]
    BY <1>17 DEF PrintText, TypeOK
  <2> QED
    BY <1>17, <2>1, <2>2 DEF PrintText, TypeOK, Symbols
<1>18. CASE Terminate(s)
  <2>1. Positions' /\ LockType'
    <3>1. CASE Ends(s, "crashed")
      BY <1>18, <3>1, EndsTypes DEF Terminate
    <3>2. CASE Go(s, "stopping") /\ UNCHANGED lock
      BY <1>18, <3>2, GoTypes DEF Terminate, TypeOK, LockType
    <3> QED
      BY <1>18, <3>1, <3>2 DEF Terminate
  <2>2. workers' \in [Starts -> {"none", "serving", "told"}]
    BY <1>18 DEF Terminate, WorkersLeft, TypeOK
  <2> QED
    BY <1>18, <2>1, <2>2 DEF Terminate, TypeOK, Positions, LockType
<1>19. CASE Kill(s)
  <2>1. Positions' /\ LockType'
    BY <1>19, EndsTypes DEF Kill
  <2>2. workers' \in [Starts -> {"none", "serving", "told"}]
    BY <1>19 DEF Kill, WorkersLeft, TypeOK
  <2> QED
    BY <1>19, <2>1, <2>2 DEF Kill, TypeOK, Positions, LockType
<1>20. CASE WorkersEnd(s)
  BY <1>20 DEF WorkersEnd, TypeOK
<1>21. CASE ClosePidFile(s)
  <2>1. Positions'
    BY <1>21, GoTypes DEF ClosePidFile
  <2>2. LockType'
    BY <1>21 DEF ClosePidFile, TypeOK, LockType
  <2> QED
    BY <1>21, <2>1, <2>2 DEF ClosePidFile, TypeOK, Positions, LockType
<1>22. CASE Die(s)
  <2>1. Positions' /\ LockType'
    BY <1>22, EndsTypes DEF Die
  <2> QED
    BY <1>22, <2>1 DEF Die, TypeOK, Positions, LockType
<1> QED
  BY <1>1, <1>2, <1>3, <1>4, <1>5, <1>6, <1>7, <1>8, <1>9, <1>10,
     <1>11, <1>12, <1>13, <1>14, <1>15, <1>16, <1>17, <1>18, <1>19, <1>20,
     <1>21, <1>22 DEF StartStep, MainStep

-----------------------------------------------------------------------------
(* A step of one start and the others.                                      *)

\* Where main goes when a directory is done.
LEMMA DoneIs ==
    ASSUME NEW s \in Starts, at[s] \in Dirs, DirectoryDone(s)
    PROVE  \/ UNCHANGED at
           \/ Go(s, "logdir")
           \/ ~debug[s] /\ Go(s, "daemonize")
           \/ debug[s] /\ Go(s, "bind")
  BY DEF DirectoryDone, ToDirectory, Dirs

\* What belongs to another start stays, and the width of a pid does.
LEMMA OthersStay ==
    ASSUME TypeOK, NEW s \in Starts, NEW t \in Starts, t # s, StartStep(s)
    PROVE  /\ at'[t] = at[t] /\ step'[t] = step[t] /\ debug'[t] = debug[t]
           /\ forks'[t] = forks[t] /\ workers'[t] = workers[t]
           /\ printed'[t] = printed[t]
<1> USE DEF TypeOK
<1>1. CASE Launch(s)
  BY <1>1 DEF Launch, Go
<1>2. CASE ReadOptions(s)
  BY <1>2 DEF ReadOptions, ToDirectory, Go
<1>3. CASE MakeDirectory(s)
  <2>1. at[s] \in Dirs /\ DirectoryDone(s)
    BY <1>3 DEF MakeDirectory
  <2>2. at'[t] = at[t]
    BY <2>1, DoneIs DEF Go
  <2> QED
    BY <1>3, <2>2 DEF MakeDirectory
<1>4. CASE FindDirectory(s)
  <2>1. at[s] \in Dirs /\ DirectoryDone(s)
    BY <1>4 DEF FindDirectory
  <2>2. at'[t] = at[t]
    BY <2>1, DoneIs DEF Go
  <2> QED
    BY <1>4, <2>2 DEF FindDirectory
<1>5. CASE LoseDirectory(s)
  BY <1>5 DEF LoseDirectory, Ends, Go
<1>6. CASE MakeParent(s)
  BY <1>6 DEF MakeParent
<1>7. CASE OverflowStack(s)
  BY <1>7 DEF OverflowStack, Ends, Go
<1>8. CASE ForkDaemon(s)
  BY <1>8 DEF ForkDaemon, StepOn, Go
<1>9. CASE PrepareDaemon(s)
  BY <1>9 DEF PrepareDaemon, StepOn, Go
<1>10. CASE CloseDescriptors(s)
  BY <1>10 DEF CloseDescriptors, StepOn, Go
<1>11. CASE LockFile(s)
  BY <1>11 DEF LockFile, StepOn, Go, Ends
<1>12. CASE WritePid(s)
  BY <1>12 DEF WritePid, StepOn, Go
<1>13. CASE OpenLog(s)
  BY <1>13 DEF OpenLog, Go
<1>14. CASE Bind(s)
  BY <1>14 DEF Bind, Go, Ends
<1>15. CASE Spawn(s)
  BY <1>15 DEF Spawn, Go
<1>16. CASE Refuse(s)
  BY <1>16 DEF Refuse, Ends, Go
<1>17. CASE PrintText(s)
  BY <1>17 DEF PrintText
<1>18. CASE Terminate(s)
  BY <1>18 DEF Terminate, Ends, Go
<1>19. CASE Kill(s)
  BY <1>19 DEF Kill, Ends, Go
<1>20. CASE WorkersEnd(s)
  BY <1>20 DEF WorkersEnd
<1>21. CASE ClosePidFile(s)
  BY <1>21 DEF ClosePidFile, Go
<1>22. CASE Die(s)
  BY <1>22 DEF Die, Ends, Go
<1> QED
  BY <1>1, <1>2, <1>3, <1>4, <1>5, <1>6, <1>7, <1>8, <1>9, <1>10, <1>11,
     <1>12, <1>13, <1>14, <1>15, <1>16, <1>17, <1>18, <1>19, <1>20,
     <1>21, <1>22 DEF StartStep, MainStep

\* The width of a pid stays, and with it the pid line.
LEMMA PidLineStays ==
    ASSUME NEW s \in Starts, NEW t \in Starts, StartStep(s)
    PROVE  PidLine(t)' = PidLine(t)
<1>1. width' = width
  BY DEF StartStep, MainStep,
         Launch, ReadOptions, MakeDirectory, FindDirectory, LoseDirectory,
         MakeParent, OverflowStack, ForkDaemon, PrepareDaemon,
         CloseDescriptors, LockFile, WritePid, OpenLog, Bind, Spawn, Refuse,
         PrintText, Terminate, ClosePidFile, Die, Kill, WorkersEnd
<1> QED
  BY <1>1 DEF PidLine

\* After a step of a start, its own process is still the one that its place
\* in main says.
LEMMA ForkedStep ==
    ASSUME TypeOK, NEW s \in Starts, ForkedAt(s), StartStep(s)
    PROVE  ForkedAt(s)'
<1> USE DEF ForkedAt, Running, Leaving, Dirs
<1> step[s] \in 1 .. 8 /\ forks[s] \in 0 .. 2
  BY StepsAre DEF TypeOK
<1>1. CASE Launch(s)
  BY <1>1 DEF Launch, Go, TypeOK
<1>2. CASE ReadOptions(s)
  BY <1>2 DEF ReadOptions, ToDirectory, Go, TypeOK
<1>3. CASE MakeDirectory(s)
  <2>1. at[s] \in Dirs /\ DirectoryDone(s)
    BY <1>3 DEF MakeDirectory
  <2>2. \/ at'[s] \in Dirs
        \/ ~debug[s] /\ at'[s] = "daemonize"
        \/ debug[s] /\ at'[s] = "bind"
    BY <2>1, DoneIs DEF Go, TypeOK
  <2> QED
    BY <1>3, <2>1, <2>2 DEF MakeDirectory, TypeOK
<1>4. CASE FindDirectory(s)
  <2>1. at[s] \in Dirs /\ DirectoryDone(s)
    BY <1>4 DEF FindDirectory
  <2>2. \/ at'[s] \in Dirs
        \/ ~debug[s] /\ at'[s] = "daemonize"
        \/ debug[s] /\ at'[s] = "bind"
    BY <2>1, DoneIs DEF Go, TypeOK
  <2> QED
    BY <1>4, <2>1, <2>2 DEF FindDirectory, TypeOK
<1>5. CASE LoseDirectory(s)
  BY <1>5 DEF LoseDirectory, Ends, Go, TypeOK
<1>6. CASE MakeParent(s)
  BY <1>6 DEF MakeParent, TypeOK
<1>7. CASE OverflowStack(s)
  BY <1>7 DEF OverflowStack, Ends, Go, TypeOK
<1>8. CASE ForkDaemon(s)
  BY <1>8, StepsAre DEF ForkDaemon, StepOn, Go, Daemonizing, TypeOK
<1>9. CASE PrepareDaemon(s)
  BY <1>9, StepsAre DEF PrepareDaemon, StepOn, Go, Daemonizing, TypeOK
<1>10. CASE CloseDescriptors(s)
  <2>1. at[s] = "daemonize" /\ step[s] = 4 /\ step'[s] = 5
    BY <1>10, StepsAre DEF CloseDescriptors, StepOn, Daemonizing, TypeOK
  <2>2. at' = at /\ debug' = debug /\ forks' = forks
    BY <1>10, <2>1, StepsAre DEF CloseDescriptors, StepOn
  <2> QED
    BY <2>1, <2>2
<1>11. CASE LockFile(s)
  BY <1>11, StepsAre DEF LockFile, StepOn, Go, Ends, Daemonizing, TypeOK
<1>12. CASE WritePid(s)
  BY <1>12, StepsAre DEF WritePid, StepOn, Go, Daemonizing, TypeOK
<1>13. CASE OpenLog(s)
  BY <1>13 DEF OpenLog, Go, TypeOK
<1>14. CASE Bind(s)
  BY <1>14 DEF Bind, Go, Ends, TypeOK
<1>15. CASE Spawn(s)
  BY <1>15 DEF Spawn, Go, TypeOK
<1>16. CASE Refuse(s)
  BY <1>16 DEF Refuse, Ends, Go, TypeOK
<1>17. CASE PrintText(s)
  BY <1>17 DEF PrintText, TypeOK
<1>18. CASE Terminate(s)
  <2>1. \/ step' = step /\ step[s] \in {1, 8}
        \/ at'[s] = "crashed"
    <3>1. CASE NoLogger(s)
      BY <1>18, <3>1 DEF Terminate, Ends, Go, TypeOK
    <3>2. CASE ~NoLogger(s)
      <4>1. at[s] \in Dirs \cup Running
        BY <1>18, <3>2
        DEF Terminate, NoLogger, Alive, Gone, Places, TypeOK
      <4>2. step[s] \in {1, 8}
        BY <4>1
      <4> QED
        BY <1>18, <4>2 DEF Terminate
    <3> QED
      BY <3>1, <3>2
  <2>2. at'[s] \in {"crashed", "stopping"}
    BY <1>18 DEF Terminate, Ends, Go, TypeOK
  <2> QED
    BY <2>1, <2>2
<1>19. CASE Kill(s)
  BY <1>19 DEF Kill, Ends, Go, TypeOK
<1>20. CASE WorkersEnd(s)
  BY <1>20 DEF WorkersEnd, TypeOK
<1>21. CASE ClosePidFile(s)
  BY <1>21 DEF ClosePidFile, Go, TypeOK
<1>22. CASE Die(s)
  BY <1>22 DEF Die, Ends, Go, TypeOK
<1> QED
  BY <1>1, <1>2, <1>3, <1>4, <1>5, <1>6, <1>7, <1>8, <1>9, <1>10, <1>11,
     <1>12, <1>13, <1>14, <1>15, <1>16, <1>17, <1>18, <1>19, <1>20,
     <1>21, <1>22 DEF StartStep, MainStep

\* No step of another start takes the lock from a daemon that holds it.
LEMMA LockStays ==
    ASSUME NEW s \in Starts, NEW t \in Starts, t # s,
           lock = Process(t), StartStep(s)
    PROVE  lock' = lock
<1>1. lock # Process(s) /\ lock # NoProcess
  BY DEF Process, NoProcess
<1>2. CASE Launch(s)
  BY <1>1, <1>2 DEF Launch, Go
<1>3. CASE ReadOptions(s)
  BY <1>1, <1>3 DEF ReadOptions, ToDirectory, Go
<1>4. CASE MakeDirectory(s)
  BY <1>1, <1>4 DEF MakeDirectory, DirectoryDone, ToDirectory, Go
<1>5. CASE FindDirectory(s)
  BY <1>1, <1>5 DEF FindDirectory, DirectoryDone, ToDirectory, Go
<1>6. CASE LoseDirectory(s)
  BY <1>1, <1>6 DEF LoseDirectory, Ends, Go
<1>7. CASE MakeParent(s)
  BY <1>1, <1>7 DEF MakeParent
<1>8. CASE OverflowStack(s)
  BY <1>1, <1>8 DEF OverflowStack, Ends, Go
<1>9. CASE ForkDaemon(s)
  BY <1>1, <1>9 DEF ForkDaemon, StepOn, Go
<1>10. CASE PrepareDaemon(s)
  BY <1>1, <1>10 DEF PrepareDaemon, StepOn, Go
<1>11. CASE CloseDescriptors(s)
  BY <1>1, <1>11 DEF CloseDescriptors, StepOn, Go
<1>12. CASE LockFile(s)
  BY <1>1, <1>12 DEF LockFile, StepOn, Go, Ends
<1>13. CASE WritePid(s)
  BY <1>1, <1>13 DEF WritePid, StepOn, Go
<1>14. CASE OpenLog(s)
  BY <1>1, <1>14 DEF OpenLog, Go
<1>15. CASE Bind(s)
  BY <1>1, <1>15 DEF Bind, Go, Ends
<1>16. CASE Spawn(s)
  BY <1>1, <1>16 DEF Spawn, Go
<1>17. CASE Refuse(s)
  BY <1>1, <1>17 DEF Refuse, Ends, Go
<1>18. CASE PrintText(s)
  BY <1>1, <1>18 DEF PrintText
<1>19. CASE Terminate(s)
  BY <1>1, <1>19 DEF Terminate, Ends, Go
<1>20. CASE Kill(s)
  BY <1>1, <1>20 DEF Kill, Ends, Go
<1>21. CASE WorkersEnd(s)
  BY <1>1, <1>21 DEF WorkersEnd
<1>22. CASE ClosePidFile(s)
  BY <1>1, <1>22 DEF ClosePidFile, Go
<1>23. CASE Die(s)
  BY <1>1, <1>23 DEF Die, Ends, Go
<1> QED
  BY <1>1, <1>2, <1>3, <1>4, <1>5, <1>6, <1>7, <1>8, <1>9, <1>10, <1>11,
     <1>12, <1>13, <1>14, <1>15, <1>16, <1>17, <1>18, <1>19, <1>20, <1>21,
     <1>22, <1>23 DEF StartStep, MainStep

\* A step of a daemon that has passed the lock afterwards leaves it with the
\* lock.
LEMMA LockedStep ==
    ASSUME TypeOK, TypeOK', Forked, NEW s \in Starts, StartStep(s),
           Locks(s) => lock = Process(s), Locks(s)'
    PROVE  lock' = Process(s)'
<1>1. step[s] \in 1 .. 8 /\ step'[s] \in 1 .. 8
  BY StepsAre DEF TypeOK
<1>2. at[s] \notin Gone \cup {"closed"} /\ step[s] \in {7, 8}
        => lock = Process(s)
  BY <1>1, PastLockIs DEF Locks, Alive
<1>3. at'[s] \notin Gone \cup {"closed"} /\ step'[s] \in {7, 8}
  BY <1>1, StepsAre DEF Locks, PastLock, Alive
<1>24. at[s] \in {"off", "options"} \cup Dirs => step[s] = 1
  BY DEF Forked, ForkedAt
<1> USE DEF Dirs, Process, Gone
<1>4. CASE Launch(s)
  BY <1>2, <1>3, <1>24, <1>4 DEF Launch, Go, TypeOK
<1>5. CASE ReadOptions(s)
  BY <1>2, <1>3, <1>24, <1>5 DEF ReadOptions, ToDirectory, Go, TypeOK
<1>6. CASE MakeDirectory(s)
  <2>1. at[s] \in Dirs /\ DirectoryDone(s)
    BY <1>6 DEF MakeDirectory
  <2>2. \/ at'[s] \in Dirs
        \/ ~debug[s] /\ at'[s] = "daemonize"
        \/ debug[s] /\ at'[s] = "bind"
    BY <2>1, DoneIs DEF Go, TypeOK
  <2>3. step[s] = 1
    BY <2>1 DEF Forked, ForkedAt
  <2> QED
    BY <1>3, <1>6, <2>2, <2>3 DEF MakeDirectory
<1>7. CASE FindDirectory(s)
  <2>1. at[s] \in Dirs /\ DirectoryDone(s)
    BY <1>7 DEF FindDirectory
  <2>2. \/ at'[s] \in Dirs
        \/ ~debug[s] /\ at'[s] = "daemonize"
        \/ debug[s] /\ at'[s] = "bind"
    BY <2>1, DoneIs DEF Go, TypeOK
  <2>3. step[s] = 1
    BY <2>1 DEF Forked, ForkedAt
  <2> QED
    BY <1>3, <1>7, <2>2, <2>3 DEF FindDirectory
<1>8. CASE LoseDirectory(s)
  BY <1>2, <1>3, <1>24, <1>8 DEF LoseDirectory, Ends, Go, TypeOK
<1>9. CASE MakeParent(s)
  BY <1>2, <1>3, <1>24, <1>9 DEF MakeParent, TypeOK
<1>10. CASE OverflowStack(s)
  BY <1>2, <1>3, <1>24, <1>10 DEF OverflowStack, Ends, Go, TypeOK
<1>11. CASE ForkDaemon(s)
  BY <1>1, <1>2, <1>3, <1>11, StepsAre DEF ForkDaemon, StepOn, Go, Daemonizing, TypeOK
<1>12. CASE PrepareDaemon(s)
  BY <1>1, <1>2, <1>3, <1>12, StepsAre DEF PrepareDaemon, StepOn, Go, Daemonizing, TypeOK
<1>13. CASE CloseDescriptors(s)
  BY <1>1, <1>2, <1>3, <1>13, StepsAre DEF CloseDescriptors, StepOn, Go, Daemonizing, TypeOK
<1>14. CASE LockFile(s)
  BY <1>1, <1>2, <1>3, <1>14, StepsAre DEF LockFile, StepOn, Go, Ends, Daemonizing, TypeOK
<1>15. CASE WritePid(s)
  BY <1>1, <1>2, <1>3, <1>15, StepsAre DEF WritePid, StepOn, Go, Daemonizing, TypeOK
<1>16. CASE OpenLog(s)
  BY <1>2, <1>3, <1>24, <1>16 DEF OpenLog, Go, TypeOK
<1>17. CASE Bind(s)
  BY <1>2, <1>3, <1>24, <1>17 DEF Bind, Go, Ends, TypeOK
<1>18. CASE Spawn(s)
  BY <1>2, <1>3, <1>24, <1>18 DEF Spawn, Go, TypeOK
<1>19. CASE Refuse(s)
  BY <1>2, <1>3, <1>24, <1>19 DEF Refuse, Ends, Go, TypeOK
<1>20. CASE PrintText(s)
  BY <1>2, <1>3, <1>24, <1>20 DEF PrintText, TypeOK
<1>21. CASE Terminate(s)
  <2>1. CASE Ends(s, "crashed")
    BY <1>3, <2>1 DEF Ends, Go, TypeOK
  <2>2. CASE Go(s, "stopping") /\ UNCHANGED lock
    <3>1. at[s] \notin Gone \cup {"closed"}
      BY <1>21 DEF Terminate, Alive
    <3>2. step'[s] = step[s] /\ forks'[s] = forks[s]
      BY <1>21 DEF Terminate
    <3> QED
      BY <1>2, <1>3, <2>2, <3>1, <3>2
  <2> QED
    BY <1>21, <2>1, <2>2 DEF Terminate
<1>22. CASE Kill(s)
  BY <1>2, <1>3, <1>24, <1>22 DEF Kill, Ends, Go, TypeOK
<1>23. CASE WorkersEnd(s)
  BY <1>2, <1>3, <1>24, <1>23 DEF WorkersEnd, TypeOK
<1>25. CASE ClosePidFile(s)
  BY <1>3, <1>25 DEF ClosePidFile, Go, TypeOK
<1>26. CASE Die(s)
  BY <1>3, <1>26 DEF Die, Ends, Go, TypeOK
<1> QED
  BY <1>1, <1>2, <1>3, <1>4, <1>5, <1>6, <1>7, <1>8, <1>9, <1>10, <1>11,
     <1>12, <1>13, <1>14, <1>15, <1>16, <1>17, <1>18, <1>19, <1>20, <1>21,
     <1>22, <1>23,
     <1>25, <1>26 DEF StartStep, MainStep

\* A start that does not serve yet has printed nothing and has no workers.
LEMMA UnprintedStep ==
    ASSUME TypeOK, Unprinted, NEW s \in Starts, StartStep(s),
           at'[s] \notin {"serving", "failed", "ended", "crashed"} \cup Leaving
    PROVE  printed'[s] = 0 /\ workers'[s] = "none"
<1> USE DEF Unprinted, Leaving, Dirs
<1>1. CASE Launch(s)
  BY <1>1 DEF Launch, Go, TypeOK
<1>2. CASE ReadOptions(s)
  BY <1>2 DEF ReadOptions, ToDirectory, Go, TypeOK
<1>3. CASE MakeDirectory(s)
  BY <1>3 DEF MakeDirectory
<1>4. CASE FindDirectory(s)
  BY <1>4 DEF FindDirectory
<1>5. CASE LoseDirectory(s)
  BY <1>5 DEF LoseDirectory, Ends, Go, TypeOK
<1>6. CASE MakeParent(s)
  BY <1>6 DEF MakeParent, TypeOK
<1>7. CASE OverflowStack(s)
  BY <1>7 DEF OverflowStack, Ends, Go, TypeOK
<1>8. CASE ForkDaemon(s)
  BY <1>8 DEF ForkDaemon, Daemonizing
<1>9. CASE PrepareDaemon(s)
  BY <1>9 DEF PrepareDaemon, Daemonizing
<1>10. CASE CloseDescriptors(s)
  BY <1>10 DEF CloseDescriptors, Daemonizing
<1>11. CASE LockFile(s)
  BY <1>11 DEF LockFile, Daemonizing
<1>12. CASE WritePid(s)
  BY <1>12 DEF WritePid, Daemonizing
<1>13. CASE OpenLog(s)
  BY <1>13 DEF OpenLog, Go, TypeOK
<1>14. CASE Bind(s)
  BY <1>14 DEF Bind, Go, Ends, TypeOK
<1>15. CASE Spawn(s)
  BY <1>15 DEF Spawn, Go, TypeOK
<1>16. CASE Refuse(s)
  BY <1>16 DEF Refuse, Ends, Go, TypeOK
<1>17. CASE PrintText(s)
  BY <1>17 DEF PrintText, TypeOK
<1>18. CASE Terminate(s)
  BY <1>18 DEF Terminate, Ends, Go, TypeOK
<1>19. CASE Kill(s)
  BY <1>19 DEF Kill, Ends, Go, TypeOK
<1>20. CASE WorkersEnd(s)
  BY <1>20 DEF WorkersEnd, TypeOK
<1>21. CASE ClosePidFile(s)
  BY <1>21 DEF ClosePidFile, Go, TypeOK
<1>22. CASE Die(s)
  BY <1>22 DEF Die, Ends, Go, TypeOK
<1> QED
  BY <1>1, <1>2, <1>3, <1>4, <1>5, <1>6, <1>7, <1>8, <1>9, <1>10, <1>11,
     <1>12, <1>13, <1>14, <1>15, <1>16, <1>17, <1>18, <1>19, <1>20,
     <1>21, <1>22 DEF StartStep, MainStep

\* Only the write of its pid brings a start to the end of daemonize, and only
\* a start in daemonize takes a step of it.
LEMMA StepBefore ==
    ASSUME TypeOK, NEW s \in Starts, StartStep(s), ~WritePid(s)
    PROVE  /\ step'[s] = 8 => step[s] = 8
           /\ at[s] # "daemonize" => step'[s] = step[s]
<1> step[s] \in 1 .. 8
  BY StepsAre DEF TypeOK
<1>1. CASE Launch(s)
  BY <1>1 DEF Launch
<1>2. CASE ReadOptions(s)
  BY <1>2 DEF ReadOptions
<1>3. CASE MakeDirectory(s)
  BY <1>3 DEF MakeDirectory
<1>4. CASE FindDirectory(s)
  BY <1>4 DEF FindDirectory
<1>5. CASE LoseDirectory(s)
  BY <1>5 DEF LoseDirectory
<1>6. CASE MakeParent(s)
  BY <1>6 DEF MakeParent
<1>7. CASE OverflowStack(s)
  BY <1>7 DEF OverflowStack
<1>8. CASE ForkDaemon(s)
  BY <1>8, StepsAre DEF ForkDaemon, StepOn, Daemonizing, TypeOK
<1>9. CASE PrepareDaemon(s)
  BY <1>9, StepsAre DEF PrepareDaemon, StepOn, Daemonizing, TypeOK
<1>10. CASE CloseDescriptors(s)
  BY <1>10, StepsAre DEF CloseDescriptors, StepOn, Daemonizing, TypeOK
<1>11. CASE LockFile(s)
  BY <1>11, StepsAre DEF LockFile, StepOn, Daemonizing, TypeOK
<1>12. CASE OpenLog(s)
  BY <1>12 DEF OpenLog
<1>13. CASE Bind(s)
  BY <1>13 DEF Bind
<1>14. CASE Spawn(s)
  BY <1>14 DEF Spawn
<1>15. CASE Refuse(s)
  BY <1>15 DEF Refuse
<1>16. CASE PrintText(s)
  BY <1>16 DEF PrintText
<1>17. CASE Terminate(s)
  BY <1>17 DEF Terminate
<1>18. CASE Kill(s)
  BY <1>18 DEF Kill
<1>19. CASE WorkersEnd(s)
  BY <1>19 DEF WorkersEnd
<1>20. CASE ClosePidFile(s)
  BY <1>20 DEF ClosePidFile
<1>21. CASE Die(s)
  BY <1>21 DEF Die
<1> QED
  BY <1>1, <1>2, <1>3, <1>4, <1>5, <1>6, <1>7, <1>8, <1>9, <1>10, <1>11,
     <1>12, <1>13, <1>14, <1>15, <1>16, <1>17, <1>18, <1>19, <1>20, <1>21
  DEF StartStep, MainStep

\* Only a server that is about to serve, or serves, gets workers.
LEMMA WorkersBefore ==
    ASSUME TypeOK, Unprinted, NEW s \in Starts, StartStep(s),
           ~debug'[s], workers'[s] # "none"
    PROVE  ~debug[s] /\ (workers[s] # "none" \/ at[s] = "spawn")
<1> USE DEF TypeOK, Unprinted, Leaving
<1>1. CASE Launch(s)
  BY <1>1 DEF Launch
<1>2. CASE ReadOptions(s)
  BY <1>2 DEF ReadOptions
<1>3. CASE MakeDirectory(s)
  BY <1>3 DEF MakeDirectory
<1>4. CASE FindDirectory(s)
  BY <1>4 DEF FindDirectory
<1>5. CASE LoseDirectory(s)
  BY <1>5 DEF LoseDirectory
<1>6. CASE MakeParent(s)
  BY <1>6 DEF MakeParent
<1>7. CASE OverflowStack(s)
  BY <1>7 DEF OverflowStack
<1>8. CASE ForkDaemon(s)
  BY <1>8 DEF ForkDaemon
<1>9. CASE PrepareDaemon(s)
  BY <1>9 DEF PrepareDaemon
<1>10. CASE CloseDescriptors(s)
  BY <1>10 DEF CloseDescriptors
<1>11. CASE LockFile(s)
  BY <1>11 DEF LockFile
<1>12. CASE WritePid(s)
  BY <1>12 DEF WritePid
<1>13. CASE OpenLog(s)
  BY <1>13 DEF OpenLog
<1>14. CASE Bind(s)
  BY <1>14 DEF Bind
<1>15. CASE Spawn(s)
  BY <1>15 DEF Spawn
<1>16. CASE Refuse(s)
  BY <1>16 DEF Refuse
<1>17. CASE PrintText(s)
  BY <1>17 DEF PrintText
<1>18. CASE Terminate(s)
  BY <1>18 DEF Terminate, WorkersLeft
<1>19. CASE Kill(s)
  BY <1>19 DEF Kill, WorkersLeft
<1>20. CASE WorkersEnd(s)
  BY <1>20 DEF WorkersEnd
<1>21. CASE ClosePidFile(s)
  BY <1>21 DEF ClosePidFile
<1>22. CASE Die(s)
  BY <1>22 DEF Die
<1> QED
  BY <1>1, <1>2, <1>3, <1>4, <1>5, <1>6, <1>7, <1>8, <1>9, <1>10, <1>11,
     <1>12, <1>13, <1>14, <1>15, <1>16, <1>17, <1>18, <1>19, <1>20,
     <1>21, <1>22 DEF StartStep, MainStep

\* Nothing else than the write of the pid and a print changes the file.
LEMMA FileStays ==
    ASSUME NEW s \in Starts, StartStep(s), ~WritePid(s), ~PrintText(s)
    PROVE  UNCHANGED <<file, printed>>
<1>1. CASE Launch(s)
  BY <1>1 DEF Launch
<1>2. CASE ReadOptions(s)
  BY <1>2 DEF ReadOptions
<1>3. CASE MakeDirectory(s)
  BY <1>3 DEF MakeDirectory
<1>4. CASE FindDirectory(s)
  BY <1>4 DEF FindDirectory
<1>5. CASE LoseDirectory(s)
  BY <1>5 DEF LoseDirectory
<1>6. CASE MakeParent(s)
  BY <1>6 DEF MakeParent
<1>7. CASE OverflowStack(s)
  BY <1>7 DEF OverflowStack
<1>8. CASE ForkDaemon(s)
  BY <1>8 DEF ForkDaemon
<1>9. CASE PrepareDaemon(s)
  BY <1>9 DEF PrepareDaemon
<1>10. CASE CloseDescriptors(s)
  BY <1>10 DEF CloseDescriptors
<1>11. CASE LockFile(s)
  BY <1>11 DEF LockFile
<1>12. CASE OpenLog(s)
  BY <1>12 DEF OpenLog
<1>13. CASE Bind(s)
  BY <1>13 DEF Bind
<1>14. CASE Spawn(s)
  BY <1>14 DEF Spawn
<1>15. CASE Refuse(s)
  BY <1>15 DEF Refuse
<1>16. CASE Terminate(s)
  BY <1>16 DEF Terminate
<1>17. CASE Kill(s)
  BY <1>17 DEF Kill
<1>18. CASE WorkersEnd(s)
  BY <1>18 DEF WorkersEnd
<1>19. CASE ClosePidFile(s)
  BY <1>19 DEF ClosePidFile
<1>20. CASE Die(s)
  BY <1>20 DEF Die
<1> QED
  BY <1>1, <1>2, <1>3, <1>4, <1>5, <1>6, <1>7, <1>8, <1>9, <1>10, <1>11,
     <1>12, <1>13, <1>14, <1>15, <1>16, <1>17, <1>18,
     <1>19, <1>20 DEF StartStep, MainStep

\* What a write of the pid and a print do to the file.
LEMMA WritePidIs ==
    ASSUME TypeOK, NEW s \in Starts, WritePid(s)
    PROVE  /\ Len(file') >= Len(file) /\ Len(file') >= Len(PidLine(s))
           /\ \A i \in 1 .. Len(PidLine(s)) : file'[i] = PidLine(s)[i]
           /\ UNCHANGED printed
<1>1. file \in Seq(Symbols) /\ 0 <= Len(file)
  BY DEF TypeOK, Symbols
<1>2. PidLine(s) \in Seq(Symbols)
  BY PidLineIs
<1>3. file' = WriteAt(0, PidLine(s)) /\ UNCHANGED printed
  BY DEF WritePid
<1> QED
  BY <1>1, <1>2, <1>3, WriteKeeps

\* A print puts text at the place that it counts, and nowhere else.
LEMMA PrintTextIs ==
    ASSUME TypeOK, Forked, Unprinted, Written, NEW s \in Starts, PrintText(s)
    PROVE  /\ step[s] = 8 /\ Len(file') >= Len(file)
           /\ Len(file') >= Len(PidLine(s)) + printed[s] + 1
           /\ file'[Len(PidLine(s)) + printed[s] + 1] = "text"
           /\ \A i \in 1 .. Len(file) :
                 i # Len(PidLine(s)) + printed[s] + 1 => file'[i] = file[i]
           /\ printed' = [printed EXCEPT ![s] = @ + 1]
           /\ UNCHANGED at
<1> DEFINE offset == Len(PidLine(s)) + printed[s]
<1>1. /\ at[s] = "serving" \/ workers[s] # "none"
      /\ ~debug[s]
      /\ file' = WriteAt(offset, <<"text">>)
      /\ printed' = [printed EXCEPT ![s] = @ + 1] /\ UNCHANGED at
  BY DEF PrintText
<1>2. step[s] = 8 /\ offset \in Nat /\ offset <= Len(file)
  BY <1>1, OffsetWithin
<1>3. /\ file \in Seq(Symbols) /\ <<"text">> \in Seq(Symbols)
      /\ Len(<<"text">>) = 1 /\ <<"text">>[1] = "text"
  BY DEF TypeOK, Symbols
<1> HIDE DEF offset
<1>4. /\ Len(file') >= Len(file) /\ Len(file') >= offset + 1
      /\ file'[offset + 1] = "text"
      /\ \A i \in 1 .. offset : file'[i] = file[i]
      /\ \A i \in (offset + 2) .. Len(file) : file'[i] = file[i]
  <2>1. /\ Len(file') >= Len(file)
        /\ Len(file') >= offset + Len(<<"text">>)
        /\ \A i \in 1 .. offset : file'[i] = file[i]
        /\ \A i \in 1 .. Len(<<"text">>) : file'[offset + i] = <<"text">>[i]
        /\ \A i \in (offset + Len(<<"text">>) + 1) .. Len(file) :
              file'[i] = file[i]
    BY <1>1, <1>2, <1>3, WriteKeeps
  <2> QED
    BY <1>2, <1>3, <2>1
<1>5. \A i \in 1 .. Len(file) :
         i # offset + 1 => i \in 1 .. offset \/ i \in (offset + 2) .. Len(file)
  BY <1>2, <1>3
<1>6. \A i \in 1 .. Len(file) : i # offset + 1 => file'[i] = file[i]
  BY <1>4, <1>5
<1> QED
  BY <1>1, <1>2, <1>4, <1>6 DEF offset

LEMMA UnprintedKept ==
    ASSUME IInv, NEW s \in Starts, StartStep(s)
    PROVE  Unprinted'
<1> USE DEF IInv
<1>1. SUFFICES ASSUME NEW t \in Starts, ~debug'[t], workers'[t] # "none"
               PROVE  step'[t] = 8
  BY UnprintedStep, OthersStay DEF Unprinted
<1>2. CASE t # s
  BY <1>1, <1>2, OthersStay DEF Unprinted
<1>3. CASE t = s
  <2>1. ~debug[s] /\ (workers[s] # "none" \/ at[s] = "spawn")
    BY <1>1, <1>3, WorkersBefore
  <2>2. at[s] # "daemonize" /\ step[s] = 8
    BY <2>1 DEF Unprinted, Forked, ForkedAt, Running, Leaving
  <2>3. ~WritePid(s)
    BY <2>2 DEF WritePid, Daemonizing
  <2> QED
    BY <1>3, <2>2, <2>3, StepBefore
<1> QED
  BY <1>2, <1>3

LEMMA WrittenStep ==
    ASSUME IInv, TypeOK', NEW s \in Starts, StartStep(s)
    PROVE  Written'
<1> USE DEF IInv
<1>1. SUFFICES ASSUME NEW t \in Starts, step'[t] = 8
               PROVE  Len(file') >= Len(PidLine(t)) + printed'[t]
  BY PidLineStays DEF Written
<1>2. /\ Len(file) \in Nat /\ Len(file') \in Nat
      /\ Len(PidLine(t)) \in Nat /\ printed[t] \in Nat
  <2>1. file \in Seq(Symbols) /\ file' \in Seq(Symbols)
    BY DEF TypeOK, Symbols
  <2>2. Len(PidLine(t)) \in Nat /\ printed[t] \in Nat
    BY PidLineIs, DaemonAssumption DEF TypeOK
  <2> QED
    BY <2>1, <2>2
<1>3. Len(file') >= Len(file)
  BY <1>2, WritePidIs, PrintTextIs, FileStays
<1>4. CASE t # s
  <2>1. Len(file) >= Len(PidLine(t)) + printed[t] /\ printed'[t] = printed[t]
    BY <1>1, <1>4, OthersStay DEF Written
  <2> QED
    BY <1>2, <1>3, <2>1
<1>5. CASE t = s /\ WritePid(s)
  <2>1. at[s] = "daemonize"
    BY <1>5 DEF WritePid, Daemonizing
  <2>2. printed[s] = 0
    BY <2>1 DEF Unprinted, Leaving
  <2> QED
    BY <1>2, <1>5, <2>2, WritePidIs
<1>6. CASE t = s /\ ~WritePid(s)
  <2>1. step[s] = 8
    BY <1>1, <1>6, StepBefore
  <2>2. Len(file) >= Len(PidLine(s)) + printed[s]
    BY <2>1 DEF Written
  <2>3. CASE PrintText(s)
    <3>1. printed'[s] = printed[s] + 1
      <4>1. printed' = [printed EXCEPT ![s] = @ + 1]
        BY <2>3, PrintTextIs
      <4> QED
        BY <4>1 DEF TypeOK
    <3> QED
      BY <1>2, <1>6, <2>3, <3>1, PrintTextIs
  <2>4. CASE ~PrintText(s)
    BY <1>2, <1>6, <2>2, <2>4, FileStays
  <2> QED
    BY <2>3, <2>4
<1> QED
  BY <1>4, <1>5, <1>6

-----------------------------------------------------------------------------
(* The lock and the first line, for all starts.                             *)

\* With the lock in one place, only one start holds it.
LEMMA LockedIsOne ==
    ASSUME Locked, NEW s \in Starts, NEW t \in Starts, Locks(s), Locks(t)
    PROVE  s = t
<1>1. Process(s) = Process(t)
  BY DEF Locked
<1> QED
  BY <1>1 DEF Process

\* Whether a start holds the lock depends on its own place alone.
LEMMA LocksStay ==
    ASSUME TypeOK, NEW s \in Starts, NEW t \in Starts, t # s, StartStep(s)
    PROVE  Locks(t)' <=> Locks(t)
  BY OthersStay DEF Locks, PastLock, Alive

LEMMA LockedKept ==
    ASSUME IInv, TypeOK', NEW s \in Starts, StartStep(s)
    PROVE  Locked'
<1> USE DEF IInv
<1> SUFFICES ASSUME NEW t \in Starts, Locks(t)'
             PROVE  lock' = Process(t)'
  BY DEF Locked
<1>1. CASE t = s
  BY <1>1, LockedStep DEF Locked
<1>2. CASE t # s
  <2>1. lock = Process(t)
    BY <1>2, LocksStay DEF Locked
  <2>2. lock' = lock
    BY <1>2, <2>1, LockStays
  <2>3. Process(t)' = Process(t)
    BY <1>2, OthersStay DEF Process
  <2> QED
    BY <2>1, <2>2, <2>3
<1> QED
  BY <1>1, <1>2

\* A start that has closed the pid file, or is gone, does not come back.
LEMMA GoneStays ==
    ASSUME TypeOK, NEW s \in Starts, StartStep(s),
           at[s] \in (Gone \ {"off"}) \cup {"closed"}
    PROVE  at'[s] \in (Gone \ {"off"}) \cup {"closed"}
<1> USE DEF Gone, Dirs
<1>1. /\ ~Launch(s) /\ ~ReadOptions(s) /\ ~MakeDirectory(s)
      /\ ~FindDirectory(s) /\ ~LoseDirectory(s) /\ ~MakeParent(s)
      /\ ~OverflowStack(s)
  BY DEF Launch, ReadOptions, MakeDirectory, FindDirectory, LoseDirectory,
         MakeParent, OverflowStack
<1>2. /\ ~ForkDaemon(s) /\ ~PrepareDaemon(s) /\ ~CloseDescriptors(s)
      /\ ~LockFile(s) /\ ~WritePid(s) /\ ~Refuse(s)
  BY DEF ForkDaemon, PrepareDaemon, CloseDescriptors, LockFile, WritePid,
         Refuse, Daemonizing
<1>3. /\ ~OpenLog(s) /\ ~Bind(s) /\ ~Spawn(s) /\ ~ClosePidFile(s)
      /\ ~Terminate(s)
  BY DEF OpenLog, Bind, Spawn, ClosePidFile, Terminate, Alive
<1>4. CASE Die(s)
  BY <1>4 DEF Die, Ends, Go, TypeOK
<1>5. CASE Kill(s)
  BY <1>5 DEF Kill, Ends, Go, TypeOK
<1>6. CASE PrintText(s)
  BY <1>6 DEF PrintText
<1>7. CASE WorkersEnd(s)
  BY <1>7 DEF WorkersEnd
<1> QED
  BY <1>1, <1>2, <1>3, <1>4, <1>5, <1>6, <1>7 DEF StartStep, MainStep

\* Where workers of a former daemon have printed, they have for ever.
LEMMA PrintedOverStays ==
    ASSUME IInv, TypeOK', NEW s \in Starts, StartStep(s), NEW i \in Nat,
           PrintedOver(i)
    PROVE  PrintedOver(i)'
<1> USE DEF IInv
<1>1. PICK t \in Starts : /\ ~Alive(t) \/ at[t] = "closed"
                          /\ i - Len(PidLine(t)) \in 1 .. printed[t]
  BY DEF PrintedOver
<1>2. /\ Len(PidLine(t)) \in Nat /\ printed[t] \in Nat
      /\ PidLine(t)' = PidLine(t)
  BY PidLineIs, PidLineStays, DaemonAssumption DEF TypeOK
<1>3. printed'[t] \in Nat /\ printed'[t] >= printed[t]
  <2>1. CASE PrintText(s)
    <3>1. printed' = [printed EXCEPT ![s] = @ + 1]
      BY <2>1, PrintTextIs
    <3> QED
      BY <1>2, <3>1 DEF TypeOK
  <2>2. CASE ~PrintText(s)
    BY <1>2, <2>2, WritePidIs, FileStays
  <2> QED
    BY <2>1, <2>2
<1>4. ~Alive(t)' \/ at'[t] = "closed"
  <2>1. CASE t # s
    BY <1>1, <2>1, OthersStay DEF Alive
  <2>2. CASE t = s
    <3>1. at[s] # "off"
      BY <1>1, <1>2, <2>2 DEF Unprinted, Leaving
    <3>2. at[s] \in (Gone \ {"off"}) \cup {"closed"}
      BY <1>1, <2>2, <3>1 DEF Alive
    <3> QED
      BY <2>2, <3>2, GoneStays DEF Alive
  <2> QED
    BY <2>1, <2>2
<1>5. i - Len(PidLine(t)) \in 1 .. printed'[t]
  BY <1>1, <1>2, <1>3
<1> QED
  BY <1>2, <1>4, <1>5 DEF PrintedOver

\* A print by anybody but the daemon that holds the lock is one of a former
\* daemon's, and lands behind the length of its line.
LEMMA PrintNamed ==
    ASSUME IInv, TypeOK', NEW s \in Starts, PrintText(s), StartStep(s),
           NEW t \in Starts, Locks(t), step[t] = 8,
           NEW i \in 1 .. Len(PidLine(t)), NamedAt(t, i)
    PROVE  NamedAt(t, i)'
<1> USE DEF IInv
<1> DEFINE place == Len(PidLine(s)) + printed[s] + 1
<1>1. /\ Len(PidLine(s)) \in Nat /\ printed[s] \in Nat
      /\ Len(PidLine(t)) \in Nat /\ printed[t] \in Nat /\ i \in Nat
      /\ Len(file) \in Nat /\ PidLine(t)' = PidLine(t)
  <2>1. PidLine(s) \in Seq(Symbols) /\ PidLine(t) \in Seq(Symbols)
    BY PidLineIs
  <2>2. /\ printed[s] \in Nat /\ printed[t] \in Nat /\ Len(file) \in Nat
    BY DaemonAssumption DEF TypeOK
  <2> QED
    BY <2>1, <2>2, PidLineStays
<1>2. i \in 1 .. Len(file)
  BY <1>1 DEF Written
<1>3. CASE i # place
  <2>1. file'[i] = file[i]
    BY <1>2, <1>3, PrintTextIs
  <2> QED
    BY <1>1, <2>1, PrintedOverStays DEF NamedAt
<1>4. CASE i = place
  <2>1. s # t
    BY <1>1, <1>4
  <2>2. step[s] = 8 /\ file'[i] = "text"
    BY <1>4, PrintTextIs
  <2>3. PastLock(s) <=> Alive(s)
    BY <2>2, PastLockIs
  <2>4. ~Alive(s) \/ at[s] = "closed"
    BY <2>1, <2>3, LockedIsOne DEF Locks
  <2>5. /\ printed'[s] = printed[s] + 1 /\ at' = at
        /\ PidLine(s)' = PidLine(s)
    BY PrintTextIs, PidLineStays DEF TypeOK
  <2>6. i - Len(PidLine(s)) \in 1 .. printed'[s]
    BY <1>1, <1>4, <2>5
  <2>7. PrintedOver(i)'
    BY <2>4, <2>5, <2>6 DEF PrintedOver, Alive
  <2> QED
    BY <2>2, <2>7 DEF NamedAt
<1> QED
  BY <1>3, <1>4

LEMMA NamedKept ==
    ASSUME IInv, TypeOK', Forked', NEW s \in Starts, StartStep(s)
    PROVE  Named'
<1> USE DEF IInv
<1>1. SUFFICES ASSUME NEW t \in Starts, Locks(t)', at'[t] # "daemonize",
                      NEW i \in 1 .. Len(PidLine(t))
               PROVE  NamedAt(t, i)'
  BY PidLineStays DEF Named
<1>2. /\ step[s] \in 1 .. 8 /\ step[t] \in 1 .. 8 /\ step'[t] \in 1 .. 8
      /\ i \in Nat /\ PidLine(t)' = PidLine(t)
  <2>1. i \in Nat
    OBVIOUS
  <2>2. step \in [Starts -> 1 .. (Len(DaemonSteps) + 1)]
    BY DEF TypeOK
  <2>3. step' \in [Starts -> 1 .. (Len(DaemonSteps) + 1)]
    BY DEF TypeOK
  <2> QED
    BY <2>1, <2>2, <2>3, PidLineStays, StepsAre
<1>3. step'[t] = 8
  <2>1. Alive(t)' /\ step'[t] \in {7, 8}
    BY <1>1, <1>2, StepsAre DEF Locks, PastLock
  <2> QED
    <3>1. ForkedAt(t)' /\ at'[t] \in Places
      BY DEF Forked, TypeOK
    <3>2. at'[t] \notin Gone \cup {"daemonize"}
      BY <1>1, <2>1 DEF Alive
    <3> QED
      BY <2>1, <3>1, <3>2 DEF ForkedAt, Places, Running, Leaving
<1>4. CASE t = s /\ WritePid(s)
  BY <1>2, <1>4, WritePidIs DEF NamedAt
<1>5. CASE ~(t = s /\ WritePid(s))
  <2>1. step[t] = 8 /\ at[t] # "daemonize"
    <3>1. step[t] = 8
      BY <1>3, <1>5, StepBefore, OthersStay
    <3> QED
      BY <3>1, StepsAre DEF TypeOK
  <2>2. Locks(t)
    <3>1. CASE t = s
      <4>1. at[t] \notin Gone \cup {"closed"}
        <5>1. at[t] \in (Gone \ {"off"}) \cup {"closed"} => FALSE
          BY <1>1, <3>1, GoneStays DEF Locks, PastLock, Alive
        <5>2. at[t] # "off"
          BY <2>1 DEF Forked, ForkedAt
        <5> QED
          BY <5>1, <5>2
      <4> QED
        BY <1>2, <2>1, <4>1, PastLockIs DEF Locks, Alive
    <3>2. CASE t # s
      BY <1>1, <3>2, LocksStay
    <3> QED
      BY <3>1, <3>2
  <2>3. NamedAt(t, i)
    BY <2>1, <2>2 DEF Named
  <2>4. ~WritePid(s)
    <3> SUFFICES ASSUME WritePid(s) PROVE FALSE
      OBVIOUS
    <3>1. at[s] = "daemonize" /\ DaemonSteps[step[s]] = "write"
      BY DEF WritePid, Daemonizing
    <3>2. step[s] = 7
      <4>1. step[s] <= 7
        BY <3>1, StepsAre DEF TypeOK
      <4>2. step[s] \in 1 .. 7
        BY <1>2, <4>1
      <4> QED
        BY <3>1, <4>2, StepsAre
    <3>3. Locks(s)
      BY <1>2, <3>1, <3>2, PastLockIs DEF Locks, Alive, Gone
    <3> QED
      BY <1>5, <2>2, <3>3, LockedIsOne
  <2>5. CASE PrintText(s)
    BY <1>1, <2>1, <2>2, <2>3, <2>5, PrintNamed
  <2>6. CASE ~PrintText(s)
    <3>1. file' = file
      BY <2>4, <2>6, FileStays
    <3> QED
      BY <1>2, <2>3, <3>1, PrintedOverStays DEF NamedAt
  <2> QED
    BY <2>5, <2>6
<1> QED
  BY <1>4, <1>5

-----------------------------------------------------------------------------
(* The invariant and the theorems.                                          *)

LEMMA InitInvariant == Init => IInv
<1> SUFFICES ASSUME Init PROVE IInv
  OBVIOUS
<1> USE DaemonAssumption DEF Init
<1>1. depth \in [Dirs -> Nat]
  BY DEF Dirs
<1>2. made \in [Dirs -> Nat] /\ \A d \in Dirs : made[d] <= depth[d]
  BY <1>1 DEF Dirs
<1>3. TypeOK
  <2>1. at \in [Starts -> Places] /\ (\A s \in Starts : at[s] \notin Dirs)
    BY DEF Places, Gone, Dirs
  <2>2. /\ step \in [Starts -> 1 .. (Len(DaemonSteps) + 1)]
        /\ \A s \in Starts : at[s] # "daemonize"
        /\ level \in [Starts -> Nat] /\ back \in [Starts -> BOOLEAN]
        /\ debug \in [Starts -> BOOLEAN] /\ width \in [Starts -> 1 .. 3]
        /\ forks \in [Starts -> 0 .. 2]
        /\ workers \in [Starts -> {"none", "serving", "told"}]
        /\ printed \in [Starts -> 0 .. MaxPrints]
    BY StepsAre
  <2>3. file \in Seq(Starts \cup {"newline", "text"})
    OBVIOUS
  <2> QED
    BY <1>1, <1>2, <2>1, <2>2, <2>3 DEF TypeOK
<1>4. Forked /\ Unprinted /\ Written
  BY DEF Forked, ForkedAt, Unprinted, Written, Running, Leaving, Dirs
<1>5. Locked /\ Named
  BY DEF Locked, Locks, Named, PastLock, Alive, Gone
<1> QED
  BY <1>3, <1>4, <1>5 DEF IInv

LEMMA NextInvariant == IInv /\ [Next]_vars => IInv'
<1> SUFFICES ASSUME IInv, [Next]_vars PROVE IInv'
  OBVIOUS
<1>1. ASSUME NEW s \in Starts, StartStep(s)
      PROVE  IInv'
  <2>1. TypeOK'
    BY <1>1, TypeStep
  <2>2. Forked'
    BY <1>1, ForkedStep, OthersStay DEF IInv, Forked, ForkedAt
  <2>3. Unprinted'
    BY <1>1, UnprintedKept
  <2> QED
    BY <1>1, <2>1, <2>2, <2>3, LockedKept, WrittenStep, NamedKept DEF IInv
<1>2. CASE UNCHANGED vars
  <2>1. TypeOK' /\ Forked' /\ Locked' /\ Unprinted'
    BY <1>2 DEF IInv, TypeOK, Forked, ForkedAt, Locked, Locks, Unprinted,
       PastLock, Alive, Process, vars, startVars
  <2>2. Written'
    BY <1>2 DEF IInv, Written, PidLine, vars, startVars
  <2>3. Named'
    BY <1>2 DEF IInv, Named, NamedAt, PrintedOver, PidLine, Locks, PastLock,
       Alive, vars, startVars
  <2> QED
    BY <2>1, <2>2, <2>3 DEF IInv
<1>3. Next => \E s \in Starts : StartStep(s)
  BY DEF Next, StartStep
<1> QED
  BY <1>1, <1>2, <1>3

LEMMA Invariant == Spec => []IInv
  BY InitInvariant, NextInvariant, PTL DEF Spec

\* Every variable keeps its type: a start is in a place of main, forks twice
\* at most, and never looks for a directory below the one that it needs.
THEOREM TypeCorrect == Spec => []TypeOK
<1>1. IInv => TypeOK
  BY DEF IInv
<1> QED
  BY <1>1, Invariant, PTL

\* daemonize: "lock pid file to ensure we have only one copy". However many
\* are started, and wherever they are killed, of two daemons that live and
\* have passed the lock one has closed its pid file in the termination
\* handler, and is about to die.
THEOREM OneDaemonCorrect == Spec => []OneDaemon
<1>1. IInv => OneDaemon
  BY LockedIsOne DEF IInv, OneDaemon, Locks
<1> QED
  BY <1>1, Invariant, PTL

\* The first line of the pid file is the pid of the daemon that holds the
\* lock, but for text that workers of daemons that have given it up have
\* printed behind the length of their own daemon's line.
THEOREM PidFileCorrect == Spec => []PidFileNames
<1>1. IInv => PidFileNames
  <2> SUFFICES ASSUME IInv, NEW s \in Starts, PastLock(s),
                      at[s] \notin {"daemonize", "closed"}
               PROVE  /\ Len(file) >= Len(PidLine(s))
                      /\ \A i \in 1 .. Len(PidLine(s)) : NamedAt(s, i)
    BY DEF PidFileNames, NamedAt
  <2> USE DEF IInv
  <2>1. Len(PidLine(s)) \in Nat /\ printed[s] \in Nat /\ step[s] \in 1 .. 8
    BY PidLineIs, StepsAre, DaemonAssumption DEF TypeOK
  <2>2. Alive(s) /\ step[s] \in {7, 8}
    BY <2>1, PastLockIs
  <2>3. step[s] = 8
    <3>1. ForkedAt(s) /\ at[s] \in Places
      BY DEF Forked, TypeOK
    <3>2. at[s] \notin Gone \cup {"daemonize"}
      BY <2>2 DEF Alive
    <3> QED
      BY <2>2, <3>1, <3>2 DEF ForkedAt, Places, Running, Leaving
  <2>4. Len(file) >= Len(PidLine(s))
    <3>1. Len(file) >= Len(PidLine(s)) + printed[s] /\ Len(file) \in Nat
      BY <2>3 DEF Written, TypeOK
    <3> QED
      BY <2>1, <3>1
  <2> QED
    BY <2>4 DEF Named, Locks
<1> QED
  BY <1>1, Invariant, PTL

=============================================================================
