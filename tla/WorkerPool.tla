----------------------------- MODULE WorkerPool -----------------------------
(***************************************************************************)
(* What bitz::Manager promises about its pool of worker processes,         *)
(* whatever signals interrupt it.  A pool slot belongs to one process from *)
(* the moment the process is enrolled until the slot is struck off, which  *)
(* happens only once that process has died; the tally is the number of     *)
(* slots taken; and a new worker is born only when every worker that is    *)
(* still alive has been enrolled, so the manager is never more than one    *)
(* process behind.                                                         *)
(*                                                                         *)
(* Server.tla is shown to implement this specification.                    *)
(***************************************************************************)
EXTENDS Integers

CONSTANTS Slots,   \* the indexes of worker_pool
          Pids,    \* the process identifiers
          NoPid    \* an empty slot (worker_pid 0)

VARIABLES owner,   \* owner[i]: the process enrolled in slot i, or NoPid
          tally,   \* the manager's count of enrolled workers
          alive    \* the worker processes that are running

abstractVars == <<owner, tally, alive>>

Enrolled == {p \in Pids : \E i \in Slots : owner[i] = p}

PoolInit ==
    /\ owner = [i \in Slots |-> NoPid]
    /\ tally = 0
    /\ alive = {}

Born(p) ==
    /\ p \notin alive
    /\ alive \subseteq Enrolled
    /\ alive' = alive \cup {p}
    /\ UNCHANGED <<owner, tally>>

\* The process enrolled is normally alive, but it may have died already.
Enrol(i, p) ==
    /\ owner[i] = NoPid
    /\ owner' = [owner EXCEPT ![i] = p]
    /\ tally' = tally + 1
    /\ UNCHANGED alive

Die(p) ==
    /\ p \in alive
    /\ alive' = alive \ {p}
    /\ UNCHANGED <<owner, tally>>

StrikeOff(i) ==
    /\ owner[i] \in Pids \ alive
    /\ owner' = [owner EXCEPT ![i] = NoPid]
    /\ tally' = tally - 1
    /\ UNCHANGED alive

PoolNext ==
    \/ \E p \in Pids : Born(p) \/ Die(p)
    \/ \E i \in Slots : StrikeOff(i) \/ \E p \in Pids : Enrol(i, p)

PoolSpec == PoolInit /\ [][PoolNext]_abstractVars
=============================================================================
