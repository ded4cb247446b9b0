------------------------------- MODULE Parent -------------------------------
(***************************************************************************)
(* The while(1) loop of the scheduler process that FIFO.c, RR.c and SJF.c  *)
(* write out in the same order: reap the running child when its units are  *)
(* used up, fork every entry whose ready time is now, choose, and let one  *)
(* time unit pass.  The policies add their choice, and PSJF.c has a loop   *)
(* of its own.                                                             *)
(*                                                                         *)
(* Children run between any two steps of the parent.  One iteration is     *)
(*   reap -> fork [-> assign -> block -> fork]* -> select [-> demote]      *)
(*        -> tick -> reap                                                  *)
(***************************************************************************)
EXTENDS Kernel

CONSTANTS
  Readies,   \* the ready times an input file may hold
  Bursts,    \* the execution times an input file may hold
  MaxTime,   \* the clock saturates here: bounds the idle loop that never ends
  StrayPids  \* what the out-of-bounds read proc[-1].pid may give

(***************************************************************************)
(* proc[-1].pid lies in the malloc header in front of the table.  On the   *)
(* x86-64 glibc of the repository's binary it is the upper half of the     *)
(* chunk size, 0, the calling process; elsewhere it may name nobody.       *)
(***************************************************************************)
ASSUME ParentAssumption ==
  /\ Bursts \subseteq Nat
  /\ MaxTime \in Nat
  /\ \A r \in Readies : r \in Nat /\ r < MaxTime
  /\ StrayPids # {} /\ StrayPids \subseteq {Self, NoPid}

(* The bound on the clock is beyond the end of every schedule: it is only  *)
(* reached by a loop that never ends.                                      *)
ASSUME ClockAssumption ==
  \A r \in Readies, b \in Bursts : r + (N * b) <= MaxTime

VARIABLES
  pc,        \* where the parent is in its loop
  i,         \* the fork loop's index
  time,      \* time_cnt, time_now, ntime
  running,   \* index of the running entry, or -1
  finished,  \* finish, finish_cnt
  ready, exec, pid,  \* the columns of the process table
  burst,     \* history: exec as read from the input
  ended      \* history: the time printed when the entry was reaped, or -1

table  == <<ready, burst>>
parent == <<pc, i, time, running, finished, ready, exec, pid, burst, ended>>

Steps == {"reap", "fork", "assign", "block", "select", "demote", "tick",
          "done", "exited"}

ParentTypeOK ==
  /\ KernelTypeOK
  /\ pc       \in Steps
  /\ i        \in 0 .. N
  /\ time     \in 0 .. MaxTime
  /\ running  \in Idx \cup {-1}
  /\ finished \in Nat
  /\ ready    \in [Idx -> Readies]
  /\ exec     \in [Idx -> Nat]
  /\ pid      \in [Idx -> Kids \cup {NoPid}]
  /\ burst    \in [Idx -> Bursts]
  /\ ended    \in [Idx -> 0 .. MaxTime \cup {-1}]

(* The table as qsort leaves it; qsort need not be stable, so equal ready  *)
(* times come in any order.                                                *)
Sorted(r) == \A j, k \in Idx : j < k => r[j] <= r[k]

ParentInit ==
  /\ KernelInit
  /\ pc = "reap" /\ i = 0
  /\ time = 0 /\ running = -1 /\ finished = 0
  /\ ready \in {r \in [Idx -> Readies] : Sorted(r)}
  /\ exec \in [Idx -> Bursts]
  /\ burst = exec
  /\ pid   = [j \in Idx |-> NoPid]
  /\ ended = [j \in Idx |-> -1]

-----------------------------------------------------------------------------
(* Reaping: the parent waits for the child it has counted down. *)

(* Mutant: the count-down is checked one unit late. *)
UsedUpLate == running # -1 /\ exec[running] < 0

UsedUp == running # -1 /\ exec[running] = 0

(* Mutants: the loop ends one child early; it compares before it counts. *)
ReapEndsAt(last) ==
  /\ pc = "reap" /\ UsedUp
  /\ Waitpid(pid[running])
  /\ ended'    = [ended EXCEPT ![running] = time]
  /\ running'  = -1
  /\ finished' = finished + 1
  /\ pc' = IF finished' = last THEN "done" ELSE "fork"
  /\ UNCHANGED <<class, cpu, left, i, time, exec, pid, table>>

ReapEndsEarly == ReapEndsAt(N - 1)
ReapNeverEnds == ReapEndsAt(N + 1)

ReapRunning ==
  /\ pc = "reap" /\ UsedUp
  /\ Waitpid(pid[running])
  /\ ended'    = [ended EXCEPT ![running] = time]
  /\ running'  = -1
  /\ finished' = finished + 1
  /\ pc' = IF finished' = N THEN "done" ELSE "fork"
  /\ UNCHANGED <<class, cpu, left, i, time, exec, pid, table>>

NothingToReap ==
  /\ pc = "reap" /\ ~UsedUp
  /\ pc' = "fork"
  /\ UNCHANGED <<kernel, i, time, running, finished, exec, pid, ended, table>>

-----------------------------------------------------------------------------
(* Forking every entry whose ready time is now, in index order. *)

(* Mutant: the loop starts one entry too late. *)
DueSkipsFirst(j) == j > i /\ ready[j] = time

Due(j) == j >= i /\ ready[j] = time

FirstDue(j) == Due(j) /\ \A k \in Idx : Due(k) => j <= k

(* proc_exec: the child exists, and runs, before the table knows its pid. *)
ForkChild(j) ==
  /\ pc = "fork" /\ FirstDue(j)
  /\ Fork(Child(j), exec[j])
  /\ i' = j
  /\ pc' = "assign"
  /\ UNCHANGED <<time, running, finished, exec, pid, ended, table>>

(* FIFO.c and RR.c: proc_exec gives -1, and proc_block(-1) does nothing. *)
ForkIgnored(j) ==
  /\ pc = "fork" /\ FirstDue(j)
  /\ ForkFails(Child(j))
  /\ i' = j + 1
  /\ UNCHANGED <<pc, time, running, finished, exec, pid, ended, table>>

AssignCpu ==
  /\ pc = "assign"
  /\ cpu' = [cpu EXCEPT ![Child(i)] = CHILD_CPU]
  /\ pc' = "block"
  /\ UNCHANGED <<life, class, left, i, time, running, finished, exec, pid,
                 ended, table>>

(* proc_assign_cpu calls exit(1) and leaves all children behind. *)
AssignFails ==
  /\ "affinity" \in Faults
  /\ pc = "assign"
  /\ pc' = "exited"
  /\ UNCHANGED <<kernel, i, time, running, finished, exec, pid, ended, table>>

(* Mutant: a new child is not put to SCHED_IDLE. *)
BlockForgotten ==
  /\ pc = "block"
  /\ pid' = [pid EXCEPT ![i] = Child(i)]
  /\ i' = i + 1
  /\ pc' = "fork"
  /\ UNCHANGED <<kernel, time, running, finished, exec, ended, table>>

Block ==
  /\ pc = "block"
  /\ pid'   = [pid EXCEPT ![i] = Child(i)]
  /\ class' = Reclass(Child(i), SCHED_IDLE)
  /\ i' = i + 1
  /\ pc' = "fork"
  /\ UNCHANGED <<life, cpu, left, time, running, finished, exec, ended, table>>

EndFork ==
  /\ pc = "fork" /\ \A j \in Idx : ~Due(j)
  /\ i' = 0
  /\ pc' = "select"
  /\ UNCHANGED <<kernel, time, running, finished, exec, pid, ended, table>>

-----------------------------------------------------------------------------
(* Switching to the entry the policy chose: wake the next, block the old.  *)

(* Mutants: finished entries stay eligible; `break` instead of `continue`. *)
ReadyOrFinished   == {j \in Idx : pid[j] # NoPid}
ReadyUpToUnforked == {j \in Idx : exec[j] > 0 /\ \A k \in 0 .. j : pid[k] # NoPid}

Ready == {j \in Idx : pid[j] # NoPid /\ exec[j] > 0}

KeepRunning(next) ==
  /\ pc = "select" /\ next \in {-1, running}
  /\ pc' = "tick"
  /\ UNCHANGED <<kernel, i, time, running, finished, exec, pid, ended, table>>

Wakeup(next) ==
  /\ pc = "select" /\ next \notin {-1, running}
  /\ class' = Reclass(pid[next], SCHED_OTHER)
  /\ pc' = "demote"
  /\ UNCHANGED <<life, cpu, left, i, time, running, finished, exec, pid, ended,
                 table>>

(* Mutant: the preempted child is not blocked. *)
DemoteForgotten(next) ==
  /\ pc = "demote"
  /\ running' = next
  /\ pc' = "tick"
  /\ UNCHANGED <<kernel, i, time, finished, exec, pid, ended, table>>

(* proc_block(proc[running].pid), also when running is still -1. *)
Demote(next) ==
  /\ pc = "demote"
  /\ \E p \in IF running = -1 THEN StrayPids ELSE {pid[running]} :
       class' = Reclass(p, SCHED_IDLE)
  /\ running' = next
  /\ pc' = "tick"
  /\ UNCHANGED <<life, cpu, left, i, time, finished, exec, pid, ended, table>>

(* One time unit passes, and is charged to the running entry. *)
Tick ==
  /\ pc = "tick"
  /\ time' = IF time < MaxTime THEN time + 1 ELSE time
  /\ exec' = IF running = -1 THEN exec ELSE [exec EXCEPT ![running] = @ - 1]
  /\ pc' = "reap"
  /\ UNCHANGED <<kernel, i, running, finished, pid, ended, table>>

-----------------------------------------------------------------------------
(* The children, and the end: the parent is gone and no child runs. *)

Children == (\E p \in Kids : ChildStep(p)) /\ UNCHANGED parent

Terminated ==
  /\ pc \in {"done", "exited"}
  /\ \A p \in Kids : life[p] # "alive"
  /\ UNCHANGED <<kernel, parent>>

-----------------------------------------------------------------------------
(* Properties that the policies share.                                     *)

(***************************************************************************)
(* The parent's count-down and the child's own loop agree in the end: an   *)
(* entry is reported as ended only when the parent has charged it all its  *)
(* units, and the child has burned all of its own and been reaped.         *)
(***************************************************************************)
EndedRanToCompletion ==
  \A j \in Idx : ended[j] # -1
                 => /\ exec[j] = 0 /\ left[Child(j)] = 0
                    /\ life[Child(j)] = "reaped"

(***************************************************************************)
(* FIFO.c and RR.c: except within a switch, and before a new child has     *)
(* been blocked, the one child above SCHED_IDLE is the running one,        *)
(* whatever the parent read from proc[-1] when nobody was running.         *)
(***************************************************************************)
AwakeIsRunning ==
  pc # "demote" /\ "priority" \notin Faults =>
    \A j \in Idx : pid[j] # NoPid /\ life[Child(j)] \in {"alive", "zombie"}
                   => (class[Child(j)] # SCHED_IDLE <=> running = j)

(* The loop ends only when all children are reaped: it leaves no orphan.   *)
DoneMeansAllReaped ==
  pc = "done" => \A p \in Kids : life[p] = "reaped"

(* The scheduler reaps all children and returns, or a failed call ends it. *)
Terminates == <>(pc \in {"done", "exited"})

(***************************************************************************)
(* A failed fork makes the loop of FIFO.c and RR.c endless, and so does an *)
(* entry of 0 units, but they delay nobody: every other child in the table *)
(* is reaped, unless the parent exits.                                     *)
(***************************************************************************)
ForkedAreReaped ==
  \A j \in Idx : pid[j] # NoPid /\ burst[j] > 0
                 ~> (life[Child(j)] = "reaped" \/ pc = "exited")

-----------------------------------------------------------------------------
(* The ideal one-CPU schedule that a state of the loop stands for.         *)
Cpu == INSTANCE SingleCpu WITH
         need    <- exec,
         clock   <- time,
         arrived <- {j \in Idx : pid[j] # NoPid},
         lost    <- {j \in Idx : life[Child(j)] = "failed"},
         cur     <- running

=============================================================================
