-------------------------------- MODULE SJF ---------------------------------
(***************************************************************************)
(* SJF.c: the loop of Parent, choosing the shortest forked process and     *)
(* never preempting it.  The chosen child gets SCHED_FIFO priority 99, so  *)
(* nobody has to be put back, and a failed fork is fatal: the pid -1 goes  *)
(* straight into proc_assign_cpu, which exits.                             *)
(***************************************************************************)
EXTENDS Parent

vars == <<kernel, parent>>

TypeOK == ParentTypeOK

Init == ParentInit

ForkFatal(j) ==
  /\ pc = "fork" /\ FirstDue(j)
  /\ ForkFails(Child(j))
  /\ pc' = "exited"
  /\ UNCHANGED <<i, time, running, finished, exec, pid, ended, table>>

(* Mutant: longest job first. *)
Longer(j, k) == exec[j] > exec[k] \/ (exec[j] = exec[k] /\ j <= k)

(* The first entry, in table order, of least remaining execution time.     *)
Shorter(j, k) == exec[j] < exec[k] \/ (exec[j] = exec[k] /\ j <= k)

NextShortest ==
  IF running # -1 THEN running
  ELSE IF Ready = {} THEN -1
  ELSE CHOOSE j \in Ready : \A k \in Ready : Shorter(j, k)

(* Mutant: to SCHED_OTHER, as FIFO.c and RR.c do. *)
ToForegroundFair(next) ==
  /\ pc = "select" /\ next \notin {-1, running}
  /\ class' = Reclass(pid[next], SCHED_OTHER)
  /\ running' = next
  /\ pc' = "tick"
  /\ UNCHANGED <<life, cpu, left, i, time, finished, exec, pid, ended, table>>

ToForeground(next) ==
  /\ pc = "select" /\ next \notin {-1, running}
  /\ class' = Reclass(pid[next], 99)
  /\ running' = next
  /\ pc' = "tick"
  /\ UNCHANGED <<life, cpu, left, i, time, finished, exec, pid, ended, table>>

Scheduler ==
  \/ ReapRunning \/ NothingToReap
  \/ \E j \in Idx : ForkChild(j) \/ ForkFatal(j)
  \/ AssignCpu \/ AssignFails \/ Block \/ EndFork
  \/ KeepRunning(NextShortest) \/ ToForeground(NextShortest)
  \/ Tick

Next == Scheduler \/ Children \/ Terminated

(***************************************************************************)
(* The parent has CPU 0 to itself.  A child is sure to run only while no   *)
(* SCHED_FIFO child is above it on its CPU.                                *)
(***************************************************************************)
Fairness ==
  /\ WF_vars(Scheduler)
  /\ \A p \in Kids : WF_vars(Preferred(p) /\ ChildStep(p) /\ UNCHANGED parent)

Safety == Init /\ [][Next]_vars
Spec   == Safety /\ Fairness

-----------------------------------------------------------------------------
(* Safety. *)

(***************************************************************************)
(* Shortest job first.  The dispatch of k happened at ended[k] - burst[k]: *)
(* every entry that was ready by then and is served later is longer than   *)
(* k, or as long and not ready before it.  An entry of 0 units never is.   *)
(***************************************************************************)
ShortestFirst ==
  \A j, k \in Idx :
    /\ ended[k] # -1 /\ ready[j] <= ended[k] - burst[k]
    /\ burst[j] > 0 /\ (ended[j] = -1 \/ ended[j] > ended[k])
    => \/ burst[k] < burst[j]
       \/ burst[k] = burst[j] /\ ready[k] <= ready[j]

(***************************************************************************)
(* The process in service has the highest priority of all children, also   *)
(* against one that has just been forked and is not in the background yet. *)
(***************************************************************************)
ChosenOutranks ==
  "priority" \notin Faults =>
    (running # -1 /\ life[Child(running)] = "alive" => Outranks(Child(running)))

-----------------------------------------------------------------------------
(* The abstract specification. *)

(***************************************************************************)
(* SJF.c implements the ideal shortest-job-first schedule: each of its     *)
(* steps is one of that schedule or none.                                  *)
(***************************************************************************)
FollowsIdeal == Cpu!SjfSafety

=============================================================================
