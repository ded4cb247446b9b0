-------------------------------- MODULE FIFO --------------------------------
(***************************************************************************)
(* FIFO.c: the loop of Parent with the choice of next_proc.  The child of  *)
(* FIFO.c prints time_cnt when it exits: its own copy, taken by fork.      *)
(***************************************************************************)
EXTENDS Parent, FiniteSets

VARIABLE childTime   \* of each entry, the child's copy of time_cnt, or -1

vars == <<kernel, parent, childTime>>

TypeOK == ParentTypeOK /\ childTime \in [Idx -> 0 .. MaxTime \cup {-1}]

Init == ParentInit /\ childTime = [j \in Idx |-> -1]

(* Mutants: latest first; the last one of equals. *)
Later(j, k)      == ready[j] > ready[k] \/ (ready[j] = ready[k] /\ j <= k)
SoonerLast(j, k) == ready[j] < ready[k] \/ (ready[j] = ready[k] /\ j >= k)

(***************************************************************************)
(* next_proc: never preempt; otherwise the first entry, in table order,    *)
(* among the forked and unfinished ones of least ready time.               *)
(***************************************************************************)
Sooner(j, k) == ready[j] < ready[k] \/ (ready[j] = ready[k] /\ j <= k)

(* Mutant: the last of the shortest, without the check for a running entry. *)
NextProcPreemptive ==
  IF Ready = {} THEN -1
  ELSE CHOOSE j \in Ready : \A k \in Ready :
         exec[j] < exec[k] \/ (exec[j] = exec[k] /\ j >= k)

NextProc ==
  IF running # -1 THEN running
  ELSE IF Ready = {} THEN -1
  ELSE CHOOSE j \in Ready : \A k \in Ready : Sooner(j, k)

Fork1(j) == ForkChild(j) /\ childTime' = [childTime EXCEPT ![j] = time]

Scheduler ==
  \/ \E j \in Idx : Fork1(j)
  \/ /\ \/ ReapRunning \/ NothingToReap
        \/ \E j \in Idx : ForkIgnored(j)
        \/ AssignCpu \/ AssignFails \/ Block \/ EndFork
        \/ KeepRunning(NextProc) \/ Wakeup(NextProc) \/ Demote(NextProc)
        \/ Tick
     /\ UNCHANGED childTime

Next ==
  \/ Scheduler
  \/ Children /\ UNCHANGED childTime
  \/ Terminated /\ UNCHANGED childTime

(***************************************************************************)
(* Neither the parent nor a child is ever SCHED_FIFO here, and Linux does  *)
(* not starve SCHED_OTHER or SCHED_IDLE processes of one another.          *)
(***************************************************************************)
Fairness ==
  /\ WF_vars(Scheduler)
  /\ \A p \in Kids : WF_vars(ChildStep(p) /\ UNCHANGED <<parent, childTime>>)

Safety == Init /\ [][Next]_vars
Spec   == Safety /\ Fairness

-----------------------------------------------------------------------------
(* Safety. *)

(***************************************************************************)
(* First come, first served: when a child has been reaped, every entry     *)
(* with an earlier ready time has been reaped before it, was never forked  *)
(* because fork failed, or had nothing to do: an entry of 0 units is never *)
(* chosen.                                                                 *)
(***************************************************************************)
FifoOrder ==
  \A j, k \in Idx : life[Child(k)] = "reaped" /\ ready[j] < ready[k]
                    => life[Child(j)] \in {"reaped", "failed"} \/ burst[j] = 0

(***************************************************************************)
(* The theoretical schedule, for the ready times r, the execution times b  *)
(* and the entries that could not be forked: entry after entry in table    *)
(* order, each starting when both it and the CPU are ready.                *)
(***************************************************************************)
EndTimes(r, b, lost) ==
  LET End[j \in -1 .. N-1] ==
        IF j = -1 THEN 0
        ELSE IF j \in lost THEN End[j-1]
        ELSE b[j] + (IF End[j-1] > r[j] THEN End[j-1] ELSE r[j])
  IN  End

(***************************************************************************)
(* The times FIFO.c prints for "ended" are those of the theoretical        *)
(* schedule.  How fast the children really run, and when waitpid returns,  *)
(* does not matter.                                                        *)
(***************************************************************************)
EndedOnSchedule ==
  LET End == EndTimes(ready, burst, {j \in Idx : life[Child(j)] = "failed"})
  IN  \A j \in Idx : ended[j] # -1 => ended[j] = End[j]

(* An entry that has been switched to is not left before it is reaped.     *)
NonPreemptive ==
  [][running # -1 /\ running' # running
     => life'[Child(running)] = "reaped"]_vars

-----------------------------------------------------------------------------
(* Liveness, and the abstract specification. *)

(***************************************************************************)
(* FIFO.c implements the ideal first come, first served schedule: whatever *)
(* fails, each of its steps is one of that schedule or none, ...           *)
(***************************************************************************)
FollowsIdeal == Cpu!FifoSafety

(* ... and if nothing fails, the schedule goes on to its end.              *)
IdealSchedule == Cpu!FifoSpec

(***************************************************************************)
(* FIFO.c:66 reports the time at which the child exits.  What it prints   *)
(* is the child's copy of time_cnt.                                        *)
(***************************************************************************)
ExitTimeIsNow ==
  [][\A j \in Idx : life[Child(j)] = "alive" /\ life'[Child(j)] = "zombie"
                    => childTime[j] = time]_vars

=============================================================================
