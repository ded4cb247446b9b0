--------------------------------- MODULE RR ---------------------------------
(***************************************************************************)
(* RR.c: the loop of Parent with the choice of RR_next and its accounting  *)
(* of waiting time.                                                        *)
(***************************************************************************)
EXTENDS Parent, FiniteSetsExt

CONSTANT Interval   \* `interval`: the time units of a slot, 500 in RR.c

ASSUME IntervalAssumption == Interval \in Nat \ {0}

VARIABLES
  timeLast,  \* time_last: when the last switch was made
  wait,      \* the sum RR_main divides by n for the average it prints
  since      \* history: since when each entry has been waiting for the CPU

account == <<timeLast, wait, since>>
vars    == <<kernel, parent, account>>

TypeOK ==
  /\ ParentTypeOK
  /\ timeLast \in 0 .. MaxTime /\ wait \in Nat
  /\ since \in [Idx -> 0 .. MaxTime]

Init ==
  /\ ParentInit
  /\ timeLast = 0 /\ wait = 0
  /\ since = [j \in Idx |-> 0]

-----------------------------------------------------------------------------
(***************************************************************************)
(* RR_next: with nobody running the first ready entry of the table; at the *)
(* end of a slot the next ready entry in ring order, possibly the running  *)
(* one again; otherwise the running one.                                   *)
(***************************************************************************)
(* Mutant: one unit too long. *)
SlotOverLate == time - timeLast > Interval

SlotOver == (time - timeLast) % Interval = 0

Ring(j) == (j - running - 1) % N

(* Mutant: the search always starts at the head of the table. *)
RR_nextFromHead ==
  IF running = -1 \/ SlotOver THEN IF Ready = {} THEN -1 ELSE Min(Ready)
  ELSE running

RR_next ==
  IF running = -1
  THEN IF Ready = {} THEN -1 ELSE Min(Ready)
  ELSE IF SlotOver THEN CHOOSE j \in Ready : \A k \in Ready : Ring(j) <= Ring(k)
  ELSE running

(* The ring search `while (pid == -1 || exec == 0)` has nothing to find.   *)
SearchesForever == running # -1 /\ SlotOver /\ Ready = {}

(* Mutant: the ready time is not subtracted. *)
ReapFromZero ==
  /\ ReapRunning
  /\ wait' = wait + time - exec[running]
  /\ UNCHANGED <<timeLast, since>>

Reap ==
  /\ ReapRunning
  /\ wait' = wait + time - ready[running] - exec[running]
  /\ UNCHANGED <<timeLast, since>>

proc_exec == \E j \in Idx : ForkChild(j) \/ ForkIgnored(j)

Arrive == Block /\ since' = [since EXCEPT ![i] = time] /\ UNCHANGED <<timeLast, wait>>

Switch ==
  /\ Demote(RR_next)
  /\ timeLast' = time
  /\ since' = IF running = -1 THEN since ELSE [since EXCEPT ![running] = time]
  /\ UNCHANGED wait

Choose ==
  /\ ~SearchesForever
  /\ \/ Switch
     \/ (KeepRunning(RR_next) \/ Wakeup(RR_next)) /\ UNCHANGED account

Scheduler ==
  \/ Reap \/ Arrive \/ Choose
  \/ /\ \/ NothingToReap \/ proc_exec
        \/ AssignCpu \/ AssignFails \/ EndFork \/ Tick
     /\ UNCHANGED account

Next ==
  \/ Scheduler
  \/ (Children \/ Terminated) /\ UNCHANGED account

(* As in FIFO: no process is SCHED_FIFO, so none is starved.               *)
Fairness ==
  /\ WF_vars(Scheduler)
  /\ \A p \in Kids : WF_vars(ChildStep(p) /\ UNCHANGED <<parent, account>>)

Safety == Init /\ [][Next]_vars
Spec   == Safety /\ Fairness

-----------------------------------------------------------------------------
(* Safety. *)

(***************************************************************************)
(* The ring search of RR_next always ends: whenever it is made, some entry *)
(* is forked and unfinished, because a running entry that is used up has   *)
(* been reaped earlier in the same iteration.                              *)
(***************************************************************************)
RR_nextReturns == pc = "select" => ~SearchesForever

(***************************************************************************)
(* No ready process waits long.  With m others, a slot ends within         *)
(* Interval units; but when a process finishes, RR_next starts again at    *)
(* the head of the table, so the last entry can be passed over by m, m-1,  *)
(* ..., 1 slots and not by m only.                                         *)
(***************************************************************************)
BoundedWait ==
  LET m == N - 1
  IN  \A j \in Ready : j # running => time - since[j] <= Interval * ((m * (m+1)) \div 2)

(***************************************************************************)
(* Fair shares.  Of two unfinished entries that became ready together none *)
(* gets more than one slot ahead of the other, but for one slot more with  *)
(* every process that has ended and sent the search back to the head.      *)
(***************************************************************************)
FairShares ==
  LET served(j) == burst[j] - exec[j]
  IN  \A j, k \in Ready :
        ready[j] = ready[k]
        => served(j) - served(k) <= Interval * (1 + finished)

(***************************************************************************)
(* `wait` adds up the turnaround times (reaped minus ready) of the entries *)
(* reaped so far: exec has been counted down to 0 when it is subtracted.   *)
(***************************************************************************)
WaitIsTurnaround ==
  wait = SumFunctionOnSet([j \in Idx |-> ended[j] - ready[j]],
                          {j \in Idx : ended[j] # -1})

-----------------------------------------------------------------------------
(* Liveness, and the abstract specification. *)

Ideal == INSTANCE SingleCpuRR WITH
           need    <- exec,
           clock   <- time,
           arrived <- {j \in Idx : pid[j] # NoPid},
           lost    <- {j \in Idx : life[Child(j)] = "failed"},
           cur     <- running,
           slot    <- IF running = -1 \/ time = timeLast THEN 0
                      ELSE ((time - timeLast - 1) % Interval) + 1

(***************************************************************************)
(* RR.c implements ideal round robin: slots of Interval units in ring      *)
(* order, no switch within a slot, no idle unit while a process is ready.  *)
(* Whatever fails, each of its steps is one of that schedule or none, ...  *)
(***************************************************************************)
FollowsIdeal == Ideal!RrSafety

(* ... and if nothing fails, the schedule goes on to its end.              *)
IdealSchedule == Ideal!RrSpec

-----------------------------------------------------------------------------
(* What the README and RR.c's own output say, and the code does not do.    *)

(* RR.c prints wait/n as the average waiting time: the time a process is   *)
(* ready and does not run.                                                 *)
AverageIsOfWaitingTime ==
  pc = "done" =>
    wait = MapThenSumSet(LAMBDA j : ended[j] - ready[j] - burst[j], Idx)

(* README: on a switch the process running on the child CPU is put to low  *)
(* priority.  The scheduler itself, set up as SCHED_OTHER, never is.       *)
SchedulerKeepsItsClass == class[Self] = SCHED_OTHER

=============================================================================
