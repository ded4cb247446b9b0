-------------------------------- MODULE PSJF --------------------------------
(***************************************************************************)
(* PSJF.c: preemptive shortest job first.  A loop of its own: it neither   *)
(* sorts nor initialises the table, charges a unit before letting it pass, *)
(* gives every child SCHED_FIFO, and never waits for one.                  *)
(*   while -> fork [-> assign -> mark -> fork]* [[-> raise] -> charge]     *)
(*         -> tick -> while                                                *)
(***************************************************************************)
EXTENDS Kernel, FiniteSetsExt

CONSTANTS
  Readies, Bursts,  \* ready and execution times an input file may hold
  MaxTime,          \* the clock saturates here
  HeapWaiting,      \* what malloc may leave in the `waiting` column
  HeapPids          \* and in the `pid` column

ASSUME PsjfAssumption ==
  /\ Bursts \subseteq Nat /\ HeapWaiting \subseteq Nat
  /\ HeapPids \subseteq Int \ Kids  \* no child to come is named by chance
  /\ MaxTime \in Nat
  /\ \A r \in Readies : r \in Nat /\ r < MaxTime

(* The bound on the clock is beyond the end of every schedule: it is only  *)
(* reached by a loop that never ends.                                      *)
ASSUME PsjfClockAssumption ==
  \A r \in Readies, b \in Bursts : r + (N * b) <= MaxTime

BLOCK == 10   \* block.sched_priority

(* Mutant: a priority that sched_setscheduler does not know. *)
TooHigh == 100

HIGH  == 90   \* high.sched_priority

VARIABLES
  pc, i, time,
  chosen,      \* index find_min_index returned, or -1
  preRunning,  \* pre_running: pid of the child chosen before, or -1
  finished,    \* finished_process
  ready, exec, waiting, pid,  \* the columns of the process table
  burst,       \* history: exec as read from the input
  found,       \* history: waiting as malloc left it
  ended        \* history: when the last unit was charged and passed, or -1

table  == <<ready, burst, found>>
parent == <<pc, i, time, chosen, preRunning, finished, ready, exec, waiting,
            pid, burst, found, ended>>
vars   == <<kernel, parent>>

TypeOK ==
  /\ KernelTypeOK
  /\ pc \in {"while", "fork", "assign", "mark", "raise", "charge", "tick",
             "done", "exited"}
  /\ i \in 0 .. N /\ time \in 0 .. MaxTime
  /\ chosen \in Idx \cup {-1}
  /\ preRunning \in Kids \cup HeapPids \cup {-1}
  /\ finished \in Nat
  /\ ready   \in [Idx -> Readies]
  /\ exec    \in [Idx -> Nat \cup {-1}]
  /\ waiting \in [Idx -> HeapWaiting \cup {0, 1}]
  /\ pid     \in [Idx -> Kids \cup HeapPids]
  /\ burst   \in [Idx -> Bursts]
  /\ found   \in [Idx -> HeapWaiting]
  /\ ended   \in [Idx -> 0 .. MaxTime \cup {-1}]

(* The table is in input order; nobody has set its last two columns.       *)
Init ==
  /\ KernelInit
  /\ pc = "while" /\ i = 0 /\ time = 0
  /\ chosen = -1 /\ preRunning = -1 /\ finished = 0
  /\ ready \in [Idx -> Readies]
  /\ exec \in [Idx -> Bursts] /\ burst = exec
  /\ waiting \in [Idx -> HeapWaiting] /\ found = waiting
  /\ pid     \in [Idx -> HeapPids]
  /\ ended = [j \in Idx |-> -1]

-----------------------------------------------------------------------------
(* Mutant: the end is missed. *)
WhileForever ==
  /\ pc = "while"
  /\ pc' = IF finished > N THEN "done" ELSE "fork"
  /\ UNCHANGED <<kernel, i, time, chosen, preRunning, finished, exec, waiting,
                 pid, ended, table>>

While ==
  /\ pc = "while"
  /\ pc' = IF finished = N THEN "done" ELSE "fork"
  /\ UNCHANGED <<kernel, i, time, chosen, preRunning, finished, exec, waiting,
                 pid, ended, table>>

(* Mutant: the loop starts one entry too late. *)
DueSkipsFirst(j) == j > i /\ ready[j] = time

Due(j) == j >= i /\ ready[j] = time

FirstDue(j) == Due(j) /\ \A k \in Idx : Due(k) => j <= k

(* The child's own loop runs no unit if exec is below 0 already. *)
ForkChild(j) ==
  /\ pc = "fork" /\ FirstDue(j)
  /\ Fork(Child(j), IF exec[j] < 0 THEN 0 ELSE exec[j])
  /\ i' = j /\ pc' = "assign"
  /\ UNCHANGED <<time, chosen, preRunning, finished, exec, waiting, pid, ended,
                 table>>

(* fork gives -1, on which proc_assign_cpu calls exit(1). *)
ForkFatal(j) ==
  /\ pc = "fork" /\ FirstDue(j)
  /\ ForkFails(Child(j))
  /\ pc' = "exited"
  /\ UNCHANGED <<i, time, chosen, preRunning, finished, exec, waiting, pid,
                 ended, table>>

AssignCpu ==
  /\ pc = "assign"
  /\ cpu' = [cpu EXCEPT ![Child(i)] = CHILD_CPU]
  /\ pc' = "mark"
  /\ UNCHANGED <<life, class, left, i, time, chosen, preRunning, finished,
                 exec, waiting, pid, ended, table>>

AssignFails ==
  /\ "affinity" \in Faults
  /\ pc = "assign"
  /\ pc' = "exited"
  /\ UNCHANGED <<kernel, i, time, chosen, preRunning, finished, exec, waiting,
                 pid, ended, table>>

(* Mutant: a new process is not marked as waiting. *)
MarkNotWaiting ==
  /\ pc = "mark"
  /\ pid'   = [pid EXCEPT ![i] = Child(i)]
  /\ class' = Reclass(Child(i), BLOCK)
  /\ i' = i + 1 /\ pc' = "fork"
  /\ UNCHANGED <<life, cpu, left, time, chosen, preRunning, finished, exec,
                 waiting, ended, table>>

Mark ==
  /\ pc = "mark"
  /\ pid'     = [pid EXCEPT ![i] = Child(i)]
  /\ waiting' = [waiting EXCEPT ![i] = 1]
  /\ class'   = Reclass(Child(i), BLOCK)
  /\ i' = i + 1 /\ pc' = "fork"
  /\ UNCHANGED <<life, cpu, left, time, chosen, preRunning, finished, exec,
                 ended, table>>

-----------------------------------------------------------------------------
(* some_process_is_ready and find_min_index look at `waiting` only.        *)

(* Mutant: `waiting` is not looked at. *)
IsUnfinished == {j \in Idx : exec[j] > 0}

IsReady == {j \in Idx : waiting[j] = 1}

(* Mutant: longest first. *)
More(j, k) == exec[j] > exec[k] \/ (exec[j] = exec[k] /\ j <= k)

Less(j, k) == exec[j] < exec[k] \/ (exec[j] = exec[k] /\ j <= k)

FindMinIndex == CHOOSE j \in IsReady : \A k \in IsReady : Less(j, k)

(* Go straight to charging unless another child was running before.        *)
EndFork ==
  /\ pc = "fork" /\ \A j \in Idx : ~Due(j)
  /\ i' = 0
  /\ chosen' = IF IsReady = {} THEN -1 ELSE FindMinIndex
  /\ pc' = IF IsReady = {} THEN "tick"
           ELSE IF preRunning \in {-1, pid[FindMinIndex]} THEN "charge"
           ELSE "raise"
  /\ UNCHANGED <<kernel, time, preRunning, finished, exec, waiting, pid, ended,
                 table>>

(* The child that ran before gets `high`.                                  *)
RaisePrevious ==
  /\ pc = "raise"
  /\ class' = Reclass(preRunning, HIGH)
  /\ pc' = "charge"
  /\ UNCHANGED <<life, cpu, left, i, time, chosen, preRunning, finished, exec,
                 waiting, pid, ended, table>>

(***************************************************************************)
(* The chosen child gets `block` if it is new, and is charged a unit.  An  *)
(* entry of 0 units falls below 0, is the least of all from then on and is *)
(* counted down until int overflows; -1 stands for all values below 0.     *)
(***************************************************************************)
Charge ==
  LET units == IF exec[chosen] < 0 THEN -1 ELSE exec[chosen] - 1 IN
  /\ pc = "charge"
  /\ class' = IF pid[chosen] = preRunning THEN class
              ELSE Reclass(pid[chosen], BLOCK)
  /\ preRunning' = pid[chosen]
  /\ exec' = [exec EXCEPT ![chosen] = units]
  /\ IF units = 0
     THEN /\ waiting'  = [waiting EXCEPT ![chosen] = 0]
          /\ ended'    = [ended EXCEPT ![chosen] = time + 1]
          /\ finished' = finished + 1
     ELSE UNCHANGED <<waiting, ended, finished>>
  /\ pc' = "tick"
  /\ UNCHANGED <<life, cpu, left, i, time, chosen, pid, table>>

Tick ==
  /\ pc = "tick"
  /\ time' = IF time < MaxTime THEN time + 1 ELSE time
  /\ pc' = "while"
  /\ UNCHANGED <<kernel, i, chosen, preRunning, finished, exec, waiting, pid,
                 ended, table>>

-----------------------------------------------------------------------------
Scheduler ==
  \/ While
  \/ \E j \in Idx : ForkChild(j) \/ ForkFatal(j)
  \/ AssignCpu \/ AssignFails \/ Mark
  \/ EndFork \/ RaisePrevious \/ Charge
  \/ Tick

Children == (\E p \in Kids : ChildStep(p)) /\ UNCHANGED parent

Terminated ==
  /\ pc \in {"done", "exited"}
  /\ \A p \in Kids : life[p] # "alive"
  /\ UNCHANGED vars

Next == Scheduler \/ Children \/ Terminated

Fairness ==
  /\ WF_vars(Scheduler)
  /\ \A p \in Kids : WF_vars(Preferred(p) /\ ChildStep(p) /\ UNCHANGED parent)

Safety == Init /\ [][Next]_vars
Spec   == Safety /\ Fairness

-----------------------------------------------------------------------------
(* Safety. *)

(***************************************************************************)
(* PSJF.c relies on malloc for the `waiting` flags: an entry whose flag    *)
(* is set in the memory it is given is charged before it is forked.  But   *)
(* that entry only: one whose flag was not set is forked first, whatever   *)
(* was left in the rest of the table.                                      *)
(***************************************************************************)
OnlyForkedAreCharged ==
  \A j \in Idx : exec[j] # burst[j] =>
    found[j] = 1 \/ life[Child(j)] \in {"alive", "zombie"}

(* What the rest needs of malloc: no flag is set, as on zeroed memory.     *)
HeapIsClean == \A j \in Idx : found[j] # 1

(***************************************************************************)
(* Preemption protects the short ones: of the processes that are there     *)
(* between its arrival and its end, a process waits for none longer than   *)
(* it runs itself, and for a longer one only if that arrived early enough  *)
(* to have been brought down to as few units before.                       *)
(***************************************************************************)
Lesser(a, b) == IF a < b THEN a ELSE b

MayDelay(k, j) ==
  /\ ready[k] < ended[j]
  /\ ended[k] = -1 \/ ended[k] > ready[j]
  /\ burst[k] > burst[j] => ready[k] + (burst[k] - burst[j]) <= ready[j]

Delay(j) ==
  [k \in Idx |-> IF MayDelay(k, j) THEN Lesser(burst[k], burst[j]) ELSE 0]

OnlyShorterOrEarlierDelay ==
  \A j \in Idx :
    HeapIsClean /\ ended[j] # -1 => ended[j] <= ready[j] + SumFunctionOnSet(Delay(j), Idx)

(***************************************************************************)
(* Preemptive shortest job first is optimal: at the head of each iteration *)
(* as many processes are finished as any schedule of one CPU could have    *)
(* finished by now.  One could finish all of S if, from each ready time r  *)
(* on, the units of S that are ready no earlier than r fit in.             *)
(***************************************************************************)
NobodyFinishesMore ==
  LET Fits(S) == \A k \in S :
        SumFunctionOnSet(burst, {j \in S : ready[j] >= ready[k]})
        <= time - ready[k]
  IN  HeapIsClean /\ pc = "while" => \A S \in SUBSET Idx : Fits(S) => Cardinality(S) <= finished

-----------------------------------------------------------------------------
(* Liveness, and the abstract specification. *)

(* The loop ends, every process charged in full, or a failed call ends it, *)
(* unless a stray flag makes PSJF.c charge a process and then fork it.     *)
Terminates == HeapIsClean => <>(pc \in {"done", "exited"})

Ideal == INSTANCE SingleCpu WITH
           need    <- exec,
           clock   <- IF pc = "tick" THEN time + 1 ELSE time,
           arrived <- {j \in Idx : pid[j] = Child(j)},
           lost    <- {j \in Idx : life[Child(j)] = "failed"},
           cur     <- -1

(***************************************************************************)
(* The units PSJF.c charges follow the ideal preemptive shortest-job-first *)
(* schedule.  A charged unit has passed, ideally, before the parent's      *)
(* clock shows it.  Each step is one of that schedule or none, unless a    *)
(* stray flag makes PSJF.c charge a process that has not arrived.          *)
(***************************************************************************)
FollowsIdeal ==
  /\ HeapIsClean => Ideal!Init
  /\ [][HeapIsClean => Ideal!PsjfNext]_(Ideal!ideal)

-----------------------------------------------------------------------------
(* What the README says, and the code does not do. *)

(***************************************************************************)
(* README: each unit, the process of least execution time is chosen to be  *)
(* executed next.  So one that was preempted, with units still to run, has *)
(* no higher priority than the chosen one.                                 *)
(***************************************************************************)
Preempted(k) == k # chosen /\ exec[k] \in 1 .. burst[k] - 1

NobodyAboveChosen ==
  pc = "tick" /\ chosen # -1 /\ life[Child(chosen)] = "alive"
  => \A k \in Idx : Preempted(k) /\ life[Child(k)] = "alive"
                    => class[Child(k)] <= class[Child(chosen)]

=============================================================================
