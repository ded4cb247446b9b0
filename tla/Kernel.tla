------------------------------- MODULE Kernel -------------------------------
(***************************************************************************)
(* The part of Linux that the four schedulers call, as they use it: fork,  *)
(* sched_setaffinity, sched_setscheduler, waitpid and exit, together with  *)
(* the body every forked child runs (a loop of `exec` time units).         *)
(*                                                                         *)
(* One scheduler process (the parent) and at most one child per entry of   *)
(* the process table exist.  Process ids are abstracted: the child of      *)
(* entry j has pid j+1, pid 0 means "the calling process" to               *)
(* sched_setscheduler, and -1 is what a failed fork leaves in the table.   *)
(*                                                                         *)
(* The scheduling policy and priority of a process are one number, its     *)
(* class: SCHED_IDLE < SCHED_OTHER < SCHED_FIFO with priority 1 .. 99.     *)
(***************************************************************************)
EXTENDS Integers

CONSTANTS
  N,       \* n_proc: the number of entries of the process table
  Faults   \* the calls that may fail: "fork", "affinity" (CPU 1 is offline),
           \* "priority" (no right to raise a scheduling class), "own" (the
           \* scheduler's sched_setscheduler of itself, before its loop)

ASSUME KernelAssumption ==
  /\ N \in Nat
  /\ Faults \subseteq {"fork", "affinity", "priority", "own"}

Idx      == 0 .. N-1
Child(j) == j + 1
Kids     == 1 .. N
Self     == 0
NoPid    == -1

SCHED_IDLE  == -1
SCHED_OTHER == 0
Class       == SCHED_IDLE .. 99

PARENT_CPU == 0
CHILD_CPU  == 1

VARIABLES
  life,    \* of each child: unborn, failed (its fork), alive, zombie, reaped
  class,   \* scheduling class of the parent (Self) and of every child
  cpu,     \* the CPU each child is pinned to
  left     \* time units each child still has to burn

kernel == <<life, class, cpu, left>>

Lives == {"unborn", "failed", "alive", "zombie", "reaped"}

KernelTypeOK ==
  /\ life  \in [Kids -> Lives]
  /\ class \in [Kids \cup {Self} -> Class]
  /\ cpu   \in [Kids -> {PARENT_CPU, CHILD_CPU}]
  /\ left  \in [Kids -> Nat]

(* The parent is a SCHED_OTHER process on CPU 0, as a shell starts it and  *)
(* as FIFO.c, RR.c and SJF.c ask for once more; no child exists.           *)
KernelInit ==
  /\ life  = [p \in Kids |-> "unborn"]
  /\ class = [p \in Kids \cup {Self} |-> SCHED_OTHER]
  /\ cpu   = [p \in Kids |-> PARENT_CPU]
  /\ left  = [p \in Kids |-> 0]

-----------------------------------------------------------------------------
(* System calls of the parent. *)

(* A forked child inherits class and CPU of the parent, and starts to run. *)
Fork(p, units) ==
  /\ life'  = [life  EXCEPT ![p] = "alive"]
  /\ class' = [class EXCEPT ![p] = class[Self]]
  /\ cpu'   = [cpu   EXCEPT ![p] = PARENT_CPU]
  /\ left'  = [left  EXCEPT ![p] = units]

ForkFails(p) ==
  /\ "fork" \in Faults
  /\ life' = [life EXCEPT ![p] = "failed"]
  /\ UNCHANGED <<class, cpu, left>>

(* A process that sched_setscheduler and waitpid can still find. *)
Exists(p) == p = Self \/ (p \in Kids /\ life[p] \in {"alive", "zombie"})

(***************************************************************************)
(* sched_setscheduler(p, c): the classes after the call.  It has no effect *)
(* when p names no process, or when it would raise a class without the     *)
(* right to; the callers print an error and go on.                         *)
(***************************************************************************)
Reclass(p, c) ==
  IF Exists(p) /\ ("priority" \in Faults => c <= class[p])
  THEN [class EXCEPT ![p] = c]
  ELSE class

(* Mutant: WNOHANG, the call does not block. *)
WaitpidNoHang(p) ==
  life' = [q \in Kids |-> IF q = p THEN "reaped" ELSE life[q]]

(* waitpid(p): blocks while p runs, reaps a zombie, else fails at once. *)
Waitpid(p) ==
  /\ p \in Kids => life[p] # "alive"
  /\ life' = [q \in Kids |-> IF q = p /\ life[q] = "zombie"
                             THEN "reaped" ELSE life[q]]

-----------------------------------------------------------------------------
(***************************************************************************)
(* The children.  Nothing below looks at the class of the child: SCHED_IDLE *)
(* does not stop a process, it only makes others preferred, so any live    *)
(* child may run at any moment, also between its fork and its demotion.    *)
(***************************************************************************)
ChildUnit(p) ==
  /\ life[p] = "alive"
  /\ left[p] > 0
  /\ left' = [left EXCEPT ![p] = @ - 1]
  /\ UNCHANGED <<life, class, cpu>>

(* Mutant: the child's exit(0) is missing. *)
ChildNeverExits(p) == life[p] = "alive" /\ left[p] = 0 /\ UNCHANGED kernel

ChildExit(p) ==
  /\ life[p] = "alive"
  /\ left[p] = 0
  /\ life' = [life EXCEPT ![p] = "zombie"]
  /\ UNCHANGED <<class, cpu, left>>

ChildStep(p) == ChildUnit(p) \/ ChildExit(p)

(***************************************************************************)
(* What the kernel guarantees to run: on each CPU no SCHED_FIFO process    *)
(* waits for one of lower class.  SCHED_OTHER and SCHED_IDLE processes     *)
(* share what SCHED_FIFO leaves, and none of them is starved.              *)
(***************************************************************************)
Preferred(p) ==
  \A q \in Kids :
    life[q] = "alive" /\ cpu[q] = cpu[p] /\ class[q] > SCHED_OTHER
    => class[q] <= class[p]

(* The live child p is above every other live child. *)
Outranks(p) ==
  \A q \in Kids \ {p} : life[q] = "alive" => class[q] < class[p]

=============================================================================
