-------------------------------- MODULE Main --------------------------------
(***************************************************************************)
(* main.c: read a policy and a table, hand the table to one of the four    *)
(* schedulers, and return when it does.  The composition of FIFO, RR, SJF  *)
(* and PSJF over one table, one clock and one set of children.             *)
(***************************************************************************)
EXTENDS Integers, Functions, FiniteSetsExt

CONSTANTS
  Policies,  \* what the first word of the input file may be
  N,         \* n_proc
  Faults, Readies, Bursts, MaxTime, StrayPids, Interval, HeapWaiting, HeapPids

(* The assumptions of the four schedulers, of which this is the program.   *)
ASSUME MainAssumption ==
  /\ Policies \subseteq {"FIFO", "RR", "SJF", "PSJF", "other"}
  /\ N \in Nat /\ Faults \subseteq {"fork", "affinity", "priority", "own"}
  /\ Bursts \subseteq Nat /\ HeapWaiting \subseteq Nat /\ HeapPids \subseteq Int \ (1 .. N)
  /\ MaxTime \in Nat
  /\ \A r \in Readies : r \in Nat /\ r < MaxTime
  /\ \A r \in Readies, b \in Bursts : r + (N * b) <= MaxTime
  /\ StrayPids # {} /\ StrayPids \subseteq {0, -1}
  /\ Interval \in Nat \ {0}

VARIABLES
  policy,
  phase,   \* of main: read (the file), pin (the scheduler to its CPU), run, over
  life, class, cpu, left,                                   \* Kernel
  pc, i, time, finished, ready, exec, pid, burst, ended,    \* all schedulers
  running,                                                  \* FIFO, RR, SJF
  childTime, timeLast, wait, since,                         \* FIFO; RR
  chosen, preRunning, waiting, found                        \* PSJF

Kern == INSTANCE Kernel
Fifo == INSTANCE FIFO
Rr   == INSTANCE RR
Sjf  == INSTANCE SJF
Psjf == INSTANCE PSJF

kernel  == <<life, class, cpu, left>>
table   == <<ready, exec, burst>>
common  == <<pc, i, time, finished, table, pid, ended>>
ofFifo  == childTime
ofRr    == <<timeLast, wait, since>>
ofPsjf  == <<chosen, preRunning, waiting, found>>
parent  == <<policy, phase, common, running, ofFifo, ofRr, ofPsjf>>
vars    == <<kernel, parent>>

Entries == 0 .. N - 1

(* The file has been read.  Nobody has set the columns pid and waiting.    *)
Init ==
  /\ policy \in Policies /\ phase = "read"
  /\ Kern!KernelInit
  /\ ready \in [Entries -> Readies]
  /\ exec \in [Entries -> Bursts] /\ burst = exec
  /\ waiting \in [Entries -> HeapWaiting] /\ found = waiting
  /\ pid \in [Entries -> HeapPids]
  /\ pc = "main" /\ i = 0 /\ time = 0 /\ finished = 0
  /\ running = -1 /\ chosen = -1 /\ preRunning = -1
  /\ timeLast = 0 /\ wait = 0 /\ since = [j \in Entries |-> 0]
  /\ ended = [j \in Entries |-> -1] /\ childTime = ended

-----------------------------------------------------------------------------
(* Mutant: qsort is forgotten. *)
KeepTable == UNCHANGED <<table, waiting, found>>

(* qsort by ready time, in any order of equals; the rows move as a whole.  *)
Sort ==
  \E p \in Bijection(Entries, Entries) :
    /\ \A j, k \in Entries : j < k => ready[p[j]] <= ready[p[k]]
    /\ ready' = [j \in Entries |-> ready[p[j]]]
    /\ exec'  = [j \in Entries |-> exec[p[j]]]
    /\ burst' = exec'
    /\ waiting' = [j \in Entries |-> waiting[p[j]]]
  /\ found'   = waiting'

(* The strcmp chain, and a scheduler's preparation of the table.           *)
DispatchSorted ==
  /\ phase = "read" /\ policy \in {"FIFO", "RR", "SJF"}
  /\ Sort
  /\ pid' = [j \in Entries |-> -1]
  /\ phase' = "pin"
  /\ UNCHANGED <<kernel, policy, pc, i, time, finished, ended, running, ofFifo,
                 ofRr, chosen, preRunning>>

DispatchPsjf ==
  /\ phase = "read" /\ policy = "PSJF"
  /\ phase' = "pin"
  /\ UNCHANGED <<kernel, policy, common, running, ofFifo, ofRr, ofPsjf>>

NotSupported ==
  /\ phase = "read" /\ policy = "other"
  /\ phase' = "over"
  /\ UNCHANGED <<kernel, policy, common, running, ofFifo, ofRr, ofPsjf>>

(* proc_assign_cpu(getpid(), 0) of the scheduler, and its exit(1).         *)
Pin ==
  /\ phase = "pin"
  /\ phase' = "run"
  /\ pc' = IF policy = "PSJF" THEN "while" ELSE "reap"
  /\ UNCHANGED <<kernel, policy, i, time, finished, table, pid, ended, running,
                 ofFifo, ofRr, ofPsjf>>

PinFails ==
  /\ phase = "pin" /\ "affinity" \in Faults
  /\ phase' = "over" /\ pc' = "exited"
  /\ UNCHANGED <<kernel, policy, i, time, finished, table, pid, ended, running,
                 ofFifo, ofRr, ofPsjf>>

(* Only RR.c minds when its sched_setscheduler of itself fails; FIFO.c and *)
(* SJF.c go on as they are, and PSJF.c does not try.                       *)
OwnClassFails ==
  /\ phase = "pin" /\ policy = "RR" /\ "own" \in Faults
  /\ phase' = "over" /\ pc' = "exited"
  /\ UNCHANGED <<kernel, policy, i, time, finished, table, pid, ended, running,
                 ofFifo, ofRr, ofPsjf>>

(* A step of the scheduler main has called.                                *)
Run ==
  /\ phase = "run"
  /\ UNCHANGED <<policy, phase>>
  /\ \/ /\ policy = "FIFO" /\ Fifo!Scheduler
        /\ UNCHANGED <<ofRr, ofPsjf>>
     \/ /\ policy = "RR" /\ Rr!Scheduler
        /\ UNCHANGED <<ofFifo, ofPsjf>>
     \/ /\ policy = "SJF" /\ Sjf!Scheduler
        /\ UNCHANGED <<ofFifo, ofRr, ofPsjf>>
     \/ /\ policy = "PSJF" /\ Psjf!Scheduler
        /\ UNCHANGED <<running, ofFifo, ofRr>>

(* FIFO, RR_main and PSJF return to main, and SJF calls exit(0) itself; or *)
(* proc_assign_cpu has called exit(1).                                     *)
Leave ==
  /\ phase = "run" /\ pc \in {"done", "exited"}
  /\ phase' = "over"
  /\ UNCHANGED <<kernel, policy, common, running, ofFifo, ofRr, ofPsjf>>

Process == DispatchSorted \/ DispatchPsjf \/ NotSupported \/ Pin \/ PinFails \/ OwnClassFails
           \/ Run \/ Leave

(* The children live on when the process that forked them is over.         *)
Child(p) ==
  /\ Kern!ChildStep(p)
  /\ UNCHANGED parent

Kids == 1 .. N

Alive(p) == life[p] = "alive"

Terminated ==
  /\ phase = "over"
  /\ \A p \in Kids : ~Alive(p)
  /\ UNCHANGED vars

Next == Process \/ (\E p \in Kids : Child(p)) \/ Terminated

(* As in SJF and PSJF; the children of FIFO and RR are never SCHED_FIFO.   *)
Fairness ==
  /\ WF_vars(Process)
  /\ \A p \in Kids : WF_vars(Child(p) /\ Kern!Preferred(p))

Safety == Init /\ [][Next]_vars
Spec   == Safety /\ Fairness

-----------------------------------------------------------------------------
(* Safety. *)

(***************************************************************************)
(* The table, the clock and the children have their types from main's      *)
(* first step to after its last; and from its preparation on, whether it   *)
(* runs, has returned or has exited, the scheduler that was called keeps   *)
(* to its own type invariant, all its variables included.                  *)
(***************************************************************************)
TypeOK ==
  /\ policy \in Policies
  /\ phase \in {"read", "pin", "run", "over"}
  /\ Kern!KernelTypeOK
  /\ i \in 0 .. N /\ time \in 0 .. MaxTime /\ finished \in Nat
  /\ ready \in [Entries -> Readies] /\ burst \in [Entries -> Bursts]
  /\ exec  \in [Entries -> Nat \cup {-1}]
  /\ pid   \in [Entries -> Kids \cup HeapPids \cup {-1}]
  /\ ended \in [Entries -> 0 .. MaxTime \cup {-1}]
  /\ pc # "main" =>
       CASE policy = "FIFO" -> Fifo!TypeOK
         [] policy = "RR"   -> Rr!TypeOK
         [] policy = "SJF"  -> Sjf!TypeOK
         [] policy = "PSJF" -> Psjf!TypeOK

(***************************************************************************)
(* main and the preparation hand each scheduler one of the states that its *)
(* own specification starts from, for every table and order of the input,  *)
(* and whatever malloc left in the columns that main does not read.        *)
(***************************************************************************)
HandsOver ==
  [][phase = "pin" /\ phase' = "run" =>
       CASE policy = "FIFO" -> Fifo!Init'
         [] policy = "RR"   -> Rr!Init'
         [] policy = "SJF"  -> Sjf!Init'
         [] policy = "PSJF" -> Psjf!Init']_vars

(* PSJF.c has found somebody waiting before it has forked anybody.         *)
StrayFlag == policy = "PSJF" /\ ~Psjf!HeapIsClean

(***************************************************************************)
(* The policy decides the order, not the end: all four schedulers return   *)
(* at the same time, that of a CPU which is never idle while one of the    *)
(* table is waiting, with every entry charged exactly its units (PSJF.c,   *)
(* if malloc set no flag).                                                 *)
(***************************************************************************)
ReturnsOnTime ==
  LET work(r) == SumFunctionOnSet(burst, {k \in Entries : ready[k] >= r})
  IN  pc = "done" /\ ~StrayFlag =>
        /\ time = Max({0} \cup {ready[j] + work(ready[j]) : j \in Entries})
        /\ \A j \in Entries : exec[j] = 0

(***************************************************************************)
(* FIFO.c, RR.c and SJF.c, however they are left: an entry they reported   *)
(* as ended was charged in full, burned out and reaped; and when main is   *)
(* over without an exit in mid-loop, no child is alive.  PSJF.c waits for  *)
(* nobody and promises neither.                                            *)
(***************************************************************************)
NoneLeftBehind ==
  policy # "PSJF" =>
    /\ Sjf!EndedRanToCompletion
    /\ phase = "over" /\ pc # "exited"
       => \A p \in Kids : ~Alive(p)

(* Inputs and failing forks on which the loops have no end.                *)
Endless ==
  \/ policy \in {"FIFO", "RR", "SJF"} /\ N = 0
  \/ policy # "other" /\ \E j \in Entries : burst[j] = 0
  \/ policy \in {"FIFO", "RR"} /\ \E p \in Kids : life[p] = "failed"

(***************************************************************************)
(* On these the loop of no scheduler ends: not the clock nor the children  *)
(* count but the entries it has reported, and here they never are all.     *)
(***************************************************************************)
EndlessNeverReturns == Endless => pc # "done"

-----------------------------------------------------------------------------
(* Liveness. *)

(***************************************************************************)
(* main comes to its end, by a return or an exit, but for an empty table,  *)
(* an entry of 0 units, the failing forks that FIFO.c and RR.c ignore, and *)
(* a stray flag under PSJF.c.                                              *)
(***************************************************************************)
MainEnds == <>(phase = "over" \/ Endless \/ StrayFlag)

(***************************************************************************)
(* Every child comes to its end, under every policy: also when SCHED_FIFO  *)
(* children starve others, when exit(1) in the middle of a fork leaves one *)
(* on the parent's CPU, and when main has returned without waiting.        *)
(***************************************************************************)
ChildrenFinish ==
  \A p \in Kids : Alive(p) ~> ~Alive(p)

-----------------------------------------------------------------------------
(***************************************************************************)
(* README: the loop of RR.c goes on until all processes have finished.     *)
(* When they have, the program comes to its end.                           *)
(***************************************************************************)
EndsWhenAllFinished ==
  (\A p \in Kids : life[p] \in {"zombie", "reaped"}) ~> phase = "over"

=============================================================================
