---------------------------- MODULE Main_proofs -----------------------------
(***************************************************************************)
(* What is proved of the four schedulers is proved of the program: main    *)
(* starts each of them in a state that its own specification starts from,  *)
(* and only its steps and those of the children follow.  So when a         *)
(* scheduler returns, the pace that its loop has kept says when it does.   *)
(***************************************************************************)
EXTENDS Main, TLAPS

FP == INSTANCE FIFO_proofs
RP == INSTANCE RR_proofs
SP == INSTANCE SJF_proofs
PP == INSTANCE PSJF_proofs

-----------------------------------------------------------------------------
(* The invariants of the loops, under the assumptions of Main.             *)

(* The loop of FIFO.c keeps in step with its clock, and to its types.      *)
LEMMA FifoLoop ==
  /\ FP!Init => FP!Steady
  /\ FP!Steady /\ [FP!Next]_FP!vars => FP!Steady'
  /\ FP!Steady => FP!TypeOK
<1> USE MainAssumption DEF FP!Self, FP!NoPid
<1>1. FP!Steady => FP!TypeOK
  BY DEF FP!Steady, FP!LoopOK, FP!ParentInv, FP!LoopInv, FP!FifoTypeOK, FP!TypeOK
<1> QED BY <1>1, FP!SteadyInit, FP!SteadyStep

(* The loop of RR.c keeps in step with its clock, and to its types.        *)
LEMMA RrLoop ==
  /\ RP!Init => RP!Steady
  /\ RP!Steady /\ [RP!Next]_RP!vars => RP!Steady'
  /\ RP!Steady => RP!TypeOK
<1> USE MainAssumption DEF RP!Self, RP!NoPid
<1>1. RP!Steady => RP!TypeOK
  BY DEF RP!Steady, RP!LoopOK, RP!ParentInv, RP!LoopInv, RP!RrTypeOK, RP!TypeOK
<1> QED BY <1>1, RP!SteadyInit, RP!SteadyStep

(* The loop of SJF.c keeps in step with its clock, and to its types.       *)
LEMMA SjfLoop ==
  /\ SP!Init => SP!Steady
  /\ SP!Steady /\ [SP!Next]_SP!vars => SP!Steady'
  /\ SP!Steady => SP!TypeOK
<1> USE MainAssumption DEF SP!Self, SP!NoPid
<1>1. SP!Steady => SP!TypeOK
  BY DEF SP!Steady, SP!LoopOK, SP!ParentInv, SP!LoopInv, SP!TypeOK
<1> QED BY <1>1, SP!SteadyInit, SP!SteadyStep

(* The loop of PSJF.c keeps in step with its clock, and to its types.      *)
LEMMA PsjfLoop ==
  /\ PP!Init => PP!Steady
  /\ PP!Steady /\ [PP!Next]_PP!vars => PP!Steady'
  /\ PP!Steady => PP!TypeOK
<1> USE MainAssumption DEF PP!Kids
<1>1. PP!Steady => PP!TypeOK
  BY DEF PP!Steady, PP!LoopOK, PP!LoopInv
<1> QED BY <1>1, PP!SteadyInit, PP!SteadyStep

-----------------------------------------------------------------------------
(* The schedulers as Main runs them are the ones of the proofs.            *)

(* FIFO.c: its initial states, its type invariant and its steps.           *)
LEMMA FifoSame ==
  /\ Fifo!Init <=> FP!Init
  /\ Fifo!TypeOK <=> FP!TypeOK
  /\ Fifo!Scheduler <=> FP!Scheduler
<1>1. Fifo!Init <=> FP!Init
  BY Zenon DEF
     Fifo!KernelTypeOK, FP!KernelTypeOK, Fifo!KernelInit, FP!KernelInit,
     Fifo!Lives, FP!Lives, Fifo!Class, FP!Class, Fifo!SCHED_IDLE,
     FP!SCHED_IDLE, Fifo!SCHED_OTHER, FP!SCHED_OTHER, Fifo!PARENT_CPU,
     FP!PARENT_CPU, Fifo!CHILD_CPU, FP!CHILD_CPU, Fifo!Self, FP!Self,
     Fifo!Kids, FP!Kids, Fifo!Idx, FP!Idx, Fifo!Init, FP!Init,
     Fifo!ParentTypeOK, FP!ParentTypeOK, Fifo!ParentInit, FP!ParentInit,
     Fifo!Steps, FP!Steps, Fifo!Sorted, FP!Sorted, Fifo!NoPid, FP!NoPid
<1>2. Fifo!TypeOK <=> FP!TypeOK
  BY Zenon DEF
     Fifo!KernelTypeOK, FP!KernelTypeOK, Fifo!KernelInit, FP!KernelInit,
     Fifo!Lives, FP!Lives, Fifo!Class, FP!Class, Fifo!SCHED_IDLE,
     FP!SCHED_IDLE, Fifo!SCHED_OTHER, FP!SCHED_OTHER, Fifo!PARENT_CPU,
     FP!PARENT_CPU, Fifo!CHILD_CPU, FP!CHILD_CPU, Fifo!Self, FP!Self,
     Fifo!Kids, FP!Kids, Fifo!Idx, FP!Idx, Fifo!TypeOK, FP!TypeOK,
     Fifo!ParentTypeOK, FP!ParentTypeOK, Fifo!ParentInit, FP!ParentInit,
     Fifo!Steps, FP!Steps, Fifo!Sorted, FP!Sorted, Fifo!NoPid, FP!NoPid
<1>3. Fifo!Scheduler <=> FP!Scheduler
  BY Zenon DEF
     Fifo!Idx, FP!Idx, Fifo!Child, FP!Child, Fifo!Kids, FP!Kids, Fifo!Self,
     FP!Self, Fifo!NoPid, FP!NoPid, Fifo!SCHED_IDLE, FP!SCHED_IDLE,
     Fifo!SCHED_OTHER, FP!SCHED_OTHER, Fifo!PARENT_CPU, FP!PARENT_CPU,
     Fifo!CHILD_CPU, FP!CHILD_CPU, Fifo!kernel, FP!kernel, Fifo!table,
     FP!table, Fifo!parent, FP!parent, Fifo!Exists, FP!Exists,
     Fifo!Reclass, FP!Reclass, Fifo!Fork, FP!Fork, Fifo!ForkFails,
     FP!ForkFails, Fifo!Waitpid, FP!Waitpid, Fifo!UsedUp, FP!UsedUp,
     Fifo!Due, FP!Due, Fifo!FirstDue, FP!FirstDue, Fifo!Ready, FP!Ready,
     Fifo!ReapRunning, FP!ReapRunning, Fifo!NothingToReap,
     FP!NothingToReap, Fifo!ForkChild, FP!ForkChild, Fifo!AssignCpu,
     FP!AssignCpu, Fifo!AssignFails, FP!AssignFails, Fifo!Block, FP!Block,
     Fifo!EndFork, FP!EndFork, Fifo!KeepRunning, FP!KeepRunning, Fifo!Tick,
     FP!Tick, Fifo!Scheduler, FP!Scheduler, Fifo!ForkIgnored,
     FP!ForkIgnored, Fifo!Wakeup, FP!Wakeup, Fifo!Demote, FP!Demote,
     Fifo!Sooner, FP!Sooner, Fifo!NextProc, FP!NextProc, Fifo!Fork1,
     FP!Fork1
<1> QED BY <1>1, <1>2, <1>3

(* RR.c: its initial states, its type invariant and its steps.             *)
LEMMA RrSame ==
  /\ Rr!Init <=> RP!Init
  /\ Rr!TypeOK <=> RP!TypeOK
  /\ Rr!Scheduler <=> RP!Scheduler
<1>1. Rr!Init <=> RP!Init
  BY Zenon DEF
     Rr!KernelTypeOK, RP!KernelTypeOK, Rr!KernelInit, RP!KernelInit,
     Rr!Lives, RP!Lives, Rr!Class, RP!Class, Rr!SCHED_IDLE, RP!SCHED_IDLE,
     Rr!SCHED_OTHER, RP!SCHED_OTHER, Rr!PARENT_CPU, RP!PARENT_CPU,
     Rr!CHILD_CPU, RP!CHILD_CPU, Rr!Self, RP!Self, Rr!Kids, RP!Kids,
     Rr!Idx, RP!Idx, Rr!Init, RP!Init, Rr!ParentTypeOK, RP!ParentTypeOK,
     Rr!ParentInit, RP!ParentInit, Rr!Steps, RP!Steps, Rr!Sorted,
     RP!Sorted, Rr!NoPid, RP!NoPid
<1>2. Rr!TypeOK <=> RP!TypeOK
  BY Zenon DEF
     Rr!KernelTypeOK, RP!KernelTypeOK, Rr!KernelInit, RP!KernelInit,
     Rr!Lives, RP!Lives, Rr!Class, RP!Class, Rr!SCHED_IDLE, RP!SCHED_IDLE,
     Rr!SCHED_OTHER, RP!SCHED_OTHER, Rr!PARENT_CPU, RP!PARENT_CPU,
     Rr!CHILD_CPU, RP!CHILD_CPU, Rr!Self, RP!Self, Rr!Kids, RP!Kids,
     Rr!Idx, RP!Idx, Rr!TypeOK, RP!TypeOK, Rr!ParentTypeOK,
     RP!ParentTypeOK, Rr!ParentInit, RP!ParentInit, Rr!Steps, RP!Steps,
     Rr!Sorted, RP!Sorted, Rr!NoPid, RP!NoPid
<1>3. Rr!Scheduler <=> RP!Scheduler
  BY Zenon DEF
     Rr!Idx, RP!Idx, Rr!Child, RP!Child, Rr!Kids, RP!Kids, Rr!Self,
     RP!Self, Rr!NoPid, RP!NoPid, Rr!SCHED_IDLE, RP!SCHED_IDLE,
     Rr!SCHED_OTHER, RP!SCHED_OTHER, Rr!PARENT_CPU, RP!PARENT_CPU,
     Rr!CHILD_CPU, RP!CHILD_CPU, Rr!kernel, RP!kernel, Rr!table, RP!table,
     Rr!parent, RP!parent, Rr!Exists, RP!Exists, Rr!Reclass, RP!Reclass,
     Rr!Fork, RP!Fork, Rr!ForkFails, RP!ForkFails, Rr!Waitpid, RP!Waitpid,
     Rr!UsedUp, RP!UsedUp, Rr!Due, RP!Due, Rr!FirstDue, RP!FirstDue,
     Rr!Ready, RP!Ready, Rr!ReapRunning, RP!ReapRunning, Rr!NothingToReap,
     RP!NothingToReap, Rr!ForkChild, RP!ForkChild, Rr!AssignCpu,
     RP!AssignCpu, Rr!AssignFails, RP!AssignFails, Rr!Block, RP!Block,
     Rr!EndFork, RP!EndFork, Rr!KeepRunning, RP!KeepRunning, Rr!Tick,
     RP!Tick, Rr!Scheduler, RP!Scheduler, Rr!ForkIgnored, RP!ForkIgnored,
     Rr!Wakeup, RP!Wakeup, Rr!Demote, RP!Demote, Rr!SlotOver, RP!SlotOver,
     Rr!Ring, RP!Ring, Rr!RR_next, RP!RR_next, Rr!SearchesForever,
     RP!SearchesForever, Rr!Reap, RP!Reap, Rr!proc_exec, RP!proc_exec,
     Rr!Arrive, RP!Arrive, Rr!Switch, RP!Switch, Rr!Choose, RP!Choose,
     Rr!account, RP!account, Rr!Min, RP!Min
<1> QED BY <1>1, <1>2, <1>3

(* SJF.c: its initial states, its type invariant and its steps.            *)
LEMMA SjfSame ==
  /\ Sjf!Init <=> SP!Init
  /\ Sjf!TypeOK <=> SP!TypeOK
  /\ Sjf!Scheduler <=> SP!Scheduler
<1>1. Sjf!Init <=> SP!Init
  BY Zenon DEF
     Sjf!KernelTypeOK, SP!KernelTypeOK, Sjf!KernelInit, SP!KernelInit,
     Sjf!Lives, SP!Lives, Sjf!Class, SP!Class, Sjf!SCHED_IDLE,
     SP!SCHED_IDLE, Sjf!SCHED_OTHER, SP!SCHED_OTHER, Sjf!PARENT_CPU,
     SP!PARENT_CPU, Sjf!CHILD_CPU, SP!CHILD_CPU, Sjf!Self, SP!Self,
     Sjf!Kids, SP!Kids, Sjf!Idx, SP!Idx, Sjf!Init, SP!Init,
     Sjf!ParentTypeOK, SP!ParentTypeOK, Sjf!ParentInit, SP!ParentInit,
     Sjf!Steps, SP!Steps, Sjf!Sorted, SP!Sorted, Sjf!NoPid, SP!NoPid
<1>2. Sjf!TypeOK <=> SP!TypeOK
  BY Zenon DEF
     Sjf!KernelTypeOK, SP!KernelTypeOK, Sjf!KernelInit, SP!KernelInit,
     Sjf!Lives, SP!Lives, Sjf!Class, SP!Class, Sjf!SCHED_IDLE,
     SP!SCHED_IDLE, Sjf!SCHED_OTHER, SP!SCHED_OTHER, Sjf!PARENT_CPU,
     SP!PARENT_CPU, Sjf!CHILD_CPU, SP!CHILD_CPU, Sjf!Self, SP!Self,
     Sjf!Kids, SP!Kids, Sjf!Idx, SP!Idx, Sjf!TypeOK, SP!TypeOK,
     Sjf!ParentTypeOK, SP!ParentTypeOK, Sjf!ParentInit, SP!ParentInit,
     Sjf!Steps, SP!Steps, Sjf!Sorted, SP!Sorted, Sjf!NoPid, SP!NoPid
<1>3. Sjf!Scheduler <=> SP!Scheduler
  BY Zenon DEF
     Sjf!Idx, SP!Idx, Sjf!Child, SP!Child, Sjf!Kids, SP!Kids, Sjf!Self,
     SP!Self, Sjf!NoPid, SP!NoPid, Sjf!SCHED_IDLE, SP!SCHED_IDLE,
     Sjf!SCHED_OTHER, SP!SCHED_OTHER, Sjf!PARENT_CPU, SP!PARENT_CPU,
     Sjf!CHILD_CPU, SP!CHILD_CPU, Sjf!kernel, SP!kernel, Sjf!table,
     SP!table, Sjf!parent, SP!parent, Sjf!Exists, SP!Exists, Sjf!Reclass,
     SP!Reclass, Sjf!Fork, SP!Fork, Sjf!ForkFails, SP!ForkFails,
     Sjf!Waitpid, SP!Waitpid, Sjf!UsedUp, SP!UsedUp, Sjf!Due, SP!Due,
     Sjf!FirstDue, SP!FirstDue, Sjf!Ready, SP!Ready, Sjf!ReapRunning,
     SP!ReapRunning, Sjf!NothingToReap, SP!NothingToReap, Sjf!ForkChild,
     SP!ForkChild, Sjf!AssignCpu, SP!AssignCpu, Sjf!AssignFails,
     SP!AssignFails, Sjf!Block, SP!Block, Sjf!EndFork, SP!EndFork,
     Sjf!KeepRunning, SP!KeepRunning, Sjf!Tick, SP!Tick, Sjf!Scheduler,
     SP!Scheduler, Sjf!ForkFatal, SP!ForkFatal, Sjf!Shorter, SP!Shorter,
     Sjf!NextShortest, SP!NextShortest, Sjf!ToForeground, SP!ToForeground
<1> QED BY <1>1, <1>2, <1>3

(* PSJF.c: its initial states, its type invariant and its steps.           *)
LEMMA PsjfSame ==
  /\ Psjf!Init <=> PP!Init
  /\ Psjf!TypeOK <=> PP!TypeOK
  /\ Psjf!Scheduler <=> PP!Scheduler
<1>1. Psjf!Init <=> PP!Init
  BY Zenon DEF
     Psjf!KernelTypeOK, PP!KernelTypeOK, Psjf!KernelInit, PP!KernelInit,
     Psjf!Lives, PP!Lives, Psjf!Class, PP!Class, Psjf!SCHED_IDLE,
     PP!SCHED_IDLE, Psjf!SCHED_OTHER, PP!SCHED_OTHER, Psjf!PARENT_CPU,
     PP!PARENT_CPU, Psjf!CHILD_CPU, PP!CHILD_CPU, Psjf!Self, PP!Self,
     Psjf!Kids, PP!Kids, Psjf!Idx, PP!Idx, Psjf!Init, PP!Init
<1>2. Psjf!TypeOK <=> PP!TypeOK
  BY Zenon DEF
     Psjf!KernelTypeOK, PP!KernelTypeOK, Psjf!KernelInit, PP!KernelInit,
     Psjf!Lives, PP!Lives, Psjf!Class, PP!Class, Psjf!SCHED_IDLE,
     PP!SCHED_IDLE, Psjf!SCHED_OTHER, PP!SCHED_OTHER, Psjf!PARENT_CPU,
     PP!PARENT_CPU, Psjf!CHILD_CPU, PP!CHILD_CPU, Psjf!Self, PP!Self,
     Psjf!Kids, PP!Kids, Psjf!Idx, PP!Idx, Psjf!TypeOK, PP!TypeOK
<1>3. Psjf!Scheduler <=> PP!Scheduler
  BY Zenon DEF
     Psjf!Idx, PP!Idx, Psjf!Child, PP!Child, Psjf!Kids, PP!Kids, Psjf!Self,
     PP!Self, Psjf!kernel, PP!kernel, Psjf!table, PP!table, Psjf!parent,
     PP!parent, Psjf!Exists, PP!Exists, Psjf!Reclass, PP!Reclass,
     Psjf!Fork, PP!Fork, Psjf!ForkFails, PP!ForkFails, Psjf!Due, PP!Due,
     Psjf!FirstDue, PP!FirstDue, Psjf!While, PP!While, Psjf!ForkChild,
     PP!ForkChild, Psjf!ForkFatal, PP!ForkFatal, Psjf!AssignCpu,
     PP!AssignCpu, Psjf!AssignFails, PP!AssignFails, Psjf!Mark, PP!Mark,
     Psjf!IsReady, PP!IsReady, Psjf!Less, PP!Less, Psjf!FindMinIndex,
     PP!FindMinIndex, Psjf!EndFork, PP!EndFork, Psjf!RaisePrevious,
     PP!RaisePrevious, Psjf!BLOCK, PP!BLOCK, Psjf!HIGH, PP!HIGH,
     Psjf!SCHED_OTHER, PP!SCHED_OTHER, Psjf!PARENT_CPU, PP!PARENT_CPU,
     Psjf!CHILD_CPU, PP!CHILD_CPU, Psjf!Charge, PP!Charge, Psjf!Tick,
     PP!Tick, Psjf!Scheduler, PP!Scheduler
<1> QED BY <1>1, <1>2, <1>3

(* From an initial state on the invariant of each loop holds.              *)
LEMMA LoopsStart ==
  /\ Fifo!Init => FP!Steady
  /\ Rr!Init => RP!Steady
  /\ Sjf!Init => SP!Steady
  /\ Psjf!Init => PP!Steady
BY FifoLoop, FifoSame, RrLoop, RrSame, SjfLoop, SjfSame, PsjfLoop, PsjfSame

(* A child's step, and a step that touches neither loop nor children, keep *)
(* the invariant of the loop that is running.                              *)
LEMMA OthersKeep ==
  ASSUME \/ \E p \in Kids : Child(p)
         \/ UNCHANGED <<kernel, common, running, ofFifo, ofRr, ofPsjf>>
  PROVE  /\ FP!Steady => FP!Steady'
         /\ RP!Steady => RP!Steady'
         /\ SP!Steady => SP!Steady'
         /\ PP!Steady => PP!Steady'
<1> USE DEF common, table, parent, ofFifo, ofRr, ofPsjf, kernel
<1>1. CASE \E p \in Kids : Child(p)
  <2>1. PICK p \in Kids : Kern!ChildStep(p) /\ UNCHANGED parent
    BY <1>1 DEF Child
  <2> USE DEF Kern!ChildStep, Kern!ChildUnit, Kern!ChildExit, Kids
  <2>2. FP!Next
    BY <2>1 DEF FP!Next, FP!Children, FP!ChildStep, FP!ChildUnit, FP!ChildExit,
                FP!Kids, FP!parent, FP!table
  <2>3. RP!Next
    BY <2>1 DEF RP!Next, RP!Children, RP!ChildStep, RP!ChildUnit, RP!ChildExit,
                RP!Kids, RP!parent, RP!table, RP!account
  <2>4. SP!Next
    BY <2>1 DEF SP!Next, SP!Children, SP!ChildStep, SP!ChildUnit, SP!ChildExit,
                SP!Kids, SP!parent, SP!table
  <2>5. PP!Next
    BY <2>1 DEF PP!Next, PP!Children, PP!ChildStep, PP!ChildUnit, PP!ChildExit,
                PP!Kids, PP!parent, PP!table
  <2> QED BY <2>2, <2>3, <2>4, <2>5, FifoLoop, RrLoop, SjfLoop, PsjfLoop
<1>2. CASE UNCHANGED <<kernel, common, running, ofFifo, ofRr, ofPsjf>>
  <2>1. UNCHANGED <<FP!vars, RP!vars, SP!vars, PP!vars>>
    BY <1>2 DEF FP!vars, FP!kernel, FP!parent, FP!table,
                RP!vars, RP!kernel, RP!parent, RP!table, RP!account,
                SP!vars, SP!kernel, SP!parent, SP!table,
                PP!vars, PP!kernel, PP!parent, PP!table
  <2> QED BY <2>1, FifoLoop, RrLoop, SjfLoop, PsjfLoop
<1> QED BY <1>1, <1>2

-----------------------------------------------------------------------------
(* The invariant of main. *)

(* The table has been read, and no scheduler has taken a step.             *)
Fresh ==
  /\ Kern!KernelInit
  /\ ready \in [Entries -> Readies]
  /\ exec \in [Entries -> Bursts] /\ burst = exec
  /\ waiting \in [Entries -> HeapWaiting] /\ found = waiting
  /\ i = 0 /\ time = 0 /\ finished = 0
  /\ running = -1 /\ chosen = -1 /\ preRunning = -1
  /\ timeLast = 0 /\ wait = 0 /\ since = [j \in Entries |-> 0]
  /\ ended = [j \in Entries |-> -1] /\ childTime = ended

(* What the preparation of the table has to bring about.                   *)
Prepared ==
  CASE policy = "PSJF" -> pid \in [Entries -> HeapPids]
    [] policy \in {"FIFO", "RR", "SJF"} ->
         /\ pid = [j \in Entries |-> -1]
         /\ \A j, k \in Entries : j < k => ready[j] <= ready[k]

(* The loop of the chosen scheduler keeps its own invariant.               *)
InLoop ==
  CASE policy = "FIFO" -> FP!Steady
    [] policy = "RR"   -> RP!Steady
    [] policy = "SJF"  -> SP!Steady
    [] policy = "PSJF" -> PP!Steady

Schedulers == {"FIFO", "RR", "SJF", "PSJF"}

MainInv ==
  /\ policy \in Policies /\ phase \in {"read", "pin", "run", "over"}
  /\ phase \in {"pin", "run"} => policy \in Schedulers
  /\ phase = "read" => Fresh /\ pc = "main" /\ pid \in [Entries -> HeapPids]
  /\ phase = "pin"  => Fresh /\ pc = "main" /\ Prepared
  /\ phase = "run"  => InLoop
  /\ phase = "over" => \/ Fresh /\ pc = "main" /\ pid \in [Entries -> HeapPids]
                       \/ Fresh /\ pc = "exited" /\ policy \in Schedulers /\ Prepared
                       \/ policy \in Schedulers /\ InLoop /\ pc \in {"done", "exited"}

(* The sorted table has the entries of the file, each row as it was.       *)
LEMMA SortMoves ==
  ASSUME Fresh, Sort
  PROVE  /\ ready' \in [Entries -> Readies] /\ exec' \in [Entries -> Bursts]
         /\ burst' = exec'
         /\ waiting' \in [Entries -> HeapWaiting] /\ found' = waiting'
         /\ \A j, k \in Entries : j < k => ready'[j] <= ready'[k]
<1>1. PICK p \in Bijection(Entries, Entries) :
        /\ \A j, k \in Entries : j < k => ready[p[j]] <= ready[p[k]]
        /\ ready' = [j \in Entries |-> ready[p[j]]]
        /\ exec'  = [j \in Entries |-> exec[p[j]]]
        /\ burst' = exec'
        /\ waiting' = [j \in Entries |-> waiting[p[j]]] /\ found' = waiting'
  BY DEF Sort
<1>2. p \in [Entries -> Entries]
  BY DEF Bijection, Injection
<1> QED BY <1>1, <1>2 DEF Fresh

(* From a prepared table the scheduler starts in an initial state.         *)
LEMMA PinHandsOver ==
  ASSUME MainInv, Pin
  PROVE  /\ policy = "FIFO" => Fifo!Init'
         /\ policy = "RR"   => Rr!Init'
         /\ policy = "SJF"  => Sjf!Init'
         /\ policy = "PSJF" => Psjf!Init'
<1>1. /\ Fresh /\ Prepared /\ policy \in Schedulers
      /\ pc' = IF policy = "PSJF" THEN "while" ELSE "reap"
      /\ UNCHANGED <<kernel, policy, i, time, finished, table, pid, ended,
                     running, ofFifo, ofRr, ofPsjf>>
  BY DEF MainInv, Pin
<1>2. Fresh' /\ Kern!KernelInit'
  BY <1>1 DEF Fresh, Kern!KernelInit, kernel, table, ofFifo, ofRr, ofPsjf
<1>3. CASE policy \in {"FIFO", "RR", "SJF"}
  <2>1. /\ pc' = "reap" /\ pid' = [j \in Entries |-> -1]
        /\ \A j, k \in Entries : j < k => ready'[j] <= ready'[k]
    BY <1>1, <1>3 DEF Prepared, table
  <2>2. Fifo!Init'
    BY <1>2, <2>1 DEF Fresh, Fifo!Init, Fifo!ParentInit, Fifo!KernelInit, Fifo!Idx,
       Fifo!Sorted, Fifo!NoPid, Fifo!Kids, Fifo!Self, Fifo!SCHED_OTHER, Fifo!PARENT_CPU,
       Kern!KernelInit, Kern!Kids, Kern!Self, Kern!SCHED_OTHER, Kern!PARENT_CPU, Entries
  <2>3. Rr!Init'
    BY <1>2, <2>1 DEF Fresh, Rr!Init, Rr!ParentInit, Rr!KernelInit, Rr!Idx,
       Rr!Sorted, Rr!NoPid, Rr!Kids, Rr!Self, Rr!SCHED_OTHER, Rr!PARENT_CPU,
       Kern!KernelInit, Kern!Kids, Kern!Self, Kern!SCHED_OTHER, Kern!PARENT_CPU, Entries
  <2>4. Sjf!Init'
    BY <1>2, <2>1 DEF Fresh, Sjf!Init, Sjf!ParentInit, Sjf!KernelInit, Sjf!Idx,
       Sjf!Sorted, Sjf!NoPid, Sjf!Kids, Sjf!Self, Sjf!SCHED_OTHER, Sjf!PARENT_CPU,
       Kern!KernelInit, Kern!Kids, Kern!Self, Kern!SCHED_OTHER, Kern!PARENT_CPU, Entries
  <2> QED BY <1>3, <2>2, <2>3, <2>4
<1>4. CASE policy = "PSJF"
  <2>1. pc' = "while" /\ pid' \in [Entries -> HeapPids]
    BY <1>1, <1>4 DEF Prepared
  <2>2. Psjf!Init'
    BY <1>2, <2>1 DEF Fresh, Psjf!Init, Psjf!KernelInit, Psjf!Idx, Psjf!Kids, Psjf!Self,
       Psjf!SCHED_OTHER, Psjf!PARENT_CPU,
       Kern!KernelInit, Kern!Kids, Kern!Self, Kern!SCHED_OTHER, Kern!PARENT_CPU, Entries
  <2> QED BY <1>4, <2>2
<1> QED BY <1>1, <1>3, <1>4 DEF Schedulers

(* Children only move once they have been forked.                          *)
LEMMA FreshIsStill ==
  ASSUME Fresh
  PROVE  ~ \E p \in Kids : Child(p)
BY DEF Fresh, Kids, Child, Kern!KernelInit, Kern!ChildStep, Kern!ChildUnit,
       Kern!ChildExit, Kern!Kids

(* A step that touches nothing the table or the children consist of leaves *)
(* the program where it was before its scheduler has started.              *)
LEMMA FreshKept ==
  ASSUME Fresh, UNCHANGED <<kernel, i, time, finished, table, waiting, found, ended, running,
                            ofFifo, ofRr, chosen, preRunning>>
  PROVE  Fresh'
BY DEF Fresh, kernel, table, ofFifo, ofRr, Kern!KernelInit

(* A step of the scheduler main has called.                                *)
LEMMA RunKeeps ==
  ASSUME MainInv, Run
  PROVE  MainInv'
<1>1. /\ phase = "run" /\ UNCHANGED <<policy, phase>> /\ InLoop
      /\ policy \in Schedulers /\ policy \in Policies
  BY DEF Run, MainInv
<1>2. CASE policy = "FIFO" /\ Fifo!Scheduler
  <2>1. FP!Steady /\ FP!Next
    BY <1>1, <1>2, FifoSame DEF InLoop, FP!Next
  <2> QED BY <1>1, <1>2, <2>1, FifoLoop DEF MainInv, InLoop
<1>3. CASE policy = "RR" /\ Rr!Scheduler
  <2>1. RP!Steady /\ RP!Next
    BY <1>1, <1>3, RrSame DEF InLoop, RP!Next
  <2> QED BY <1>1, <1>3, <2>1, RrLoop DEF MainInv, InLoop
<1>4. CASE policy = "SJF" /\ Sjf!Scheduler
  <2>1. SP!Steady /\ SP!Next
    BY <1>1, <1>4, SjfSame DEF InLoop, SP!Next
  <2> QED BY <1>1, <1>4, <2>1, SjfLoop DEF MainInv, InLoop
<1>5. CASE policy = "PSJF" /\ Psjf!Scheduler
  <2>1. PP!Steady /\ PP!Next
    BY <1>1, <1>5, PsjfSame DEF InLoop, PP!Next
  <2> QED BY <1>1, <1>5, <2>1, PsjfLoop DEF MainInv, InLoop
<1> QED BY <1>2, <1>3, <1>4, <1>5 DEF Run

(* A step that leaves the loop of the scheduler alone.                     *)
LEMMA LoopKept ==
  ASSUME policy \in Schedulers, InLoop, UNCHANGED policy,
         \/ \E p \in Kids : Child(p)
         \/ UNCHANGED <<kernel, common, running, ofFifo, ofRr, ofPsjf>>
  PROVE  InLoop'
<1>1. CASE policy = "FIFO"
  BY <1>1, OthersKeep DEF InLoop
<1>2. CASE policy = "RR"
  BY <1>2, OthersKeep DEF InLoop
<1>3. CASE policy = "SJF"
  BY <1>3, OthersKeep DEF InLoop
<1>4. CASE policy = "PSJF"
  BY <1>4, OthersKeep DEF InLoop
<1> QED BY <1>1, <1>2, <1>3, <1>4 DEF Schedulers

(* The invariant of main is preserved by every step of the program.        *)
LEMMA MainStep ==
  ASSUME MainInv, [Next]_vars
  PROVE  MainInv'
<1>1. CASE DispatchSorted
  <2>1. /\ phase = "read" /\ policy \in {"FIFO", "RR", "SJF"} /\ phase' = "pin"
        /\ Fresh /\ pc = "main" /\ pid' = [j \in Entries |-> -1]
        /\ Sort
        /\ UNCHANGED <<kernel, policy, pc, i, time, finished, ended, running, ofFifo,
                       ofRr, chosen, preRunning>>
    BY <1>1 DEF DispatchSorted, MainInv
  <2>2. Fresh'
    BY <2>1, SortMoves DEF Fresh, kernel, ofFifo, ofRr, Kern!KernelInit
  <2>3. Prepared'
    BY <2>1, SortMoves DEF Prepared
  <2> QED BY <2>1, <2>2, <2>3 DEF MainInv, Schedulers
<1>2. CASE DispatchPsjf
  <2>1. /\ phase = "read" /\ policy = "PSJF" /\ phase' = "pin"
        /\ Fresh /\ pc = "main" /\ pid \in [Entries -> HeapPids]
        /\ UNCHANGED <<kernel, policy, common, running, ofFifo, ofRr, ofPsjf>>
    BY <1>2 DEF DispatchPsjf, MainInv
  <2>2. Fresh'
    BY <2>1, FreshKept DEF common, ofPsjf, table
  <2> QED BY <2>1, <2>2 DEF MainInv, Schedulers, Prepared, common
<1>3. CASE NotSupported
  <2>1. /\ phase = "read" /\ phase' = "over" /\ Fresh /\ pc = "main"
        /\ policy \in Policies /\ pid \in [Entries -> HeapPids]
        /\ UNCHANGED <<kernel, policy, common, running, ofFifo, ofRr, ofPsjf>>
    BY <1>3 DEF NotSupported, MainInv
  <2>2. Fresh'
    BY <2>1, FreshKept DEF common, ofPsjf, table
  <2> QED BY <2>1, <2>2 DEF MainInv, common
<1>4. CASE Pin
  <2>1. /\ phase' = "run" /\ policy' = policy
        /\ policy \in Schedulers /\ policy \in Policies
    BY <1>4 DEF Pin, MainInv
  <2>2. (Fifo!Init => FP!Steady)' /\ (Rr!Init => RP!Steady)'
        /\ (Sjf!Init => SP!Steady)' /\ (Psjf!Init => PP!Steady)'
    BY LoopsStart, PTL
  <2>3. InLoop'
    BY <1>4, <2>1, <2>2, PinHandsOver DEF InLoop, Schedulers
  <2> QED BY <2>1, <2>3 DEF MainInv
<1>5. CASE PinFails \/ OwnClassFails
  <2>1. /\ phase' = "over" /\ pc' = "exited" /\ policy' = policy
        /\ Fresh /\ Prepared /\ policy \in Policies /\ policy \in Schedulers
        /\ UNCHANGED <<kernel, i, time, finished, table, pid, ended, running,
                       ofFifo, ofRr, ofPsjf>>
    BY <1>5 DEF PinFails, OwnClassFails, MainInv
  <2>2. Fresh'
    BY <2>1, FreshKept DEF ofPsjf
  <2>3. Prepared'
    BY <2>1 DEF Prepared, table
  <2> QED BY <2>1, <2>2, <2>3 DEF MainInv
<1>6. CASE Run
  BY <1>6, RunKeeps
<1>7. CASE Leave
  <2>1. /\ phase = "run" /\ phase' = "over" /\ pc \in {"done", "exited"}
        /\ policy' = policy /\ pc' = pc
        /\ UNCHANGED <<kernel, common, running, ofFifo, ofRr, ofPsjf>>
    BY <1>7 DEF Leave, common
  <2>2. InLoop /\ policy \in Schedulers /\ policy \in Policies
    BY <2>1 DEF MainInv
  <2> QED BY <2>1, <2>2, LoopKept DEF MainInv
<1>8. CASE \/ \E p \in Kids : Child(p)
           \/ UNCHANGED vars
  <2>1. UNCHANGED <<policy, phase, pc, pid>>
    BY <1>8 DEF Child, vars, parent, common
  <2>2. \/ \E p \in Kids : Child(p)
        \/ UNCHANGED <<kernel, common, running, ofFifo, ofRr, ofPsjf>>
    BY <1>8 DEF vars, parent
  <2>3. Fresh => Fresh'
    <3> SUFFICES ASSUME Fresh PROVE Fresh'
      OBVIOUS
    <3>1. UNCHANGED vars
      BY <1>8, FreshIsStill
    <3> QED BY <3>1, FreshKept DEF vars, parent, common, ofPsjf, table
  <2>4. policy \in Schedulers /\ InLoop => InLoop'
    BY <2>1, <2>2, LoopKept
  <2>5. Fresh /\ Prepared => Prepared'
    <3> SUFFICES ASSUME Fresh, Prepared PROVE Prepared'
      OBVIOUS
    <3>1. UNCHANGED vars
      BY <1>8, FreshIsStill
    <3> QED BY <3>1 DEF Prepared, vars, parent, common, table
  <2> QED BY <2>1, <2>3, <2>4, <2>5 DEF MainInv
<1> QED BY <1>1, <1>2, <1>3, <1>4, <1>5, <1>6, <1>7, <1>8
        DEF Next, Process, Terminated

(* The invariant holds in every state of the program.                      *)
THEOREM MainAlways == Spec => []MainInv
<1>1. Init => MainInv
  BY MainAssumption DEF Init, MainInv, Fresh
<1>2. MainInv /\ [Next]_vars => MainInv'
  BY MainStep
<1> QED BY <1>1, <1>2, PTL DEF Spec, Safety

-----------------------------------------------------------------------------
(* What is promised of the program. *)

(* What the program's type invariant says of every scheduler's variables.  *)
CommonTypeOK ==
  /\ Kern!KernelTypeOK
  /\ i \in 0 .. N /\ time \in 0 .. MaxTime /\ finished \in Nat
  /\ ready \in [Entries -> Readies] /\ burst \in [Entries -> Bursts]
  /\ exec  \in [Entries -> Nat \cup {-1}]
  /\ pid   \in [Entries -> Kids \cup HeapPids \cup {-1}]
  /\ ended \in [Entries -> 0 .. MaxTime \cup {-1}]

(* It follows from the type invariant of each of them.                     *)
LEMMA LoopTypes ==
  Fifo!TypeOK \/ Rr!TypeOK \/ Sjf!TypeOK \/ Psjf!TypeOK => CommonTypeOK
<1> USE DEF CommonTypeOK, Entries, Kids, Kern!KernelTypeOK, Kern!Lives, Kern!Class, Kern!Kids,
            Kern!Self, Kern!SCHED_IDLE, Kern!PARENT_CPU, Kern!CHILD_CPU
<1>1. Fifo!TypeOK => CommonTypeOK
  BY DEF Fifo!TypeOK, Fifo!ParentTypeOK, Fifo!KernelTypeOK, Fifo!Lives, Fifo!Class, Fifo!Kids,
     Fifo!Self, Fifo!SCHED_IDLE, Fifo!PARENT_CPU, Fifo!CHILD_CPU, Fifo!Idx, Fifo!NoPid
<1>2. Rr!TypeOK => CommonTypeOK
  BY DEF Rr!TypeOK, Rr!ParentTypeOK, Rr!KernelTypeOK, Rr!Lives, Rr!Class, Rr!Kids,
     Rr!Self, Rr!SCHED_IDLE, Rr!PARENT_CPU, Rr!CHILD_CPU, Rr!Idx, Rr!NoPid
<1>3. Sjf!TypeOK => CommonTypeOK
  BY DEF Sjf!TypeOK, Sjf!ParentTypeOK, Sjf!KernelTypeOK, Sjf!Lives, Sjf!Class, Sjf!Kids,
     Sjf!Self, Sjf!SCHED_IDLE, Sjf!PARENT_CPU, Sjf!CHILD_CPU, Sjf!Idx, Sjf!NoPid
<1>4. Psjf!TypeOK => CommonTypeOK
  BY DEF Psjf!TypeOK, Psjf!KernelTypeOK, Psjf!Lives, Psjf!Class, Psjf!Kids,
     Psjf!Self, Psjf!SCHED_IDLE, Psjf!PARENT_CPU, Psjf!CHILD_CPU, Psjf!Idx
<1> QED BY <1>1, <1>2, <1>3, <1>4

(* Before the first step of a loop the types are those of the file.        *)
LEMMA FreshTypes ==
  ASSUME Fresh
  PROVE  /\ pid \in [Entries -> Kids \cup HeapPids \cup {-1}] => CommonTypeOK
         /\ policy \in Schedulers /\ Prepared /\ pc = "exited" =>
              /\ policy = "FIFO" => Fifo!TypeOK
              /\ policy = "RR"   => Rr!TypeOK
              /\ policy = "SJF"  => Sjf!TypeOK
              /\ policy = "PSJF" => Psjf!TypeOK
<1>1. Kern!KernelTypeOK
  BY DEF Fresh, Kern!KernelInit, Kern!KernelTypeOK, Kern!Lives, Kern!Class,
     Kern!SCHED_IDLE, Kern!SCHED_OTHER
<1>2. /\ ready \in [Entries -> Readies] /\ burst \in [Entries -> Bursts]
      /\ exec \in [Entries -> Nat]
      /\ ended \in [Entries -> 0 .. MaxTime \cup {-1}] /\ childTime = ended
      /\ since \in [Entries -> 0 .. MaxTime]
      /\ waiting \in [Entries -> HeapWaiting \cup {0, 1}]
      /\ found \in [Entries -> HeapWaiting]
      /\ i \in 0 .. N /\ time \in 0 .. MaxTime /\ finished \in Nat
      /\ running = -1 /\ chosen = -1 /\ preRunning = -1
      /\ timeLast \in 0 .. MaxTime /\ wait \in Nat
  <2>1. exec \in [Entries -> Bursts] /\ burst = exec /\ ready \in [Entries -> Readies]
    BY DEF Fresh
  <2>2. exec \in [Entries -> Nat]
    BY <2>1, MainAssumption
  <2>3. waiting \in [Entries -> HeapWaiting \cup {0, 1}]
    BY DEF Fresh
  <2>4. 0 \in 0 .. MaxTime /\ 0 \in 0 .. N
    BY MainAssumption
  <2> QED BY <2>1, <2>2, <2>3, <2>4 DEF Fresh
<1>3. pid \in [Entries -> Kids \cup HeapPids \cup {-1}] => CommonTypeOK
  <2>1. exec \in [Entries -> Nat \cup {-1}]
    BY <1>2
  <2> QED BY <1>1, <1>2, <2>1 DEF CommonTypeOK
<1>4. ASSUME policy \in {"FIFO", "RR", "SJF"}, Prepared, pc = "exited"
      PROVE  Fifo!TypeOK /\ Rr!TypeOK /\ Sjf!TypeOK
  <2>1. pid \in [Entries -> Kids \cup {-1}]
    BY <1>4 DEF Prepared
  <2>2. Fifo!ParentTypeOK
    BY <1>1, <1>2, <1>4, <2>1 DEF Fifo!ParentTypeOK, Fifo!KernelTypeOK, Fifo!Lives, Fifo!Class,
       Fifo!Kids, Fifo!Self, Fifo!SCHED_IDLE, Fifo!PARENT_CPU, Fifo!CHILD_CPU, Fifo!Idx,
       Fifo!NoPid, Fifo!Steps, Entries, Kids, Kern!KernelTypeOK, Kern!Lives, Kern!Class,
       Kern!Kids, Kern!Self, Kern!SCHED_IDLE, Kern!PARENT_CPU, Kern!CHILD_CPU
  <2>3. Rr!ParentTypeOK
    BY <1>1, <1>2, <1>4, <2>1 DEF Rr!ParentTypeOK, Rr!KernelTypeOK, Rr!Lives, Rr!Class,
       Rr!Kids, Rr!Self, Rr!SCHED_IDLE, Rr!PARENT_CPU, Rr!CHILD_CPU, Rr!Idx,
       Rr!NoPid, Rr!Steps, Entries, Kids, Kern!KernelTypeOK, Kern!Lives, Kern!Class,
       Kern!Kids, Kern!Self, Kern!SCHED_IDLE, Kern!PARENT_CPU, Kern!CHILD_CPU
  <2>4. Sjf!ParentTypeOK
    BY <1>1, <1>2, <1>4, <2>1 DEF Sjf!ParentTypeOK, Sjf!KernelTypeOK, Sjf!Lives, Sjf!Class,
       Sjf!Kids, Sjf!Self, Sjf!SCHED_IDLE, Sjf!PARENT_CPU, Sjf!CHILD_CPU, Sjf!Idx,
       Sjf!NoPid, Sjf!Steps, Entries, Kids, Kern!KernelTypeOK, Kern!Lives, Kern!Class,
       Kern!Kids, Kern!Self, Kern!SCHED_IDLE, Kern!PARENT_CPU, Kern!CHILD_CPU
  <2> QED BY <1>2, <2>2, <2>3, <2>4 DEF Fifo!TypeOK, Rr!TypeOK, Sjf!TypeOK, Fifo!Idx,
             Rr!Idx, Entries
<1>5. ASSUME policy = "PSJF", Prepared, pc = "exited" PROVE Psjf!TypeOK
  <2>1. pid \in [Entries -> Kids \cup HeapPids] /\ exec \in [Entries -> Nat \cup {-1}]
    BY <1>2, <1>5 DEF Prepared
  <2> QED
    BY <1>1, <1>2, <1>5, <2>1 DEF Psjf!TypeOK, Psjf!KernelTypeOK, Psjf!Lives, Psjf!Class,
       Psjf!Kids, Psjf!Self, Psjf!SCHED_IDLE, Psjf!PARENT_CPU, Psjf!CHILD_CPU, Psjf!Idx,
       Entries, Kids, Kern!KernelTypeOK, Kern!Lives, Kern!Class,
       Kern!Kids, Kern!Self, Kern!SCHED_IDLE, Kern!PARENT_CPU, Kern!CHILD_CPU
<1> QED BY <1>3, <1>4, <1>5

(* The program keeps to its types in every state, from before the dispatch *)
(* to after the end, and so does the scheduler that main has called.       *)
THEOREM TypeCorrect == Spec => []TypeOK
<1>1. MainInv => TypeOK
  <2> SUFFICES ASSUME MainInv PROVE TypeOK
    OBVIOUS
  <2> DEFINE typed == CASE policy = "FIFO" -> Fifo!TypeOK
                        [] policy = "RR"   -> Rr!TypeOK
                        [] policy = "SJF"  -> Sjf!TypeOK
                        [] policy = "PSJF" -> Psjf!TypeOK
  <2>1. /\ FP!Steady => Fifo!TypeOK
        /\ RP!Steady => Rr!TypeOK
        /\ SP!Steady => Sjf!TypeOK
        /\ PP!Steady => Psjf!TypeOK
    BY FifoLoop, FifoSame, RrLoop, RrSame, SjfLoop, SjfSame, PsjfLoop, PsjfSame
  <2>2. \/ Fresh /\ pc = "main" /\ pid \in [Entries -> HeapPids]
        \/ Fresh /\ pc = "main" /\ policy \in Schedulers /\ Prepared
        \/ Fresh /\ pc = "exited" /\ policy \in Schedulers /\ Prepared
        \/ policy \in Schedulers /\ InLoop
    BY DEF MainInv
  <2>3. CommonTypeOK /\ (pc # "main" => typed)
    <3>1. CASE Fresh /\ pc = "main" /\ pid \in [Entries -> HeapPids]
      <4>1. pid \in [Entries -> Kids \cup HeapPids \cup {-1}]
        BY <3>1
      <4> QED BY <3>1, <4>1, FreshTypes
    <3>2. CASE Fresh /\ pc = "main" /\ policy \in Schedulers /\ Prepared
      <4>1. CASE policy = "PSJF"
        <5>1. pid \in [Entries -> Kids \cup HeapPids \cup {-1}]
          BY <3>2, <4>1 DEF Prepared
        <5> QED BY <3>2, <5>1, FreshTypes
      <4>2. CASE policy # "PSJF"
        <5>1. pid = [j \in Entries |-> -1]
          BY <3>2, <4>2 DEF Prepared, Schedulers
        <5>2. pid \in [Entries -> Kids \cup HeapPids \cup {-1}]
          BY <5>1
        <5> QED BY <3>2, <5>2, FreshTypes
      <4> QED BY <4>1, <4>2
    <3>3. CASE Fresh /\ pc = "exited" /\ policy \in Schedulers /\ Prepared
      <4>1. typed
        BY <3>3, FreshTypes DEF Schedulers
      <4> QED BY <3>3, <4>1, LoopTypes DEF Schedulers
    <3>4. CASE policy \in Schedulers /\ InLoop
      <4>1. typed
        BY <2>1, <3>4 DEF InLoop, Schedulers
      <4> QED BY <3>4, <4>1, LoopTypes DEF Schedulers
    <3> QED BY <2>2, <3>1, <3>2, <3>3, <3>4
  <2> QED BY <2>3 DEF MainInv, TypeOK, CommonTypeOK
<1> QED BY MainAlways, <1>1, PTL

(* Whatever the file and the columns that main does not read hold, and in  *)
(* whatever order qsort leaves it, main starts each scheduler in an        *)
(* initial state of its specification.                                     *)
THEOREM StartsRight == Spec => HandsOver
<1>1. MainInv /\ [Next]_vars =>
        [phase = "pin" /\ phase' = "run" =>
           CASE policy = "FIFO" -> Fifo!Init'
             [] policy = "RR"   -> Rr!Init'
             [] policy = "SJF"  -> Sjf!Init'
             [] policy = "PSJF" -> Psjf!Init']_vars
  <2> SUFFICES ASSUME MainInv, Next, phase = "pin", phase' = "run"
               PROVE  CASE policy = "FIFO" -> Fifo!Init'
                        [] policy = "RR"   -> Rr!Init'
                        [] policy = "SJF"  -> Sjf!Init'
                        [] policy = "PSJF" -> Psjf!Init'
    OBVIOUS
  <2>1. Pin /\ policy \in Schedulers
    BY DEF Next, Process, DispatchSorted, DispatchPsjf, NotSupported, PinFails,
           OwnClassFails, Run, Leave, Child, Terminated, parent, vars, MainInv
  <2> QED BY <2>1, PinHandsOver DEF Schedulers
<1> QED BY MainAlways, <1>1, PTL DEF Spec, Safety, HandsOver

-----------------------------------------------------------------------------
(* The end of the program. *)

Work(r) == SumFunctionOnSet(burst, {k \in Entries : ready[k] >= r})

(* Nobody is left: the table is charged in full, the CPU has not paused.   *)
AllServed ==
  /\ time \in Nat
  /\ \A j \in Entries : /\ exec[j] = 0 /\ ready[j] \in Nat /\ Work(ready[j]) \in Int
                        /\ ready[j] + Work(ready[j]) <= time
  /\ Entries = {} => time = 0
  /\ Entries # {} => \E l \in Entries : ready[l] + Work(ready[l]) = time

AllReaped == \A p \in Kids : life[p] = "reaped"

(* FIFO.c has served and reaped everybody when it returns.                 *)
LEMMA FifoDone ==
  ASSUME FP!Steady
  PROVE  /\ Sjf!EndedRanToCompletion
         /\ pc = "done" => /\ AllServed /\ AllReaped
                           /\ Entries # {} /\ \A j \in Entries : burst[j] > 0
<1> USE MainAssumption DEF FP!Self, FP!NoPid
<1>1. FP!ParentInv /\ FP!Pace
  BY DEF FP!Steady, FP!LoopOK
<1>2. FP!Idx = Entries /\ FP!Kids = Kids
  BY DEF FP!Idx, Entries, FP!Kids, Kids
<1>3. Sjf!EndedRanToCompletion
  <2>1. FP!EndedRanToCompletion
    BY <1>1, FP!InvEndedRan
  <2> QED BY <2>1 DEF FP!EndedRanToCompletion, Sjf!EndedRanToCompletion, FP!Idx, Sjf!Idx,
             FP!Child, Sjf!Child
<1>4. ASSUME pc = "done"
      PROVE  /\ AllServed /\ AllReaped
             /\ Entries # {} /\ \A j \in Entries : burst[j] > 0
  <2>1. \A j \in Entries : SumFunctionOnSet(burst, {k \in Entries : ready[k] >= ready[j]})
                             = FP!SumFunctionOnSet(burst, FP!ReadyFrom(j))
    BY Zenon, <1>2 DEF FP!ReadyFrom, FP!SumFunctionOnSet, SumFunctionOnSet,
       FP!FoldFunctionOnSet, FoldFunctionOnSet, FP!MapThenFoldSet, MapThenFoldSet
  <2>2. AllReaped
    BY <1>1, <1>2, <1>4, FP!InvAllReaped DEF FP!DoneMeansAllReaped, AllReaped
  <2> QED BY <1>1, <1>2, <1>4, <2>1, <2>2, FP!PaceDone DEF AllServed, Work
<1> QED BY <1>3, <1>4

(* So has RR.c, ...                                                        *)
LEMMA RrDone ==
  ASSUME RP!Steady
  PROVE  /\ Sjf!EndedRanToCompletion
         /\ pc = "done" => /\ AllServed /\ AllReaped
                           /\ Entries # {} /\ \A j \in Entries : burst[j] > 0
<1> USE MainAssumption DEF RP!Self, RP!NoPid
<1>1. RP!ParentInv /\ RP!Pace
  BY DEF RP!Steady, RP!LoopOK
<1>2. RP!Idx = Entries /\ RP!Kids = Kids
  BY DEF RP!Idx, Entries, RP!Kids, Kids
<1>3. Sjf!EndedRanToCompletion
  <2>1. RP!EndedRanToCompletion
    BY <1>1, RP!InvEndedRan
  <2> QED BY <2>1 DEF RP!EndedRanToCompletion, Sjf!EndedRanToCompletion, RP!Idx, Sjf!Idx,
             RP!Child, Sjf!Child
<1>4. ASSUME pc = "done"
      PROVE  /\ AllServed /\ AllReaped
             /\ Entries # {} /\ \A j \in Entries : burst[j] > 0
  <2>1. \A j \in Entries : SumFunctionOnSet(burst, {k \in Entries : ready[k] >= ready[j]})
                             = RP!SumFunctionOnSet(burst, RP!ReadyFrom(j))
    BY Zenon, <1>2 DEF RP!ReadyFrom, RP!SumFunctionOnSet, SumFunctionOnSet,
       RP!FoldFunctionOnSet, FoldFunctionOnSet, RP!MapThenFoldSet, MapThenFoldSet
  <2>2. AllReaped
    BY <1>1, <1>2, <1>4, RP!InvAllReaped DEF RP!DoneMeansAllReaped, AllReaped
  <2> QED BY <1>1, <1>2, <1>4, <2>1, <2>2, RP!PaceDone DEF AllServed, Work
<1> QED BY <1>3, <1>4

(* ... and so has SJF.c.                                                   *)
LEMMA SjfDone ==
  ASSUME SP!Steady
  PROVE  /\ Sjf!EndedRanToCompletion
         /\ pc = "done" => /\ AllServed /\ AllReaped
                           /\ Entries # {} /\ \A j \in Entries : burst[j] > 0
<1> USE MainAssumption DEF SP!Self, SP!NoPid
<1>1. SP!ParentInv /\ SP!Pace
  BY DEF SP!Steady, SP!LoopOK
<1>2. SP!Idx = Entries /\ SP!Kids = Kids
  BY DEF SP!Idx, Entries, SP!Kids, Kids
<1>3. Sjf!EndedRanToCompletion
  <2>1. SP!EndedRanToCompletion
    BY <1>1, SP!InvEndedRan
  <2> QED BY <2>1 DEF SP!EndedRanToCompletion, Sjf!EndedRanToCompletion, SP!Idx, Sjf!Idx,
             SP!Child, Sjf!Child
<1>4. ASSUME pc = "done"
      PROVE  /\ AllServed /\ AllReaped
             /\ Entries # {} /\ \A j \in Entries : burst[j] > 0
  <2>1. \A j \in Entries : SumFunctionOnSet(burst, {k \in Entries : ready[k] >= ready[j]})
                             = SP!SumFunctionOnSet(burst, SP!ReadyFrom(j))
    BY Zenon, <1>2 DEF SP!ReadyFrom, SP!SumFunctionOnSet, SumFunctionOnSet,
       SP!FoldFunctionOnSet, FoldFunctionOnSet, SP!MapThenFoldSet, MapThenFoldSet
  <2>2. AllReaped
    BY <1>1, <1>2, <1>4, SP!InvAllReaped DEF SP!DoneMeansAllReaped, AllReaped
  <2> QED BY <1>1, <1>2, <1>4, <2>1, <2>2, SP!PaceDone DEF AllServed, Work
<1> QED BY <1>3, <1>4

(* PSJF.c waits for nobody, but it has charged everybody when it returns.  *)
LEMMA PsjfDone ==
  ASSUME PP!Steady, pc = "done"
  PROVE  /\ \A j \in Entries : burst[j] > 0
         /\ Psjf!HeapIsClean => AllServed
<1> USE MainAssumption DEF PP!Kids
<1>1. PP!Idx = Entries
  BY DEF PP!Idx, Entries
<1>2. \A j \in Entries : burst[j] > 0
  BY <1>1, PP!SteadyDone DEF PP!AllHaveUnits
<1>3. \A j \in Entries : SumFunctionOnSet(burst, {k \in Entries : ready[k] >= ready[j]})
                           = PP!SumFunctionOnSet(burst, PP!ReadyFrom(PP!Idx, j))
  BY Zenon, <1>1 DEF PP!ReadyFrom, PP!SumFunctionOnSet, SumFunctionOnSet,
     PP!FoldFunctionOnSet, FoldFunctionOnSet, PP!MapThenFoldSet, MapThenFoldSet
<1>4. ASSUME Psjf!HeapIsClean PROVE AllServed
  <2>1. PP!HeapIsClean
    BY <1>4 DEF PP!HeapIsClean, Psjf!HeapIsClean, PP!Idx, Psjf!Idx
  <2> QED BY <1>1, <1>3, <2>1, PP!SteadyDone DEF AllServed, Work
<1> QED BY <1>2, <1>4

(* When all are served the clock shows the end of a CPU that never paused. *)
LEMMA ServedOnTime ==
  ASSUME AllServed
  PROVE  time = Max({0} \cup {ready[j] + Work(ready[j]) : j \in Entries})
<1> DEFINE ends == {0} \cup {ready[j] + Work(ready[j]) : j \in Entries}
<1>1. time \in ends
  BY DEF AllServed
<1>2. time \in Int /\ \A y \in ends : y \in Int /\ time >= y
  BY DEF AllServed
<1>3. \E x \in ends : \A y \in ends : x >= y
  BY <1>1, <1>2
<1> HIDE DEF ends
<1>4. Max(ends) \in ends /\ \A y \in ends : Max(ends) >= y
  BY <1>3 DEF Max
<1>5. time = Max(ends)
  <2>1. Max(ends) \in Int /\ time >= Max(ends)
    BY <1>2, <1>4
  <2>2. Max(ends) >= time
    BY <1>1, <1>4
  <2> QED BY <1>2, <2>1, <2>2
<1> QED BY <1>5 DEF ends

(* When the loop has come to its end, the invariant of main says how.      *)
LEMMA AtTheEnd ==
  ASSUME MainInv, pc = "done"
  PROVE  /\ policy \in Schedulers
         /\ \A j \in Entries : burst[j] > 0
         /\ policy # "PSJF" => Entries # {} /\ AllReaped
         /\ ~StrayFlag => AllServed
<1>1. policy \in Schedulers /\ InLoop
  BY DEF MainInv
<1>2. CASE policy = "FIFO"
  BY <1>1, <1>2, FifoDone DEF InLoop
<1>3. CASE policy = "RR"
  BY <1>1, <1>3, RrDone DEF InLoop
<1>4. CASE policy = "SJF"
  BY <1>1, <1>4, SjfDone DEF InLoop
<1>5. CASE policy = "PSJF"
  BY <1>1, <1>5, PsjfDone DEF InLoop, StrayFlag
<1> QED BY <1>1, <1>2, <1>3, <1>4, <1>5 DEF Schedulers

(* No entry reported as ended has a live child, and main leaves none but   *)
(* after PSJF or an exit in mid-loop.                                      *)
THEOREM NoneLeft == Spec => []NoneLeftBehind
<1>1. MainInv => NoneLeftBehind
  <2> SUFFICES ASSUME MainInv, policy # "PSJF"
               PROVE  /\ Sjf!EndedRanToCompletion
                      /\ phase = "over" /\ pc # "exited" => \A p \in Kids : ~Alive(p)
    BY DEF NoneLeftBehind
  <2>1. CASE Fresh
    <3>1. Sjf!EndedRanToCompletion
      BY <2>1 DEF Fresh, Sjf!EndedRanToCompletion, Sjf!Idx, Entries
    <3>2. \A p \in Kids : ~Alive(p)
      BY <2>1 DEF Fresh, Kern!KernelInit, Kern!Kids, Kids, Alive
    <3> QED BY <3>1, <3>2
  <2>2. CASE policy \in Schedulers /\ InLoop
    <3>1. Sjf!EndedRanToCompletion
      BY <2>2, FifoDone, RrDone, SjfDone DEF InLoop, Schedulers
    <3>2. pc = "done" => \A p \in Kids : ~Alive(p)
      BY AtTheEnd DEF AllReaped, Alive
    <3>3. phase = "over" /\ pc # "exited" => Fresh \/ pc = "done"
      BY DEF MainInv
    <3> QED BY <2>1, <3>1, <3>2, <3>3
  <2> QED BY <2>1, <2>2 DEF MainInv
<1> QED BY MainAlways, <1>1, PTL

(* Where the inputs or failing forks leave somebody unreported, the loop   *)
(* of no scheduler comes to its end: they count all entries of the table.  *)
THEOREM NeverReturns == Spec => []EndlessNeverReturns
<1>1. MainInv => EndlessNeverReturns
  <2> SUFFICES ASSUME MainInv, pc = "done", Endless PROVE FALSE
    BY DEF EndlessNeverReturns
  <2>1. policy \in Schedulers /\ (policy # "PSJF" => Entries # {} /\ AllReaped)
    BY AtTheEnd
  <2>2. \A j \in Entries : ~(burst[j] = 0)
    BY AtTheEnd
  <2>3. Entries # {} => N # 0
    BY DEF Entries
  <2> QED BY <2>1, <2>2, <2>3 DEF Endless, AllReaped
<1> QED BY MainAlways, <1>1, PTL

(* The policy decides the order, not the end: unless PSJF finds stray flags*)
(* all four return when a CPU that never rests while somebody is ready     *)
(* would be done, with every entry charged exactly its units.              *)
THEOREM ReturnsInTime == Spec => []ReturnsOnTime
<1>1. MainInv => ReturnsOnTime
  <2> SUFFICES ASSUME MainInv, pc = "done", ~StrayFlag PROVE ReturnsOnTime
    BY DEF ReturnsOnTime
  <2>1. AllServed
    BY AtTheEnd
  <2> QED BY <2>1, ServedOnTime DEF ReturnsOnTime, Work, AllServed
<1> QED BY MainAlways, <1>1, PTL

=============================================================================
