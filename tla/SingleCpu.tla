------------------------------ MODULE SingleCpu -----------------------------
(***************************************************************************)
(* What every policy of the program promises, without processes, policies  *)
(* of the kernel or system calls: an ideal schedule of one CPU, as in the  *)
(* tables of the README.  Jobs arrive at their ready time, one job is in   *)
(* service, each time unit is charged to it, and the CPU idles only when   *)
(* no job waits.  A job whose process could not be created is lost.        *)
(***************************************************************************)
EXTENDS Integers

CONSTANT N

Job == 0 .. N-1

VARIABLES
  ready,    \* arrival time of each job
  need,     \* time units each job still needs
  clock,
  arrived,  \* the jobs that have arrived
  lost,     \* the jobs that never will
  cur       \* the job in service, or -1

ideal == <<ready, need, clock, arrived, lost, cur>>

Waiting == {j \in arrived : need[j] > 0}

(* Whoever is due has been dealt with. *)
Settled == \A j \in Job : ready[j] <= clock => j \in arrived \cup lost

Init ==
  /\ ready \in [Job -> Nat] /\ need \in [Job -> Nat]
  /\ clock = 0 /\ arrived = {} /\ lost = {} /\ cur = -1

Arrive(j) ==
  /\ ready[j] = clock /\ j \notin arrived \cup lost
  /\ \/ arrived' = arrived \cup {j} /\ lost' = lost
     \/ lost' = lost \cup {j} /\ arrived' = arrived
  /\ UNCHANGED <<ready, need, clock, cur>>

Start(j) ==
  /\ Settled /\ j \in Waiting /\ j # cur
  /\ cur' = j
  /\ UNCHANGED <<ready, need, clock, arrived, lost>>

Serve ==
  /\ Settled /\ cur \in Waiting
  /\ need'  = [need EXCEPT ![cur] = @ - 1]
  /\ clock' = clock + 1
  /\ UNCHANGED <<ready, arrived, lost, cur>>

Complete ==
  /\ cur # -1 /\ need[cur] = 0
  /\ cur' = -1
  /\ UNCHANGED <<ready, need, clock, arrived, lost>>

Idle ==
  /\ Settled /\ cur = -1 /\ Waiting = {}
  /\ clock' = clock + 1
  /\ UNCHANGED <<ready, need, arrived, lost, cur>>

-----------------------------------------------------------------------------
(* First come, first served, without preemption. *)

Earliest(j) == cur = -1 /\ \A k \in Waiting : ready[j] <= ready[k]

FifoNext ==
  \/ \E j \in Job : Arrive(j) \/ (Earliest(j) /\ Start(j))
  \/ Serve \/ Complete \/ Idle

(* The schedule goes on until every job has arrived and been served. *)
FifoFairness ==
  /\ WF_ideal(\E j \in Job : Arrive(j))
  /\ WF_ideal(\E j \in Job : Earliest(j) /\ Start(j))
  /\ WF_ideal(Serve) /\ WF_ideal(Complete)
  /\ WF_ideal(Idle /\ arrived \cup lost # Job)

FifoSafety == Init /\ [][FifoNext]_ideal
FifoSpec   == FifoSafety /\ FifoFairness

-----------------------------------------------------------------------------
(* Shortest job first, without preemption; equal jobs in order of arrival. *)

Shortest(j) ==
  cur = -1 /\ \A k \in Waiting : \/ need[j] < need[k]
                                 \/ need[j] = need[k] /\ ready[j] <= ready[k]

SjfNext ==
  \/ \E j \in Job : Arrive(j) \/ (Shortest(j) /\ Start(j))
  \/ Serve \/ Complete \/ Idle

SjfSafety == Init /\ [][SjfNext]_ideal

-----------------------------------------------------------------------------
(* Preemptive shortest job first: every unit goes to a job of least need.  *)

ServeShortest(j) ==
  /\ Settled /\ j \in Waiting
  /\ \A k \in Waiting : need[j] <= need[k]
  /\ need'  = [need EXCEPT ![j] = @ - 1]
  /\ clock' = clock + 1
  /\ UNCHANGED <<ready, arrived, lost, cur>>

PsjfNext == (\E j \in Job : Arrive(j) \/ ServeShortest(j)) \/ Idle

PsjfSafety == Init /\ [][PsjfNext]_ideal

=============================================================================
