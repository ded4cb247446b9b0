---------------------------- MODULE Kernel_proofs ---------------------------
(***************************************************************************)
(* What the system calls of Kernel and the steps of a child leave as it    *)
(* is: lemmas for the proofs of all four schedulers.                       *)
(***************************************************************************)
EXTENDS Kernel, TLAPS

-----------------------------------------------------------------------------
(* The types of the system calls. *)

(* Index j and child j+1 go together.                                      *)
LEMMA ChildOfIndex ==
  /\ Idx \subseteq Nat /\ -1 \notin Idx
  /\ \A j \in Idx : Child(j) \in Kids
  /\ \A j, k \in Idx : Child(j) = Child(k) => j = k
  /\ \A p \in Kids : \E j \in Idx : p = Child(j)
  /\ Self \notin Kids /\ NoPid \notin Kids /\ NoPid # Self
BY KernelAssumption DEF Idx, Child, Kids, Self, NoPid

(* sched_setscheduler leaves every process with a class.                   *)
LEMMA ReclassType ==
  ASSUME KernelTypeOK, NEW p, NEW c \in Class
  PROVE  Reclass(p, c) \in [Kids \cup {Self} -> Class]
BY DEF KernelTypeOK, Reclass, Exists

(* fork makes one child alive and leaves the others as they are.           *)
LEMMA ForkType ==
  ASSUME KernelTypeOK, NEW p \in Kids, NEW units \in Nat, Fork(p, units)
  PROVE  KernelTypeOK'
<1>1. class[Self] \in Class
  BY DEF KernelTypeOK
<1> QED BY <1>1 DEF KernelTypeOK, Fork, Lives

(* waitpid at most reaps a zombie.                                         *)
LEMMA WaitpidType ==
  ASSUME KernelTypeOK, NEW p, Waitpid(p)
  PROVE  life' \in [Kids -> Lives]
BY DEF KernelTypeOK, Waitpid, Lives

(* A child burns its own units, and exits.                                 *)
LEMMA ChildStepType ==
  ASSUME KernelTypeOK, NEW p \in Kids, ChildStep(p)
  PROVE  KernelTypeOK'
<1>1. CASE ChildUnit(p)
  BY <1>1 DEF KernelTypeOK, ChildUnit
<1>2. CASE ChildExit(p)
  BY <1>2 DEF KernelTypeOK, ChildExit, Lives
<1> QED BY <1>1, <1>2 DEF ChildStep
=============================================================================
