----------------------------- MODULE Processes -----------------------------
(***************************************************************************)
(* What user programs may rely on: each process is a machine of its own,    *)
(* with its registers and its memory, that only its own instructions and    *)
(* its own system calls change. When it runs, on how many ticks, and who    *)
(* ran before it, cannot be seen from inside.                               *)
(***************************************************************************)
EXTENDS Integers

CONSTANTS
  Pids,      (* process numbers                                            *)
  Values,    (* what a register or a memory cell can be made to hold       *)
  PcMod      (* length of the program, in instructions; it loops           *)

VARIABLES
  machine,   (* machine[p]: registers and memory of each live process p    *)
  stopped    (* the kernel has panicked: nobody runs again                  *)

vars == <<machine, stopped>>

Alive == DOMAIN machine

Init ==
  /\ machine = [p \in {} |-> 0]
  /\ stopped = FALSE

(* The first process is made from an executable, with cleared registers. *)
Start ==
  /\ ~stopped
  /\ Alive = {}
  /\ \E p \in Pids : machine' = [q \in {p} |-> [sepc |-> 0, a0 |-> 0, mem |-> 0]]
  /\ UNCHANGED stopped

(* Process p past its present instruction, with a in the register and m in      *)
(* memory.                                                                      *)
Past(p, a, m) == [sepc |-> (machine[p].sepc + 1) % PcMod, a0 |-> a, mem |-> m]

Becomes(p, a, m) ==
  /\ ~stopped
  /\ machine' = [machine EXCEPT ![p] = Past(p, a, m)]
  /\ UNCHANGED stopped

(* One instruction that sets a register or stores to memory. *)
Compute(p) == \E v \in Values : Becomes(p, v, machine[p].mem)
StoreMem(p) == \E v \in Values : Becomes(p, machine[p].a0, v)

Getpid(p) == Becomes(p, p, machine[p].mem)

(* The result of write is not delivered: only the program counter moves. *)
Write(p) == Becomes(p, machine[p].a0, machine[p].mem)

(* fork: the child is a copy that sees 0, under a number nobody has; the      *)
(* parent sees that number.                                                   *)
Fork(p) ==
  /\ ~stopped
  /\ \E c \in Pids \ Alive :
       machine' = [q \in Alive \cup {c} |->
         CASE q = p -> Past(p, c, machine[p].mem)
           [] q = c -> Past(p, 0, machine[p].mem)
           [] OTHER -> machine[q]]
  /\ UNCHANGED stopped

Stop ==
  /\ ~stopped
  /\ stopped' = TRUE
  /\ machine' = [p \in {} |-> 0]

Next ==
  \/ Start
  \/ \E p \in Alive : Compute(p) \/ StoreMem(p) \/ Getpid(p) \/ Write(p) \/ Fork(p)
  \/ Stop

Spec == Init /\ [][Next]_vars
=============================================================================
