--------------------------- MODULE PageAllocator ---------------------------
(***************************************************************************)
(* What kalloc and kfree promise to the rest of the kernel, with no word   *)
(* about how: a caller asks for a number of bytes and is given a block of  *)
(* consecutive pages that is large enough and that nobody else holds; a    *)
(* request that cannot be served stops the kernel, it never returns.       *)
(*                                                                         *)
(* The kernel is not preempted while it allocates, so there is at most one *)
(* request under way.                                                      *)
(***************************************************************************)
EXTENDS Integers

CONSTANTS
  NPages,     (* pages under management                                    *)
  PageSize,   (* bytes in a page                                           *)
  Sizes       (* the sizes callers ask for, in bytes                       *)

VARIABLES
  held,       (* the blocks handed out: <<first page, number of pages>>    *)
  asked,      (* the size being asked for, or NoRequest                    *)
  halted      (* the kernel has panicked                                   *)

vars == <<held, asked, halted>>

NoRequest == -1

Pages == 0 .. NPages - 1

Disjoint(a, b) == a[1] + a[2] <= b[1] \/ b[1] + b[2] <= a[1]

Init == held = {} /\ asked = NoRequest /\ halted = FALSE

Ask(s) ==
  /\ ~halted
  /\ asked = NoRequest
  /\ asked' = s
  /\ UNCHANGED <<held, halted>>

(* The answer is a block inside memory, large enough, that overlaps nothing *)
(* handed out before.                                                       *)
Grant ==
  /\ ~halted
  /\ asked # NoRequest
  /\ \E first \in Pages, count \in 1 .. NPages :
       /\ first + count <= NPages
       /\ count * PageSize >= asked
       /\ \A b \in held : Disjoint(<<first, count>>, b)
       /\ held' = held \cup {<<first, count>>}
  /\ asked' = NoRequest
  /\ UNCHANGED halted

(* No answer: the caller never gets control back. *)
Halt ==
  /\ ~halted
  /\ asked # NoRequest
  /\ halted' = TRUE
  /\ asked' = NoRequest
  /\ UNCHANGED held

Release(b) ==
  /\ ~halted
  /\ asked = NoRequest
  /\ held' = held \ {b}
  /\ UNCHANGED <<asked, halted>>

Next ==
  \/ \E s \in Sizes : Ask(s)
  \/ Grant
  \/ Halt
  \/ \E b \in held : Release(b)

SafetySpec == Init /\ [][Next]_vars

(* Every request is answered or stops the kernel. *)
Spec == SafetySpec /\ WF_vars(Grant \/ Halt)
=============================================================================
