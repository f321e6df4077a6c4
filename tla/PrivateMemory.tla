--------------------------- MODULE PrivateMemory ---------------------------
(***************************************************************************)
(* What programs are promised of their memory, with no word about frames   *)
(* and tables: the first process finds its program loaded, a fork gives    *)
(* the child a copy of what the program and its stack ask for, and what    *)
(* one process stores is seen by that process only.                        *)
(*                                                                         *)
(* Behind what a program asks for there are words that it can use all the  *)
(* same, up to the end of a page. Nothing was promised of those: a fork    *)
(* does not copy them, and the child finds zeros.                          *)
(***************************************************************************)
EXTENDS Integers

CONSTANTS
  Processes,
  Programs,        (* the program files                                    *)
  Loaded(_),       (* what a program file asks for: address -> word        *)
  Spare(_),        (* the words behind it that can be used                 *)
  StackAddresses   (* where the stack of the first process is              *)

VARIABLES
  memory,    (* what processes see: <<process, address, word>>             *)
  spare      (* the spare words of the program that was loaded             *)

vars == <<memory, spare>>

Init == memory = {} /\ spare = {}

Existing == {t[1] : t \in memory}

(* What the stack holds at first is left open. *)
Load ==
  /\ memory = {}
  /\ \E p \in Processes, program \in Programs :
       /\ {<<p, a, Loaded(program)[a]>> : a \in DOMAIN Loaded(program)} \subseteq memory'
       /\ {<<p, a, 0>> : a \in Spare(program)} \subseteq memory'
       /\ {<<t[1], t[2]>> : t \in memory'}
            = {p} \X (DOMAIN Loaded(program) \cup Spare(program) \cup StackAddresses)
       /\ spare' = Spare(program)

Fork ==
  /\ \E child \in Existing' \ Existing, p \in Existing :
       memory' = memory \cup {<<child, t[2], IF t[2] \in spare THEN 0 ELSE t[3]>> :
                                t \in {u \in memory : u[1] = p}}
  /\ UNCHANGED spare

(* One word of one process changes. *)
Store ==
  /\ \E old \in memory \ memory', new \in memory' \ memory :
       /\ old[1] = new[1] /\ old[2] = new[2]
       /\ memory' = (memory \ {old}) \cup {new}
  /\ UNCHANGED spare

Next == Load \/ Store \/ Fork

Spec == Init /\ [][Next]_vars
=============================================================================
