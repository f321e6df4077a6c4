-------------------------- MODULE MCAddressSpace --------------------------
(* Program files for AddressSpace: pages of six words, so a segment of 23   *)
(* words has four pages, and one word of the last is not the program's.     *)
EXTENDS AddressSpace

File(n) == [k \in 1 .. n |-> k]
Segment(page, memsz, filesz, off) ==
  [vaddr |-> page * PGSIZE, memsz |-> memsz, filesz |-> filesz, off |-> off]

(* Files of eight pages, the size at which execve's stack is all right, and *)
(* one that is larger than any block. Both programs end at the same word.   *)
MCImages ==
  {[words |-> File(45), segments |-> <<Segment(2, 23, 14, 4)>>],
   [words |-> File(48), segments |-> <<Segment(1, 24, 24, 3), Segment(5, 5, 2, 40)>>],
   [words |-> File(200), segments |-> <<Segment(1, 6, 6, 2)>>]}

(* One of a page and a half. *)
MCShortImage == {[words |-> File(9), segments |-> <<Segment(1, 7, 6, 2)>>]}

(* The last word of a program, the one behind it, and the end of the stack. *)
MCStoreAddresses == {5 * PGSIZE + 4, 5 * PGSIZE + 5, StackTop - 1}
MCValues == {33}
=============================================================================
