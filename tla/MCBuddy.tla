------------------------------ MODULE MCBuddy ------------------------------
(* Eight pages: two chunks of order 2, so that blocks of three orders occur, *)
(* every split can go through one or two levels, a merge can cascade, and    *)
(* memory runs out within a few calls.                                       *)
EXTENDS Buddy

MCSpan == [k \in 0 .. MaxOrder |-> 2 ^ k]

(* One page, two pages (after rounding up), the largest block, one byte more. *)
MCSizes == {1, 3, 8, 9}
=============================================================================
