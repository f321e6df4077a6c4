--------------------------- MODULE MCFatDirectory ---------------------------
(* A root directory of twelve slots with what a host may have left there: a  *)
(* volume label, a short name alone, two deleted entries in a row, a long    *)
(* name of two entries, and one that is not ASCII.                           *)
EXTENDS FatDirectory

(* "ab.tx" and "ab.nx" have one short name but for the number; "longer" takes *)
(* two long entries.                                                          *)
ab1 == <<97, 98, 46, 116, 120>>
ab2 == <<97, 98, 46, 110, 120>>
longer == <<108, 111, 110, 103, 101, 114>>

(* "IDLE", "LONGER~1", and "E~1.TXT" with the long name of the one character  *)
(* 233. The numbers at the end of long entries are the checksums of the last  *)
(* two.                                                                       *)
IdleShort == <<73, 68, 76, 69, 32, 32, 32, 32, 32, 32, 32>>
LongerShort == <<76, 79, 78, 71, 69, 82, 126, 49, 32, 32, 32>>
EShort == <<69, 126, 49, 32, 32, 32, 32, 32, 84, 88, 84>>

MCHostRoot ==
  <<VolumeId, Short(IdleShort, FALSE, 0), Deleted, Deleted,
    Long(2, TRUE, <<>>, 52), Long(1, FALSE, longer, 52), Short(LongerShort, FALSE, 0),
    Long(1, TRUE, <<233>>, 158), Short(EShort, FALSE, 0), Empty, Empty, Empty>>

MCNewNames == {ab1, ab2, longer}

(* "AB~1.X" is the short name of one of them, "idle" a file of the host.      *)
MCOtherNames == {<<65, 66, Tilde, 49, 46, 88>>, <<105, 100, 108, 101>>}
=============================================================================
