------------------------------ MODULE MCConsole ------------------------------
(* Three processes; printf over all that its flags, widths and precisions can     *)
(* say together about a few values at the ends of their types, with a buffer of  *)
(* six digits.                                                                  *)
EXTENDS Console

CONSTANTS P1, P2, P3

MCPid(p) == CASE p = P1 -> "0" [] p = P2 -> "1" [] p = P3 -> "2"

MCFlags == {<<>>, <<"0">>, <<"-">>, <<"0", "-">>}
MCSigns == {<<>>, <<"+">>, <<" ">>, <<" ", "+">>}
MCMarks == {<<>>, <<"#">>}
MCWidths == {None, 1, 2, 3, 5, 8}
MCPrecs == {None, 0, 1, 3, 7}

Numbers(conv, marks, values) ==
  {[flags |-> f \o m, width |-> w, star |-> FALSE, prec |-> p, pstar |-> FALSE, len |-> <<>>,
    conv |-> conv, arg |-> v] :
     f \in MCFlags, m \in marks, w \in MCWidths, p \in MCPrecs, v \in values}

(* One integer of each length, with and without sign. *)
Lengths ==
  {[flags |-> <<>>, width |-> 4, star |-> FALSE, prec |-> None, pstar |-> FALSE, len |-> l,
    conv |-> c, arg |-> v] :
     l \in {<<>>, <<"h">>, <<"h", "h">>, <<"l">>, <<"l", "l">>, <<"z">>, <<"j">>, <<"t">>},
     c \in {"d", "u", "x", "b"}, v \in {-1, 4, 8, 15, 16, 40, 128, 255}}

(* Precision and width as arguments, on both sides of 0.                        *)
Stars ==
  {[flags |-> f \o m, width |-> w, star |-> FALSE, prec |-> p, pstar |-> TRUE, len |-> <<>>,
    conv |-> c, arg |-> v] :
     f \in MCFlags, m \in MCMarks, w \in {None, 4}, p \in {None, -2, 0, 3},
     c \in {"i", "x", "o"}, v \in {-1, 0, 5}}
  \cup
  {[flags |-> f, width |-> w, star |-> TRUE, prec |-> p, pstar |-> p # 2, len |-> <<>>,
    conv |-> "i", arg |-> 5] : f \in MCFlags, w \in {-3, 0, 3}, p \in {None, -1, 1, 2}}

Word(f, w, p, pstar, c, v) ==
  [flags |-> f, width |-> w, star |-> FALSE, prec |-> p, pstar |-> pstar, len |-> <<>>,
   conv |-> c, arg |-> v]

Words ==
  {Word(f, w, p, pstar, "s", s) :
     f \in {<<>>, <<"-">>}, w \in {None, 2, 4}, p \in {None, 0, 1, 2, 4}, pstar \in BOOLEAN,
     s \in {<<>>, <<"a">>, <<"a", "b", "c">>}}
  \cup {Word(f, w, -1, TRUE, "s", s) :
          f \in {<<>>, <<"-">>}, w \in {None, 4}, s \in {<<>>, <<"a">>, <<"a", "b", "c">>}}
  \cup {Word(f, w, None, FALSE, "c", c) :
          f \in {<<>>, <<"-">>}, w \in {None, 1, 3}, c \in {"a", Nul}}
  \cup {Conversion(c, 200) : c \in {"p", "%"}}

MCDirectives ==
  Numbers("d", MCSigns, {0, 5, -16}) \cup Numbers("u", {<<>>}, {0, 31})
  \cup Numbers("x", MCMarks, {0, 5, 31}) \cup Numbers("X", MCMarks, {26})
  \cup Numbers("o", MCMarks, {0, 5, 31}) \cup Numbers("b", MCMarks, {0, 5, 31})
  \cup Lengths \cup Stars \cup Words

MCLogCalls == {[level |-> INFO, call |-> <<d>>] : d \in MCDirectives}
                \cup {[level |-> DEBUG, call |-> <<Plain("a")>>]}

MCUserCalls == {<<Plain("a")>>, <<Plain(Newline), Conversion("d", 7), Plain(Newline)>>}

MCCharacter == STRING

MCStale == {<<"?", "?", "?", "?", "?", "?">>}
==============================================================================
