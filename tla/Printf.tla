------------------------------- MODULE Printf -------------------------------
(***************************************************************************)
(* The printf of the kernel and, but for _putchar, of its programs:         *)
(* printf.c without the floating-point conversions. A format is a sequence  *)
(* of directives, each with the argument it takes; FormatOf is its text, which  *)
(* the code reads character by character. What a directive puts out is a    *)
(* sequence of characters; where they go is up to the caller.               *)
(*                                                                          *)
(* A directive is a record: its flags in the order they are written, width  *)
(* and prec (None if there is none), star and pstar if these are arguments,   *)
(* the length modifier, the conversion and the argument. A character that is  *)
(* not part of one is a directive as well, with no conversion.              *)
(***************************************************************************)
EXTENDS Integers, Sequences, FiniteSets, SequencesExt

CONSTANTS
  NtoaSize,    (* PRINTF_NTOA_BUFFER_SIZE: 32                               *)
  CharBits, ShortBits, IntBits, LongBits   (* 8, 16, 32 and 64 *)

ASSUME PrintfAssumption ==
  /\ NtoaSize \in Nat \ {0}
  /\ 0 < CharBits /\ CharBits < ShortBits /\ ShortBits < IntBits /\ IntBits <= LongBits
  /\ LongBits % 4 = 0

None == -1000
Nul == ""

DigitChars == <<"0", "1", "2", "3", "4", "5", "6", "7", "8", "9",
                "a", "b", "c", "d", "e", "f">>
BigDigitChars == <<"0", "1", "2", "3", "4", "5", "6", "7", "8", "9",
                   "A", "B", "C", "D", "E", "F">>
Decimals == {DigitChars[i] : i \in 1 .. 10}
FlagChars == {"0", "-", "+", " ", "#"}

Repeat(c, n) == [i \in 1 .. n |-> c]

-----------------------------------------------------------------------------
(* The text of a directive. *)

(* A conversion, and a character that stands for itself. *)
Conversion(conv, arg) == [flags |-> <<>>, width |-> None, star |-> FALSE, prec |-> None,
                          pstar |-> FALSE, len |-> <<>>, conv |-> conv, arg |-> arg]
Literal == ""
Plain(c) == Conversion(Literal, c)

Number(n) ==
  IF n < 10 THEN <<DigitChars[n + 1]>>
  ELSE <<DigitChars[(n \div 10) + 1], DigitChars[(n % 10) + 1]>>

FormatOf(d) ==
  IF d.conv = Literal THEN <<d.arg>>
  ELSE <<"%">> \o d.flags
       \o (IF d.star THEN <<"*">> ELSE IF d.width = None THEN <<>> ELSE Number(d.width))
       \o (IF d.prec = None THEN <<>>
           ELSE <<".">> \o (IF d.pstar THEN <<"*">> ELSE Number(d.prec)))
       \o d.len \o <<d.conv>>

-----------------------------------------------------------------------------
(* Reading it: flags, width, precision, length, specifier. *)

Char(s, i) == IF i <= Len(s) THEN s[i] ELSE Nul

(* Where a run of characters of a set ends that begins at i. *)
After(s, i, set) ==
  CHOOSE j \in i .. Len(s) + 1 :
    Char(s, j) \notin set /\ \A k \in i .. j - 1 : s[k] \in set

(* _atoi *)
Atoi(s) == FoldLeft(LAMBDA n, c : 10 * n + (CHOOSE v \in 0 .. 9 : DigitChars[v + 1] = c), 0, s)

(* The flags have the names of their characters; "." is FLAGS_PRECISION, and  *)
(* "l", "h" and "hh" are FLAGS_LONG, FLAGS_SHORT and FLAGS_CHAR. FLAGS_LONG_  *)
(* LONG makes no difference where long long is as wide as long. A negative    *)
(* width is one to the left, a negative precision is 0 and one all the same.  *)
Parse(d) ==
  LET s == FormatOf(d)
      w == After(s, 2, FlagChars)
      p == IF Char(s, w) = "*" THEN w + 1 ELSE After(s, w, Decimals)
      l == IF Char(s, p) # "." THEN p
           ELSE IF Char(s, p + 1) = "*" THEN p + 2 ELSE After(s, p + 1, Decimals)
      c == After(s, l, {"l", "h", "t", "j", "z"})
      width == IF Char(s, w) = "*" THEN d.width ELSE Atoi(SubSeq(s, w, p - 1))
  IN  [flags |-> {s[k] : k \in 2 .. w - 1}
                   \cup (IF width < 0 THEN {"-"} ELSE {})
                   \cup (IF l > p THEN {"."} ELSE {})
                   \cup (IF Char(s, l) \in {"l", "t", "j", "z"} THEN {"l"} ELSE {})
                   \cup (IF Char(s, l) = "h" THEN {"h"} ELSE {})
                   \cup (IF c = l + 2 /\ Char(s, l) = "h" THEN {"hh"} ELSE {}),
       width |-> IF width < 0 THEN -width ELSE width,
       prec |-> IF l > p /\ Char(s, p + 1) = "*" THEN Max({d.prec, 0})
                ELSE Atoi(SubSeq(s, p + 1, l - 1)),
       conv |-> Char(s, c)]

-----------------------------------------------------------------------------
(* Integers *)

(* _out_rev: buf has its last character first. *)
OutRev(buf, width, flags) ==
  LET spaces == Repeat(" ", IF width > Len(buf) THEN width - Len(buf) ELSE 0)
  IN  (IF flags \cap {"-", "0"} = {} THEN spaces ELSE <<>>)
        \o Reverse(buf)
        \o (IF "-" \in flags THEN spaces ELSE <<>>)

(* Writing to the buffer of NtoaSize characters. *)
Put(buf, c) == IF Len(buf) < NtoaSize THEN Append(buf, c) ELSE buf
ZerosTo(buf, n) == buf \o Repeat("0", Max({0, Min({n, NtoaSize}) - Len(buf)}))

(* The width that zeros fill: the sign has a place of its own.                 *)
ZeroWidth_SignForgotten(negative, width, flags) == width

ZeroWidth(negative, width, flags) ==
  IF "0" \in flags /\ "-" \notin flags /\ width > 0
     /\ (negative \/ flags \cap {"+", " "} # {})
  THEN width - 1 ELSE width

(* _ntoa_format: zeros, "0x" over two of them if they fill the width, and the  *)
(* sign.                                                                      *)
NtoaFormat(digits, negative, base, prec, width, flags) ==
  LET w == ZeroWidth(negative, width, flags)
      zeros == IF "-" \in flags THEN digits
               ELSE ZerosTo(ZerosTo(digits, prec), IF "0" \in flags THEN w ELSE 0)
      over == IF "." \in flags \/ zeros = <<>> \/ Len(zeros) # w THEN 0
              ELSE IF base = 16 /\ Len(zeros) > 1 THEN 2 ELSE 1
      kept == SubSeq(zeros, 1, Len(zeros) - over)
      marked == IF base = 16 THEN Put(kept, IF "upper" \in flags THEN "X" ELSE "x")
                ELSE IF base = 2 THEN Put(kept, "b")
                ELSE kept
      hashed == IF "#" \in flags THEN Put(marked, "0") ELSE zeros
      signed == IF negative THEN Put(hashed, "-")
                ELSE IF "+" \in flags THEN Put(hashed, "+")
                ELSE IF " " \in flags THEN Put(hashed, " ")
                ELSE hashed
  IN  OutRev(signed, w, flags)

(* The digits of a number, the last one first, and how many it has.           *)
DigitsOf(value, base, count, chars) ==
  [i \in 1 .. count |-> chars[((value \div base ^ (i - 1)) % base) + 1]]
CountOf(value, base) == CHOOSE n \in 1 .. LongBits : base ^ n > value
                                                     /\ \A m \in 1 .. n - 1 : base ^ m <= value

(* _ntoa_long and _ntoa_long_long: a 0 with a precision has no digits, and no  *)
(* 0 has a mark.                                                              *)
Ntoa(value, negative, base, prec, width, flags) ==
  LET count == IF "." \in flags /\ value = 0 THEN 0
               ELSE Min({CountOf(value, base), NtoaSize})
      chars == IF "upper" \in flags THEN BigDigitChars ELSE DigitChars
  IN  NtoaFormat(DigitsOf(value, base, count, chars), negative, base, prec, width,
                 IF value = 0 THEN flags \ {"#"} ELSE flags)

Unsigned(v, bits) == v % (2 ^ bits)
Signed(v, bits) == IF Unsigned(v, bits) >= 2 ^ (bits - 1) THEN Unsigned(v, bits) - 2 ^ bits
                   ELSE Unsigned(v, bits)

(* The cases d, i, u, x, X, o and b. A char has no sign on this machine.       *)
IntegerText(d, s) ==
  LET base == IF s.conv \in {"x", "X"} THEN 16 ELSE IF s.conv = "o" THEN 8
              ELSE IF s.conv = "b" THEN 2 ELSE 10
      flags == (s.flags \cup (IF s.conv = "X" THEN {"upper"} ELSE {}))
                 \ ((IF base = 10 THEN {"#"} ELSE {})
                      \cup (IF s.conv \in {"i", "d"} THEN {} ELSE {"+", " "})
                      \cup (IF "." \in s.flags THEN {"0"} ELSE {}))
      bits == IF "l" \in flags THEN LongBits ELSE IF "hh" \in flags THEN CharBits
              ELSE IF "h" \in flags THEN ShortBits ELSE IntBits
      value == IF s.conv \notin {"i", "d"} \/ "hh" \in flags THEN Unsigned(d.arg, bits)
               ELSE Signed(d.arg, bits)
  IN  Ntoa(IF value > 0 THEN value ELSE 0 - value, value < 0, base, s.prec, s.width, flags)

-----------------------------------------------------------------------------
(* The other conversions, and all of them. *)

(* In spaces to its width, as case c and case s do it. *)
Spaced(text, s) ==
  LET spaces == Repeat(" ", Max({0, s.width - Len(text)}))
  IN  IF "-" \in s.flags THEN text \o spaces ELSE spaces \o text

StringText(d, s) ==
  Spaced(IF "." \in s.flags THEN SubSeq(d.arg, 1, Min({s.prec, Len(d.arg)})) ELSE d.arg, s)

(* case p: all the digits of an address. *)
PointerText(d, s) ==
  Ntoa(Unsigned(d.arg, LongBits), FALSE, 16, s.prec, LongBits \div 4, s.flags \cup {"0", "upper"})

(* One turn of _vsnprintf's loop. *)
Text(d) ==
  LET s == Parse(d)
  IN  IF FormatOf(d)[1] # "%" THEN FormatOf(d)
      ELSE IF s.conv \in {"d", "i", "u", "x", "X", "o", "b"} THEN IntegerText(d, s)
      ELSE IF s.conv = "c" THEN Spaced(<<d.arg>>, s)
      ELSE IF s.conv = "s" THEN StringText(d, s)
      ELSE IF s.conv = "p" THEN PointerText(d, s)
      ELSE <<s.conv>>

(* What reaches _putchar: _out_char keeps the zero characters back. *)
TextOf(call) == SelectSeq(FlattenSeq([i \in DOMAIN call |-> Text(call[i])]),
                          LAMBDA c : c # Nul)

-----------------------------------------------------------------------------
(* What C asks of the same directives (and, of "b", what its last edition     *)
(* does): the digits, zeros to the precision, the sign or the mark, and the    *)
(* width.                                                                     *)

BaseOf(conv) == CASE conv \in {"x", "X"} -> 16 [] conv = "o" -> 8 [] conv = "b" -> 2
                  [] conv \in {"d", "i", "u"} -> 10
BitsOf(len) == IF len = <<>> THEN IntBits ELSE IF len = <<"h">> THEN ShortBits
               ELSE IF len = <<"h", "h">> THEN CharBits ELSE LongBits
ValueOf(d) == IF d.conv \in {"d", "i"} THEN Signed(d.arg, BitsOf(d.len))
              ELSE Unsigned(d.arg, BitsOf(d.len))
FlagsOf(d) == Range(d.flags) \cup (IF d.width # None /\ d.width < 0 THEN {"-"} ELSE {})
WidthOf(d) == IF d.width = None THEN 0 ELSE IF d.width < 0 THEN -d.width ELSE d.width
PrecOf(d) == IF d.prec < 0 THEN None ELSE d.prec

(* The magnitude, in as many digits as the precision asks for. *)
Magnitude(d) ==
  LET value == IF ValueOf(d) < 0 THEN -ValueOf(d) ELSE ValueOf(d)
      base == BaseOf(d.conv)
      count == IF value = 0 THEN 0 ELSE CountOf(value, base)
      least == IF PrecOf(d) = None THEN 1 ELSE PrecOf(d)
      octal == IF base = 8 /\ "#" \in FlagsOf(d) /\ least <= count THEN count + 1 ELSE 0
  IN  Reverse(DigitsOf(value, base, Max({count, least, octal}),
                       IF d.conv = "X" THEN BigDigitChars ELSE DigitChars))

Mark(d) ==
  IF d.conv \in {"d", "i"} THEN IF ValueOf(d) < 0 THEN <<"-">>
                                ELSE IF "+" \in FlagsOf(d) THEN <<"+">>
                                ELSE IF " " \in FlagsOf(d) THEN <<" ">> ELSE <<>>
  ELSE IF d.conv \in {"x", "X", "b"} /\ "#" \in FlagsOf(d) /\ ValueOf(d) # 0
       THEN <<"0", d.conv>> ELSE <<>>

(* The zeros of the "0" flag. *)
ZeroFill(d) == IF "0" \in FlagsOf(d) /\ "-" \notin FlagsOf(d) /\ PrecOf(d) = None
               THEN Max({0, WidthOf(d) - Len(Mark(d)) - Len(Magnitude(d))}) ELSE 0

Filled(text, d) ==
  LET spaces == Repeat(" ", Max({0, WidthOf(d) - Len(text)}))
  IN  IF "-" \in FlagsOf(d) THEN text \o spaces ELSE spaces \o text

IntegerConvs == {"d", "i", "u", "x", "X", "o", "b"}

Meaning(d) ==
  IF d.conv \in IntegerConvs
  THEN Filled(Mark(d) \o Repeat("0", ZeroFill(d)) \o Magnitude(d), d)
  ELSE IF d.conv = "c" THEN Filled(<<d.arg>>, d)
  ELSE IF d.conv = "s"
  THEN Filled(IF PrecOf(d) = None THEN d.arg
              ELSE SubSeq(d.arg, 1, Min({PrecOf(d), Len(d.arg)})), d)
  ELSE IF d.conv = "p" THEN Reverse(DigitsOf(Unsigned(d.arg, LongBits), 16, LongBits \div 4,
                                             BigDigitChars))
  ELSE IF d.conv = Literal THEN <<d.arg>>
  ELSE <<d.conv>>

(* Where the code does something else with a number: a negative char, which    *)
(* has no sign here; a number that does not fit its buffer; a precision on the *)
(* left, which is not looked at; "#" before the precision or the width of an   *)
(* octal number, of a number that fills its width, or of one filled with zeros. *)
LossyNumber(d) ==
  LET flags == FlagsOf(d)
      left == "-" \in flags
      count == IF ValueOf(d) = 0 THEN 0
               ELSE CountOf(IF ValueOf(d) < 0 THEN -ValueOf(d) ELSE ValueOf(d), BaseOf(d.conv))
      marked == "#" \in flags /\ d.conv \in {"o", "x", "X", "b"} /\ ValueOf(d) # 0
      octal == marked /\ d.conv = "o"
  IN  \/ d.conv \in {"d", "i"} /\ d.len = <<"h", "h">> /\ ValueOf(d) < 0
      \/ Len(Mark(d)) + ZeroFill(d) + Len(Magnitude(d)) > NtoaSize
      \/ left /\ d.prec # None /\ d.prec > count + (IF octal THEN 1 ELSE 0)
      \/ octal /\ ~left /\ d.prec # None /\ d.prec > count
      \/ "#" \in flags /\ d.conv = "o" /\ ValueOf(d) = 0 /\ d.prec = 0
      \/ /\ marked /\ d.prec = None
         /\ \/ WidthOf(d) = count
            \/ "0" \in flags /\ ~left /\ d.conv = "b" /\ WidthOf(d) > count + 1
            \/ "0" \in flags /\ ~left /\ d.conv \in {"x", "X"} /\ WidthOf(d) = count + 1

(* A negative precision, which C takes as none: the code takes it as 0, and so *)
(* shows no character of a string and no digit of a 0, and fills no number     *)
(* with zeros.                                                                *)
LossyPrecision(d) ==
  /\ d.pstar /\ d.prec # None /\ d.prec < 0
  /\ \/ d.conv = "s" /\ d.arg # <<>>
     \/ d.conv \in IntegerConvs /\ (ValueOf(d) = 0 \/ ZeroFill(d) > 0)

Lossy(d) == (d.conv \in IntegerConvs /\ LossyNumber(d)) \/ LossyPrecision(d)

AsInC(d) == (Text(d) = Meaning(d)) <=> ~Lossy(d)

=============================================================================
