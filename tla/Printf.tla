------------------------------- MODULE Printf --------------------------------
(***************************************************************************)
(* Formatted output: printf of the kernel (kernel/printf.c) and vprintf of *)
(* user programs (user/printf.c).  They are two implementations: the       *)
(* kernel looks ahead at the characters after a %, the library keeps a     *)
(* state between characters, and each has its own helpers (the library's   *)
(* are named lib_...) and its own digits, small letters in the kernel and  *)
(* capital ones in the library.  Output is a sequence of characters.       *)
(* Words have W bits and an int half of them; every string argument but a  *)
(* null one is the string t, and the argument of %c is shown by its code   *)
(* (no caller passes consputc one above 255, its BACKSPACE).               *)
(***************************************************************************)
EXTENDS Integers, Sequences, SequencesExt

CONSTANTS
  W,        \* bits of a uint64 (64), a multiple of 8
  BufSize   \* characters printint has room for (20)

Word == 0..(2^W - 1)
H == W \div 2
NUL == "NUL"
Ch(fmt, i) == IF i <= Len(fmt) THEN fmt[i] ELSE NUL

\* The low b bits of a word, as an unsigned and as a signed number.
Low(a, b) == a % 2^b
Signed(a, b) == IF Low(a, b) >= 2^(b - 1) THEN Low(a, b) - 2^b ELSE Low(a, b)

digits == <<"0", "1", "2", "3", "4", "5", "6", "7", "8", "9", "a", "b", "c", "d", "e", "f">>

lib_digits ==
  <<"0", "1", "2", "3", "4", "5", "6", "7", "8", "9", "A", "B", "C", "D", "E", "F">>

RECURSIVE Digits(_, _), Hex(_, _), printf(_, _, _)
RECURSIVE lib_buf(_, _, _), lib_Hex(_, _), vprintf(_, _, _, _)

Digits(x, base) ==
  (IF x < base THEN <<>> ELSE Digits(x \div base, base)) \o <<digits[(x % base) + 1]>>

\* Fault: the most negative number is not given a sign.
printint_NoMin(xx, base, sign) ==
  LET neg == sign /\ xx < 0 /\ xx # -(2^(W - 1))
      x == (IF neg THEN -xx ELSE xx) % 2^W
  IN (IF neg THEN <<"-">> ELSE <<>>) \o Digits(x, base)

\* x is unsigned: -xx is right for the most negative xx too.
printint(xx, base, sign) ==
  LET neg == sign /\ xx < 0
      x == (IF neg THEN -xx ELSE xx) % 2^W
  IN (IF neg THEN <<"-">> ELSE <<>>) \o Digits(x, base)

\* The top four bits, n times, shifting left.
Hex(x, n) ==
  IF n = 0 THEN <<>> ELSE <<digits[(x \div 2^(W - 4)) + 1]>> \o Hex((x * 16) % 2^W, n - 1)
printptr(x) == <<"0", "x">> \o Hex(x, W \div 4)

(* The conversions: what is printed for the next argument a, how many more *)
(* characters of the format the conversion has, and whether it takes one.  *)
Conversion(c0, c1, c2, a) ==
  LET long == IF c0 # "l" THEN 0 ELSE IF c1 # "l" THEN 1 ELSE 2
      c == CASE long = 0 -> c0 [] long = 1 -> c1 [] long = 2 -> c2
      uns == IF long = 0 THEN Low(a, H) ELSE Signed(a, W)
  IN CASE c = "d" -> [out |-> printint(Signed(a, IF long = 0 THEN H ELSE W), 10, TRUE),
                      more |-> long, takes |-> 1]
       [] c = "u" -> [out |-> printint(uns, 10, FALSE), more |-> long, takes |-> 1]
       [] c = "x" -> [out |-> printint(uns, 16, FALSE), more |-> long, takes |-> 1]
       [] c0 = "p" -> [out |-> printptr(a), more |-> 0, takes |-> 1]
       [] c0 = "c" -> [out |-> <<ToString(Low(a, H))>>, more |-> 0, takes |-> 1]
       [] c0 = "s" -> [out |-> IF a = 0 THEN <<"(null)">> ELSE <<"t">>, more |-> 0, takes |-> 1]
       [] c0 = "%" -> [out |-> <<"%">>, more |-> 0, takes |-> 0]
       [] OTHER -> [out |-> <<"%", c0>>, more |-> 0, takes |-> 0]

\* Fault: the characters after %l are printed once more.
printf_NoSkip(fmt, i, args) ==
  IF i > Len(fmt) THEN <<>>
  ELSE IF fmt[i] # "%" THEN <<fmt[i]>> \o printf(fmt, i + 1, args)
  ELSE IF i = Len(fmt) THEN <<>>
  ELSE LET r == Conversion(fmt[i + 1], Ch(fmt, i + 2), Ch(fmt, i + 3), args[1])
       IN r.out \o printf(fmt, i + 2, SubSeq(args, 1 + r.takes, Len(args)))

\* The kernel: a % at the end of the format prints nothing.
printf(fmt, i, args) ==
  IF i > Len(fmt) THEN <<>>
  ELSE IF fmt[i] # "%" THEN <<fmt[i]>> \o printf(fmt, i + 1, args)
  ELSE IF i = Len(fmt) THEN <<>>
  ELSE LET r == Conversion(fmt[i + 1], Ch(fmt, i + 2), Ch(fmt, i + 3), args[1])
       IN r.out \o printf(fmt, i + 2 + r.more, SubSeq(args, 1 + r.takes, Len(args)))

-----------------------------------------------------------------------------
(* The library.                                                            *)

\* The buffer printint fills from the low digit up and prints backwards.
lib_buf(x, base, neg) ==
  <<lib_digits[(x % base) + 1]>> \o
    (IF x \div base # 0 THEN lib_buf(x \div base, base, neg)
     ELSE IF neg THEN <<"-">> ELSE <<>>)

\* Fault: the sign of a negative number is not put in the buffer.
lib_printint_NoSign(xx, base, sgn) ==
  Reverse(lib_buf((IF sgn /\ xx < 0 THEN -xx ELSE xx) % 2^W, base, FALSE))

lib_printint(xx, base, sgn) ==
  LET neg == sgn /\ xx < 0
  IN Reverse(lib_buf((IF neg THEN -xx ELSE xx) % 2^W, base, neg))

lib_Hex(x, n) ==
  IF n = 0 THEN <<>>
  ELSE <<lib_digits[(x \div 2^(W - 4)) + 1]>> \o lib_Hex((x * 16) % 2^W, n - 1)
lib_printptr(x) == <<"0", "x">> \o lib_Hex(x, W \div 4)

\* What is printed, by how much i is raised, and whether an argument is taken.
lib_Conversion(c0, c1, c2, a) ==
  LET Is(f) == f = SubSeq(<<c0, c1, c2>>, 1, Len(f))
      Arg(out, i) == [out |-> out, i |-> i, takes |-> 1]
  IN CASE Is(<<"d">>) -> Arg(lib_printint(Signed(a, H), 10, TRUE), 0)
       [] Is(<<"l", "d">>) -> Arg(lib_printint(Signed(a, W), 10, TRUE), 1)
       [] Is(<<"l", "l", "d">>) -> Arg(lib_printint(Signed(a, W), 10, TRUE), 2)
       [] Is(<<"u">>) -> Arg(lib_printint(Low(a, H), 10, FALSE), 0)
       [] Is(<<"l", "u">>) -> Arg(lib_printint(Signed(a, W), 10, FALSE), 1)
       [] Is(<<"l", "l", "u">>) -> Arg(lib_printint(Signed(a, W), 10, FALSE), 2)
       [] Is(<<"x">>) -> Arg(lib_printint(Low(a, H), 16, FALSE), 0)
       [] Is(<<"l", "x">>) -> Arg(lib_printint(Signed(a, W), 16, FALSE), 1)
       [] Is(<<"l", "l", "x">>) -> Arg(lib_printint(Signed(a, W), 16, FALSE), 2)
       [] Is(<<"p">>) -> Arg(lib_printptr(a), 0)
       [] Is(<<"c">>) -> Arg(<<ToString(Low(a, H))>>, 0)
       [] Is(<<"s">>) -> Arg(IF a = 0 THEN <<"(null)">> ELSE <<"t">>, 0)
       [] Is(<<"%">>) -> [out |-> <<"%">>, i |-> 0, takes |-> 0]
       [] OTHER -> [out |-> <<"%", c0>>, i |-> 0, takes |-> 0]

\* Fault: the state stays "%" after a conversion without an argument.
vprintf_Stays(fmt, i, state, args) ==
  IF i > Len(fmt) THEN <<>>
  ELSE IF state = "0" /\ fmt[i] = "%" THEN vprintf(fmt, i + 1, "%", args)
  ELSE IF state = "0" THEN <<fmt[i]>> \o vprintf(fmt, i + 1, "0", args)
  ELSE LET r == lib_Conversion(fmt[i], Ch(fmt, i + 1), Ch(fmt, i + 2), args[1])
       IN r.out \o vprintf(fmt, i + 1 + r.i, IF r.takes = 0 THEN "%" ELSE "0",
                           SubSeq(args, 1 + r.takes, Len(args)))

\* state is "%" after a percent sign, else "0".
vprintf(fmt, i, state, args) ==
  IF i > Len(fmt) THEN <<>>
  ELSE IF state = "0" /\ fmt[i] = "%" THEN vprintf(fmt, i + 1, "%", args)
  ELSE IF state = "0" THEN <<fmt[i]>> \o vprintf(fmt, i + 1, "0", args)
  ELSE LET r == lib_Conversion(fmt[i], Ch(fmt, i + 1), Ch(fmt, i + 2), args[1])
       IN r.out \o vprintf(fmt, i + 1 + r.i, "0", SubSeq(args, 1 + r.takes, Len(args)))

-----------------------------------------------------------------------------
(* What is printed, stated without the loops.                              *)

Value(tab, ds, base) ==
  FoldLeft(LAMBDA n, c : n * base + SelectInSeq(tab, LAMBDA d : d = c) - 1, 0, ds)
Number(tab, out, base) ==
  IF out[1] = "-" THEN -Value(tab, Tail(out), base) ELSE Value(tab, out, base)

\* A number is printed with its value, without leading zeros, in the room there
\* is for it; a pointer as all of its hexadecimal digits.  tab, int, ptr and conv
\* are the digits, printint, printptr and conversions of either implementation.
ValueShown(tab, int(_, _, _), ptr(_), conv(_, _, _, _), a) ==
  /\ \A b \in {10, 16} :
       /\ Number(tab, int(Signed(a, W), b, TRUE), b) = Signed(a, W)
       /\ Number(tab, int(Signed(a, W), b, FALSE), b) = a
       /\ Len(int(Signed(a, W), b, TRUE)) <= BufSize
       /\ a # 0 => int(Signed(a, W), b, FALSE)[1] # "0"
  /\ Number(tab, conv("d", NUL, NUL, a).out, 10) = Signed(a, H)
  /\ Number(tab, conv("u", NUL, NUL, a).out, 10) = Low(a, H)
  /\ Value(tab, SubSeq(ptr(a), 3, 2 + W \div 4), 16) = a

PrintsValue(a) ==
  /\ ValueShown(digits, printint, printptr, Conversion, a)
  /\ ValueShown(lib_digits, lib_printint, lib_printptr, lib_Conversion, a)

\* An output with the library's digits replaced by the kernel's.
SmallDigits(out) ==
  [i \in DOMAIN out |->
     IF out[i] \in Range(lib_digits)
     THEN digits[SelectInSeq(lib_digits, LAMBDA d : d = out[i])] ELSE out[i]]

\* The two print the same but for the digits above 9, small letters in the
\* kernel's numbers and capital ones in the library's.
PrintAlike(fmt, args) ==
  SmallDigits(printf(fmt, 1, args)) = SmallDigits(vprintf(fmt, 1, "0", args))
=============================================================================
