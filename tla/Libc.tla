-------------------------------- MODULE Libc --------------------------------
(***************************************************************************)
(* Memory and string functions of the kernel (kernel/string.c) and of user *)
(* programs (user/ulib.c).  Memory is a function from addresses to bytes;  *)
(* a function that writes returns the memory it leaves, one that compares  *)
(* the difference of two bytes, which are 0..255 unless it says otherwise. *)
(* The loops are translated step by step, because the order of the writes  *)
(* is what matters when source and destination overlap.                    *)
(***************************************************************************)
EXTENDS Integers, Sequences, SequencesExt

RECURSIVE Up(_, _, _, _), Down(_, _, _, _), strcpy(_, _, _), strlen(_, _)
RECURSIVE strncmp(_, _, _, _), strcmp(_, _, _), memcmp(_, _, _, _)
RECURSIVE CopyString(_, _, _, _), memset(_, _, _, _), strchr(_, _, _), gets(_, _, _)

\* The two directions in which n bytes are moved from s to d.
Up(m, d, s, n) == IF n <= 0 THEN m ELSE Up([m EXCEPT ![d] = m[s]], d + 1, s + 1, n - 1)
Down(m, d, s, n) ==
  IF n <= 0 THEN m ELSE Down([m EXCEPT ![d + n - 1] = m[s + n - 1]], d, s, n - 1)

\* Fault: overlapping ranges are moved upwards too.
memmove_AlwaysUp(m, d, s, n) == Up(m, d, s, n)

\* kernel/string.c: downwards only when the ranges overlap that way.
memmove(m, d, s, n) == IF s < d /\ s + n > d THEN Down(m, d, s, n) ELSE Up(m, d, s, n)

\* user/ulib.c: upwards only when the source is above.
user_memmove(m, d, s, n) == IF s > d THEN Up(m, d, s, n) ELSE Down(m, d, s, n)

memset(m, d, c, n) == IF n <= 0 THEN m ELSE memset([m EXCEPT ![d] = c], d + 1, c, n - 1)

memcmp(m, p, q, n) ==
  IF n = 0 THEN 0
  ELSE IF m[p] # m[q] THEN m[p] - m[q]
  ELSE memcmp(m, p + 1, q + 1, n - 1)

strlen(m, s) == IF m[s] = 0 THEN 0 ELSE 1 + strlen(m, s + 1)

strcpy(m, s, t) ==
  LET m2 == [m EXCEPT ![s] = m[t]] IN IF m[t] = 0 THEN m2 ELSE strcpy(m2, s + 1, t + 1)

strcmp(m, p, q) ==
  IF m[p] # 0 /\ m[p] = m[q] THEN strcmp(m, p + 1, q + 1) ELSE m[p] - m[q]

strncmp(m, p, q, n) ==
  IF n > 0 /\ m[p] # 0 /\ m[p] = m[q] THEN strncmp(m, p + 1, q + 1, n - 1)
  ELSE IF n = 0 THEN 0 ELSE m[p] - m[q]

\* The address of the first c at s or after it, or -1.
strchr(m, s, c) ==
  IF m[s] = 0 THEN -1 ELSE IF m[s] = c THEN s ELSE strchr(m, s + 1, c)

\* while(n-- > 0 && (*s++ = *t++) != 0): the memory, s and n it leaves.
CopyString(m, s, t, n) ==
  IF n <= 0 THEN [m |-> m, s |-> s, n |-> n - 1]
  ELSE LET m2 == [m EXCEPT ![s] = m[t]] IN
       IF m[t] = 0 THEN [m |-> m2, s |-> s + 1, n |-> n - 1]
       ELSE CopyString(m2, s + 1, t + 1, n - 1)

\* The rest of the field is filled with 0, and a string of n bytes is not ended.
strncpy(m, s, t, n) == LET r == CopyString(m, s, t, n) IN memset(r.m, r.s, 0, r.n)

\* Fault: n bytes are copied before the 0 is written.
safestrcpy_OneMore(m, s, t, n) ==
  IF n <= 0 THEN m ELSE LET r == CopyString(m, s, t, n) IN [r.m EXCEPT ![r.s] = 0]

\* Always ended: at most n - 1 bytes are copied before the 0.
safestrcpy(m, s, t, n) ==
  IF n <= 0 THEN m ELSE LET r == CopyString(m, s, t, n - 1) IN [r.m EXCEPT ![r.s] = 0]

\* gets: the characters taken from the input, of which there are at most max - 1,
\* until a line ends, the input does or the buffer is full.
gets(in, max, ends) ==
  IF max <= 1 \/ in = <<>> THEN <<>>
  ELSE IF in[1] \in ends THEN <<in[1]>>
  ELSE <<in[1]>> \o gets(Tail(in), max - 1, ends)

\* atoi: digits are 0..9; another character ends the number.
atoi(s) ==
  LET digits == SelectInSeq(s, LAMBDA c : c \notin 0..9)
      num == IF digits = 0 THEN s ELSE SubSeq(s, 1, digits - 1)
  IN FoldLeft(LAMBDA n, c : n * 10 + c, 0, num)

-----------------------------------------------------------------------------
(* What they are for, stated without their loops.                          *)

Ended(m, s) == \E i \in DOMAIN m : i >= s /\ m[i] = 0
End(m, s) == CHOOSE i \in DOMAIN m : i >= s /\ m[i] = 0 /\ \A j \in s..(i - 1) : m[j] # 0
Field(d, n) == d..(d + n - 1)

\* Both versions of memmove leave what the source held before in the destination,
\* and change nothing else, also when they overlap.
MovesIntact(m, d, s, n) ==
  LET moved == [a \in DOMAIN m |-> IF a \in Field(d, n) THEN m[a - d + s] ELSE m[a]]
  IN memmove(m, d, s, n) = moved /\ user_memmove(m, d, s, n) = moved

\* strncpy and safestrcpy write n bytes at d and no other: the string, cut to fit,
\* and zeros; safestrcpy writes no more than the string and always a 0 after it.
CopiesInField(m, d, s, n) ==
  LET len == End(m, s) - s
      padded == strncpy(m, d, s, n)
      safe == safestrcpy(m, d, s, n)
  IN /\ padded = [a \in DOMAIN m |->
          IF a \notin Field(d, n) THEN m[a]
          ELSE IF a - d < len THEN m[a - d + s] ELSE 0]
     /\ \A a \in DOMAIN m \ Field(d, n) : safe[a] = m[a]
     /\ n > 0 => /\ strlen(safe, d) = (IF len < n THEN len ELSE n - 1)
                 /\ \A i \in 0..(strlen(safe, d) - 1) : safe[d + i] = m[s + i]

\* strcpy copies the string and its 0; strlen and strchr find the first 0 and the
\* first c before it; strcmp has the sign of the first difference.
StringsRead(m, d, s, c) ==
  LET end == End(m, s)
      len == end - s
      hits == {a \in s..(end - 1) : m[a] = c}
      copy == strcpy(m, d, s)
  IN /\ strlen(m, s) = len
     /\ strchr(m, s, c) = IF hits = {} THEN -1 ELSE Min(hits)
     /\ copy = memmove(m, d, s, len + 1) /\ strcmp(copy, d, s) = 0
     /\ memcmp(copy, d, s, len + 1) = 0
     /\ len > 0 => strcmp([copy EXCEPT ![d + len - 1] = @ - 1], d, s) < 0
     /\ len > 0 => memcmp([copy EXCEPT ![d + len - 1] = @ + 1], d, s, len + 1) > 0

\* Lines read one after the other with gets are the input, cut after every line
\* end and every max - 1 characters, with nothing lost between two calls.
RECURSIVE AllLines(_, _, _)
AllLines(in, max, ends) ==
  IF in = <<>> THEN <<>>
  ELSE LET l == gets(in, max, ends)
       IN <<l>> \o AllLines(SubSeq(in, Len(l) + 1, Len(in)), max, ends)

LinesKept(in, max, ends) ==
  LET ls == AllLines(in, max, ends) IN
  /\ FlattenSeq(ls) = in
  /\ \A i \in DOMAIN ls :
       /\ Len(ls[i]) \in 1..(max - 1)
       /\ \A j \in 1..(Len(ls[i]) - 1) : ls[i][j] \notin ends
       /\ i < Len(ls) => Last(ls[i]) \in ends \/ Len(ls[i]) = max - 1

\* Names are kept in directory entries with strncpy and looked up with strncmp:
\* two names meet in an entry exactly when they agree up to the n bytes of it.
NamesMeet(m, p, q, d, n) ==
  LET e == strncpy(m, d, p, n)
      same == \A i \in 0..(n - 1) :
                (\A j \in 0..(i - 1) : m[p + j] = m[q + j] /\ m[p + j] # 0) => m[p + i] = m[q + i]
  IN /\ (strncmp(e, q, d, n) = 0) <=> same
     /\ (strncmp(m, p, q, n) = 0) <=> same
=============================================================================
