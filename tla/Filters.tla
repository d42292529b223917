------------------------------- MODULE Filters -------------------------------
(***************************************************************************)
(* The text filters grep and wc (user/grep.c, user/wc.c).  A text is a     *)
(* sequence of characters without NUL.  read may return any number of the  *)
(* characters left, up to the room asked for, so the result of a filter is *)
(* a set: what it prints under every way of cutting the input into reads.  *)
(***************************************************************************)
EXTENDS Integers, Sequences, FiniteSets, FiniteSetsExt, SequencesExt

CONSTANTS
  GrepBuf,   \* sizeof(buf) in grep.c (1024)
  WcBuf      \* sizeof(buf) in wc.c (512)

NL == "\n"
NUL == "NUL"
Blank == {" ", NL}                   \* the separators of wc, of which two stand for five
At(s, i) == IF i <= Len(s) THEN s[i] ELSE NUL
From(s, i) == SubSeq(s, i, Len(s))

-----------------------------------------------------------------------------
(* The matcher.                                                            *)

RECURSIVE matchhere(_, _), matchstar(_, _, _)

\* Fault: c* wants an instance of c.
matchstar_Plus(c, re, text) ==
  /\ text # <<>> /\ (text[1] = c \/ c = ".")
  /\ matchhere(re, Tail(text)) \/ matchstar(c, re, Tail(text))

matchstar(c, re, text) ==
  \/ matchhere(re, text)
  \/ text # <<>> /\ (text[1] = c \/ c = ".") /\ matchstar(c, re, Tail(text))

matchhere(re, text) ==
  IF re = <<>> THEN TRUE
  ELSE IF At(re, 2) = "*" THEN matchstar(re[1], From(re, 3), text)
  ELSE IF re = <<"$">> THEN text = <<>>
  ELSE /\ text # <<>> /\ (re[1] = "." \/ re[1] = text[1])
       /\ matchhere(Tail(re), Tail(text))

match(re, text) ==
  IF At(re, 1) = "^" THEN matchhere(Tail(re), text)
  ELSE \E i \in 1..(Len(text) + 1) : matchhere(re, From(text, i))

(* What a pattern means: a sequence of items, each a character or . that   *)
(* stands once or, with *, any number of times, with ^ and $ at the ends.  *)
RECURSIVE Items(_)
Items(re) ==
  IF re = <<>> THEN <<>>
  ELSE IF At(re, 2) = "*" THEN <<[c |-> re[1], star |-> TRUE]>> \o Items(From(re, 3))
  ELSE <<[c |-> re[1], star |-> FALSE]>> \o Items(Tail(re))

Means(re, text) ==
  LET anchored == At(re, 1) = "^"
      all == Items(IF anchored THEN Tail(re) ELSE re)
      toEnd == all # <<>> /\ Last(all) = [c |-> "$", star |-> FALSE]
      it == IF toEnd THEN Front(all) ELSE all
      k == Len(it)
  IN \E cut \in [1..(k + 1) -> 0..Len(text)] :
       /\ anchored => cut[1] = 0
       /\ toEnd => cut[k + 1] = Len(text)
       /\ \A j \in 1..k :
            /\ IF it[j].star THEN cut[j] <= cut[j + 1] ELSE cut[j + 1] = cut[j] + 1
            /\ \A i \in (cut[j] + 1)..cut[j + 1] : it[j].c \in {".", text[i]}

-----------------------------------------------------------------------------
(* grep: buf holds the m characters of an unfinished line.                 *)

\* The lines that end in buf: those that match are printed, the rest is kept.
RECURSIVE Lines(_, _)
Lines(re, buf) ==
  LET q == SelectInSeq(buf, LAMBDA c : c = NL) IN
  IF q = 0 THEN [out |-> <<>>, left |-> buf]
  ELSE LET r == Lines(re, From(buf, q + 1)) IN
       [r EXCEPT !.out = (IF match(re, SubSeq(buf, 1, q - 1))
                          THEN SubSeq(buf, 1, q) ELSE <<>>) \o @]

RECURSIVE grep(_, _, _)
\* Fault: the unfinished line is not moved to the front of the buffer.
grep_DropsTail(re, buf, in) ==
  LET most == Min({Len(in), GrepBuf - Len(buf) - 1}) IN
  IF most = 0 THEN {<<>>}
  ELSE UNION {LET r == Lines(re, buf \o SubSeq(in, 1, n))
              IN {r.out \o o : o \in grep(re, <<>>, From(in, n + 1))} : n \in 1..most}

grep(re, buf, in) ==
  LET most == Min({Len(in), GrepBuf - Len(buf) - 1}) IN
  IF most = 0 THEN {<<>>}
  ELSE UNION {LET r == Lines(re, buf \o SubSeq(in, 1, n))
              IN {r.out \o o : o \in grep(re, r.left, From(in, n + 1))} : n \in 1..most}

\* The reference: the complete lines that match, until one does not fit buf.
RECURSIVE Selected(_, _)
Selected(re, in) ==
  LET q == SelectInSeq(in, LAMBDA c : c = NL) IN
  IF q = 0 \/ q >= GrepBuf THEN <<>>
  ELSE (IF Means(re, SubSeq(in, 1, q - 1)) THEN SubSeq(in, 1, q) ELSE <<>>)
         \o Selected(re, From(in, q + 1))

-----------------------------------------------------------------------------
(* wc: the counts are a record [l, w, c, inword].                          *)

Count(k, ch) ==
  [l |-> k.l + (IF ch = NL THEN 1 ELSE 0),
   w |-> k.w + (IF ch \notin Blank /\ ~k.inword THEN 1 ELSE 0),
   c |-> k.c + 1,
   inword |-> ch \notin Blank]

RECURSIVE wc(_, _)
\* Fault: inword starts anew with every read.
wc_ForgetsWord(k, in) ==
  LET most == Min({Len(in), WcBuf}) IN
  IF most = 0 THEN {<<k.l, k.w, k.c>>}
  ELSE UNION {wc(FoldLeft(Count, [k EXCEPT !.inword = FALSE], SubSeq(in, 1, n)),
                 From(in, n + 1)) : n \in 1..most}

wc(k, in) ==
  LET most == Min({Len(in), WcBuf}) IN
  IF most = 0 THEN {<<k.l, k.w, k.c>>}
  ELSE UNION {wc(FoldLeft(Count, k, SubSeq(in, 1, n)), From(in, n + 1)) : n \in 1..most}

WcOf(in) == wc([l |-> 0, w |-> 0, c |-> 0, inword |-> FALSE], in)

\* The reference: a word starts at every character that is not a separator and
\* follows a separator or nothing.
Counts(in) ==
  <<Cardinality({i \in DOMAIN in : in[i] = NL}),
    Cardinality({i \in DOMAIN in : in[i] \notin Blank /\ (i = 1 \/ in[i - 1] \in Blank)}),
    Len(in)>>
=============================================================================
