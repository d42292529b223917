------------------------------- MODULE Parser -------------------------------
(***************************************************************************)
(* The shell's parser (user/sh.c): a command line, which is a sequence of  *)
(* characters, becomes a tree of commands.  A token is the pair of         *)
(* positions q and eq of its first character and of the one after its      *)
(* last; a panic of the parser, which ends the process, is the tree NoCmd. *)
(* The parser keeps its place in *ps; here every function returns it.      *)
(***************************************************************************)
EXTENDS Integers, Sequences, SequencesExt, FiniteSets

CONSTANT MAXARGS

ParserAssumption == MAXARGS \in Nat \ {0}

NUL == "nul"
whitespace == {" "}
symbols == {"<", "|", ">", "&", ";", "(", ")"}

-----------------------------------------------------------------------------
(* Trees.                                                                  *)

NoCmd == [type |-> "none"]

execcmd(argv) == [type |-> "EXEC", argv |-> argv]
pipecmd(left, right) == [type |-> "PIPE", left |-> left, right |-> right]
listcmd(left, right) == [type |-> "LIST", left |-> left, right |-> right]
backcmd(subcmd) == [type |-> "BACK", cmd |-> subcmd]

\* The switch of parseredirs, and redircmd.
redircmd(subcmd, tok, file) ==
  [type |-> "REDIR", cmd |-> subcmd, file |-> file,
   mode |-> CASE tok = "<" -> "read" [] tok = ">" -> "truncate" [] tok = "+" -> "append",
   fd |-> IF tok = "<" THEN 0 ELSE 1]

Wrap(cmd, redirs) == FoldLeft(LAMBDA c, r : redircmd(c, r.tok, r.file), cmd, redirs)

-----------------------------------------------------------------------------
(* Tokens.                                                                 *)

Char(s, i) == IF i <= Len(s) THEN s[i] ELSE NUL

\* The first position from i on whose character is not in C.
Span(s, i, C) ==
  CHOOSE j \in i..(Len(s) + 1) : /\ Char(s, j) \notin C
                                 /\ \A k \in i..(j - 1) : s[k] \in C

skip(s, i) == Span(s, i, whitespace)

Letters(s) == Range(s) \ (whitespace \cup symbols)

\* The token whose first character c is at q and which ends before eq.
Token(s, c, q, eq) ==
  [tok |-> CASE c = ">" /\ eq = q + 2 -> "+" [] c \in symbols \cup {NUL} /\ eq < q + 2 -> c [] OTHER -> "a",
   q |-> q, eq |-> eq, i |-> skip(s, eq)]

\* The token at q.
TokenAt(s, q) ==
  Token(s, Char(s, q), q,
        CASE Char(s, q) = NUL -> q
          [] Char(s, q) = ">" /\ Char(s, q + 1) = ">" -> q + 2
          [] Char(s, q) \in symbols -> q + 1
          [] OTHER -> Span(s, q, Letters(s)))

gettoken(s, i) == TokenAt(s, skip(s, i))

peek(s, i, toks) == Char(s, skip(s, i)) \in toks

-----------------------------------------------------------------------------
(* The parser.  Where a function goes on with what another has returned,   *)
(* the rest of it is an operator of its own, with that result as argument. *)

Ok(cmd, i) == [cmd |-> cmd, i |-> i]
Panic(s) == Ok(NoCmd, Len(s) + 1)
Failed(r) == r.cmd = NoCmd

\* Both sides of an operator of the shell, where the right one has been parsed.
Join(cmd(_, _), l, r) == IF Failed(r) THEN r ELSE Ok(cmd(l.cmd, r.cmd), r.i)

\* Redirections are collected and wrapped around their command at the end, as
\* the pointer to the innermost command lets the code do.
RECURSIVE parseredirs(_, _, _)
parseredirs(s, i, redirs) ==
  IF ~peek(s, i, {"<", ">"}) THEN [ok |-> TRUE, redirs |-> redirs, i |-> i]
  ELSE LET tok == gettoken(s, i)
           file == gettoken(s, tok.i)
       IN IF file.tok # "a" THEN [ok |-> FALSE, redirs |-> redirs, i |-> i]
          ELSE parseredirs(s, file.i,
                 Append(redirs, [tok |-> tok.tok, file |-> <<file.q, file.eq>>]))

RECURSIVE parseargs(_, _, _)
RECURSIVE parseline(_, _)
RECURSIVE parseback(_, _)
RECURSIVE parsepipe(_, _)

\* The loop of parseexec over arguments, after the redirections r.
parseargs(s, argv, r) ==
  LET t == gettoken(s, r.i) IN
  IF ~r.ok THEN Panic(s)
  ELSE IF peek(s, r.i, {"|", ")", "&", ";"}) \/ t.tok = NUL THEN Ok(Wrap(execcmd(argv), r.redirs), r.i)
  ELSE IF t.tok # "a" \/ Len(argv) + 1 >= MAXARGS THEN Panic(s)
  ELSE parseargs(s, Append(argv, <<t.q, t.eq>>), parseredirs(s, t.i, r.redirs))

\* Fault: redirections after the closing parenthesis are not looked for.
EndBlock_NoRedirs(s, body, close, r) ==
  IF Failed(body) \/ close.tok # ")" THEN Panic(s) ELSE Ok(body.cmd, close.i)

\* The end of parseblock: the parenthesis, and redirections of the whole block.
EndBlock(s, body, close, r) ==
  IF Failed(body) \/ close.tok # ")" \/ ~r.ok THEN Panic(s) ELSE Ok(Wrap(body.cmd, r.redirs), r.i)

CloseBlock(s, body) ==
  LET close == gettoken(s, body.i) IN EndBlock(s, body, close, parseredirs(s, close.i, <<>>))

parseblock(s, i) == CloseBlock(s, parseline(s, gettoken(s, i).i))

parseexec(s, i) ==
  IF peek(s, i, {"("}) THEN parseblock(s, i) ELSE parseargs(s, <<>>, parseredirs(s, i, <<>>))

\* The rest of parsepipe after the command l.
PipeAfter(s, l) ==
  IF Failed(l) \/ ~peek(s, l.i, {"|"}) THEN l
  ELSE Join(pipecmd, l, parsepipe(s, gettoken(s, l.i).i))

parsepipe(s, i) == PipeAfter(s, parseexec(s, i))

\* The loop of parseline after the command l.
parseback(s, l) ==
  IF Failed(l) \/ ~peek(s, l.i, {"&"}) THEN l
  ELSE parseback(s, Ok(backcmd(l.cmd), gettoken(s, l.i).i))

\* The rest of parseline after the command l.
LineAfter(s, l) ==
  IF Failed(l) \/ ~peek(s, l.i, {";"}) THEN l
  ELSE Join(listcmd, l, parseline(s, gettoken(s, l.i).i))

parseline(s, i) == LineAfter(s, parseback(s, parsepipe(s, i)))

\* The rest of parsecmd: nothing may be left over.
Whole(s, r) == IF Failed(r) \/ skip(s, r.i) # Len(s) + 1 THEN NoCmd ELSE r.cmd

parsecmd(s) == Whole(s, parseline(s, 1))

\* Fault: the name of a redirection's file is left unterminated.
RECURSIVE nulterminate_NoFile(_)
nulterminate_NoFile(cmd) ==
  CASE cmd.type = "EXEC" -> {cmd.argv[i][2] : i \in DOMAIN cmd.argv}
    [] cmd.type \in {"REDIR", "BACK"} -> nulterminate_NoFile(cmd.cmd)
    [] cmd.type \in {"PIPE", "LIST"} ->
         nulterminate_NoFile(cmd.left) \cup nulterminate_NoFile(cmd.right)

\* The positions nulterminate sets to NUL.
RECURSIVE nulterminate(_)
nulterminate(cmd) ==
  CASE cmd.type = "EXEC" -> {cmd.argv[i][2] : i \in DOMAIN cmd.argv}
    [] cmd.type = "REDIR" -> nulterminate(cmd.cmd) \cup {cmd.file[2]}
    [] cmd.type = "BACK" -> nulterminate(cmd.cmd)
    [] cmd.type \in {"PIPE", "LIST"} -> nulterminate(cmd.left) \cup nulterminate(cmd.right)

-----------------------------------------------------------------------------
(* Properties, over all lines of characters from a set.                    *)

\* All the tokens of a line.
RECURSIVE TokensFrom(_, _)
TokensFrom(s, i) ==
  LET t == gettoken(s, i) IN IF t.tok = NUL THEN <<>> ELSE <<t>> \o TokensFrom(s, t.i)

Before(ts, k) == SubSeq(ts, 1, k - 1)
After(ts, k) == SubSeq(ts, k + 1, Len(ts))
Splits(ts, tok) == {k \in DOMAIN ts : ts[k].tok = tok}
File(t) == <<t.q, t.eq>>
IsRedir(t) == t.tok \in {"<", ">", "+"}

\* The trees of a command without parentheses: each redirection with the word
\* that follows it, and the other words.
SimpleTrees(ts) ==
  LET R == {k \in DOMAIN ts : IsRedir(ts[k])}
      redirs == [j \in 1..Cardinality(R) |->
                   LET k == SetToSortSeq(R, <)[j] IN [tok |-> ts[k].tok, file |-> File(ts[k + 1])]]
      Words == {k \in DOMAIN ts : k \notin R /\ k - 1 \notin R}
      argv == [j \in 1..Cardinality(Words) |-> File(ts[SetToSortSeq(Words, <)[j]])]
  IN IF /\ \A k \in DOMAIN ts \ R : ts[k].tok = "a"
        /\ \A k \in R : k + 1 \in DOMAIN ts \ R
        /\ Cardinality(Words) < MAXARGS
     THEN {Wrap(execcmd(argv), redirs)} ELSE {}

RECURSIVE LineTrees(_)
RECURSIVE BackTrees(_)
RECURSIVE PipeTrees(_)
RECURSIVE BlockTrees(_)

BlockTrees(ts) ==
  LET n == Len(ts) IN
  (IF n >= 2 /\ ts[1].tok = "(" /\ ts[n].tok = ")" THEN LineTrees(SubSeq(ts, 2, n - 1)) ELSE {})
  \cup (IF n >= 2 /\ IsRedir(ts[n - 1]) /\ ts[n].tok = "a"
        THEN {redircmd(c, ts[n - 1].tok, File(ts[n])) : c \in BlockTrees(Before(ts, n - 1))}
        ELSE {})

ExecTrees(ts) == SimpleTrees(ts) \cup BlockTrees(ts)

PipeTrees(ts) == ExecTrees(ts) \cup
  UNION {{pipecmd(l, r) : l \in ExecTrees(Before(ts, k)), r \in PipeTrees(After(ts, k))}
          : k \in Splits(ts, "|")}

BackTrees(ts) == PipeTrees(ts) \cup
  (IF ts # <<>> /\ Last(ts).tok = "&" THEN {backcmd(c) : c \in BackTrees(Front(ts))} ELSE {})

LineTrees(ts) == BackTrees(ts) \cup
  UNION {{listcmd(l, r) : l \in BackTrees(Before(ts, k)), r \in LineTrees(After(ts, k))}
          : k \in Splits(ts, ";")}

\* The strings of a tree, as pairs of positions.
RECURSIVE Strings(_)
Strings(cmd) ==
  CASE cmd.type = "EXEC" -> Range(cmd.argv)
    [] cmd.type = "REDIR" -> Strings(cmd.cmd) \cup {cmd.file}
    [] cmd.type = "BACK" -> Strings(cmd.cmd)
    [] OTHER -> Strings(cmd.left) \cup Strings(cmd.right)

\* A line is rejected exactly when the grammar has no tree for it, and otherwise
\* the parser's tree is the only one (parsecmd and the functions below it).
ParsesTheGrammar(s) ==
  LineTrees(TokensFrom(s, 1)) = (IF parsecmd(s) = NoCmd THEN {} ELSE {parsecmd(s)})

\* nulterminate ends every argument and file name where its token ends, in the
\* line itself, and cuts none short: a NUL it writes falls on white space, on a
\* symbol that has been parsed, or on the NUL at the end.
StringsTerminated(s) ==
  LET c == parsecmd(s) IN
  c # NoCmd =>
    \A str \in Strings(c) :
      /\ \A i \in str[1]..(str[2] - 1) : i \notin nulterminate(c)
      /\ str[2] \in nulterminate(c) \cup {Len(s) + 1}
=============================================================================
