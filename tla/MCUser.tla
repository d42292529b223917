------------------------------- MODULE MCUser -------------------------------
(***************************************************************************)
(* Model checking of the shell (Shell, with its parser), the output of the *)
(* serial port (Uart), the heap of a program (Umalloc) and the functions   *)
(* programs are built from (Parser, Filters, Libc, Printf).  They share no *)
(* state, so one run checks them side by side: part says what a behaviour  *)
(* is about.  For the functions it has one state for each input.           *)
(***************************************************************************)
EXTENDS Uart

CONSTANTS
  MAXARGS, NPROC, NOFILE, NFILE, NPIPE, PIPESIZE, Programs, Input,   \* Shell
  Limit, Grain, Units,                   \* Umalloc
  GrepBuf, WcBuf, W, BufSize,            \* Filters, Printf
  MaxLine                                \* bound on the length of command lines

VARIABLES part, input, heap, owned, state, parent, code, ofile, ftable, pipes, sh, typed

shell_vars == <<state, parent, code, ofile, ftable, pipes, sh, typed>>

S == INSTANCE Shell
H == INSTANCE Umalloc
F == INSTANCE Filters
L == INSTANCE Libc
R == INSTANCE Printf

ASSUME S!ParserAssumption /\ S!ShellAssumption /\ H!UmallocAssumption

\* A file table, and programs named by one letter.
MCPrograms == [c |-> "cat", e |-> "echo"]

\* A pipeline of two and of three, redirections at both ends, a list in a block
\* with a missing program in the background, a background job, and an error.
MCInput ==
  << { <<"e", "|", "c">>, <<"e", "|", "c", "|", "c">>, <<"c", "<", "f", "|", "c", ">", "g">>,
       <<"(", "e", ";", "c", ")", "|", "x", "&">>, <<"c", "&", ";", "e">>, <<"|", ")">> },
     { <<"e">> } >>

UpTo(T, n) == UNION {[1..k -> T] : k \in 0..n}

\* The inputs of the functions, by part.  The longer lines without symbols but
\* the pipe have commands of MAXARGS words and more.
Lines == UpTo(S!symbols \cup {"a", " "}, MaxLine) \cup UpTo({"a", " ", "|"}, 2 * MAXARGS)
Patterns == UpTo({"a", ".", "*", "^", "$"}, 3)
Texts == UpTo({"a", "b", F!NL}, 6)
Inputs ==
  [parse |-> Lines,
   match |-> Patterns \X UpTo({"a", "b", "*"}, 3),
   grep |-> {<<"a">>, <<"^", "b", "$">>} \X Texts,
   wc |-> UpTo({"a", " ", F!NL}, 6),
   memory |-> [0..6 -> 0..2],
   gets |-> UpTo({"a", "\n", "\r"}, 5),
   number |-> R!Word,
   format |-> UpTo({"a", "%", "d", "l", "x"}, 5) \cup UpTo({"a", "%", "u", "p", "c", "s", "l"}, 4)]

AllInit ==
  /\ Init /\ S!Init /\ H!Init
  /\ \/ part \in {"shell", "uart", "heap"} /\ input = <<>>
     \/ part \in DOMAIN Inputs /\ input \in Inputs[part]

AllNext ==
  /\ UNCHANGED <<part, input>>
  /\ \/ part = "shell" /\ S!Next /\ UNCHANGED <<vars, heap, owned>>
     \/ part = "uart" /\ Next /\ UNCHANGED <<shell_vars, heap, owned>>
     \/ part = "heap" /\ H!Next /\ UNCHANGED <<vars, shell_vars>>

Steps(A) == part = "shell" /\ A

\* Fairness of the shell where it runs; Uart at rest has no fair step enabled.
AllSpec ==
  /\ AllInit /\ [][AllNext]_<<part, input, heap, owned, vars, shell_vars>>
  /\ \A p \in S!Pids : WF_shell_vars(Steps(S!Step(p)))
  /\ WF_shell_vars(Steps(S!Spawn)) /\ WF_shell_vars(Steps(S!Reap))
  /\ Fairness

\* A file's reference count is the number of descriptors that name it, and an end
\* of a pipe is open exactly while a file for it is: fork, dup, close and exit
\* never lose or leak one.  A program starts with descriptors 0, 1 and 2 only.
RefsMatchDescriptors == S!RefsMatchDescriptors

\* Every command line comes to an end: the shell is back at its prompt, every
\* process it started has exited and been reaped, and no pipe is left.
EveryJobEnds == part = "shell" => S!JobsEnd

\* parsecmd accepts exactly the command lines of the shell's grammar, gives each
\* the tree the grammar gives it, and ends the words of the tree, and nothing
\* else, in place (gettoken, parseline, nulterminate).
ParsesLines ==
  part = "parse" => S!ParsesTheGrammar(input) /\ S!StringsTerminated(input)

\* The blocks of a program and the free blocks are, without overlap, all the memory
\* morecore has got, and adjacent free blocks have been joined, whatever the order
\* of malloc, free and sbrk.
HeapTiled == H!HeapTiled

\* The functions of kernel and library do what they are for.  grep prints the
\* complete lines a pattern describes and wc counts lines, words and characters,
\* however the input is cut into reads.  The memory and string functions are right
\* at every length, overlap and position of the end of a string.  Numbers are
\* printed with their value, the most negative one too, and what the library
\* prints can be read back with atoi.  For every format the kernel's printf and
\* the library's print the same, but for the case of the digits a to f.
FunctionsRight ==
  /\ part = "match" => (F!match(input[1], input[2]) <=> F!Means(input[1], input[2]))
  /\ part = "grep" => F!grep(input[1], <<>>, input[2]) = {F!Selected(input[1], input[2])}
  /\ part = "wc" => F!WcOf(input) = {F!Counts(input)}
  /\ part = "memory" =>
       /\ \A d, s \in 0..6 : \A n \in 0..(7 - (IF d > s THEN d ELSE s)) : L!MovesIntact(input, d, s, n)
       /\ L!Ended(input, 3) =>
            /\ \A n \in 0..3 : L!CopiesInField(input, 0, 3, n)
            /\ L!End(input, 3) < 6 => L!StringsRead(input, 0, 3, 1)
       /\ L!Ended(input, 2) /\ L!Ended(input, 4) /\ L!End(input, 2) < 4 =>
            L!NamesMeet(input, 2, 4, 0, 2)
  /\ part = "gets" => \A max \in 2..4 : L!LinesKept(input, max, {"\n", "\r"})
  /\ part = "number" =>
       /\ R!PrintsValue(input)
       /\ LET out == R!lib_printint(input, 10, FALSE)
          IN L!atoi([i \in DOMAIN out |-> R!Value(R!lib_digits, <<out[i]>>, 10)]) = input
  /\ part = "format" => R!PrintAlike(input, <<200, 7, 135, 0>>)
=============================================================================
