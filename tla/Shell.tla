-------------------------------- MODULE Shell --------------------------------
(***************************************************************************)
(* The shell's processes, descriptors and pipes: runcmd and main of        *)
(* user/sh.c over the descriptor system calls (kernel/sysfile.c, file.c)   *)
(* and fork, exit and wait; init, and the programs cat and echo.           *)
(*                                                                         *)
(* code[p] is what process p still has to do, one instruction per system   *)
(* call.  System calls are atomic: Pipe and Proc have their steps.  A pipe *)
(* holds a number of bytes; a regular file is read as one byte.  Opening a *)
(* file for reading may fail.  The working directory is left out, and with *)
(* it the cd command.                                                      *)
(***************************************************************************)
EXTENDS Parser

CONSTANTS
  NPROC,      \* processes are 1..NPROC, and init is 1
  NOFILE,     \* descriptors of a process
  NFILE,      \* open files in the system
  NPIPE,      \* pipes there is memory for
  PIPESIZE,
  Programs,   \* what a word, one letter, runs: "cat", "echo", or no program
  Input       \* the lines that may be typed first, second and so on

ShellAssumption ==
  /\ NPROC >= 2 /\ NOFILE >= 4 /\ NFILE \in Nat /\ NPIPE \in Nat
  /\ PIPESIZE \in Nat \ {0}

Pids == 1..NPROC
Fds == 0..(NOFILE - 1)
init == 1

VARIABLES
  state, parent,   \* of each process
  code,
  ofile,           \* of each process and descriptor: a file, or 0
  ftable,          \* of each file: [ref, kind, readable, writable, pi, off]
  pipes,           \* of each pipe: [n, readopen, writeopen]
  sh,              \* init's pid
  typed            \* lines typed so far

files == <<ofile, ftable, pipes>>
vars == <<state, parent, code, ofile, ftable, pipes, sh, typed>>

NoFile == [ref |-> 0, kind |-> "none", readable |-> FALSE, writable |-> FALSE, pi |-> 0, off |-> 0]
NoPipe == [n |-> 0, readopen |-> FALSE, writeopen |-> FALSE]

-----------------------------------------------------------------------------
(* Files.                                                                  *)

Least(S) == CHOOSE x \in S : \A y \in S : x <= y
FreeFds(p) == {fd \in Fds : ofile[p][fd] = 0}
FreeFiles == {f \in DOMAIN ftable : ftable[f].ref = 0}
FreePipes == {i \in DOMAIN pipes : pipes[i] = NoPipe}

\* How many of the descriptors fds of p name the file f.
Uses(p, fds, f) == Cardinality({fd \in fds : ofile[p][fd] = f})

\* Fault: the last close of a file does not close its end of the pipe.
pipeclose_LeavesOpen(i, dead) == pipes[i]

\* pipeclose of pipe i, when the files dead go; with its second end the pipe goes.
pipeclose(i, dead) ==
  LET Ends(wr) == {f \in dead : ftable[f].kind = "pipe" /\ ftable[f].pi = i /\ ftable[f].writable = wr}
      pi == [pipes[i] EXCEPT !.readopen = @ /\ Ends(FALSE) = {}, !.writeopen = @ /\ Ends(TRUE) = {}]
  IN IF pi.readopen \/ pi.writeopen THEN pi ELSE NoPipe

\* sys_close of the descriptors fds of p, and fileclose.
close(p, fds) ==
  LET dead == {f \in DOMAIN ftable : ftable[f].ref > 0 /\ ftable[f].ref = Uses(p, fds, f)} IN
  /\ ofile' = [ofile EXCEPT ![p] = [fd \in Fds |-> IF fd \in fds THEN 0 ELSE @[fd]]]
  /\ ftable' = [f \in DOMAIN ftable |->
       IF f \in dead THEN NoFile ELSE [ftable[f] EXCEPT !.ref = @ - Uses(p, fds, f)]]
  /\ pipes' = [i \in DOMAIN pipes |-> pipeclose(i, dead)]

\* Fault: the new descriptor is not counted.
filedup_NoCount(f) == ftable

filedup(f) == [ftable EXCEPT ![f].ref = @ + 1]

\* sys_dup; argfd or fdalloc may fail.
dup(p, fd) ==
  IF ofile[p][fd] = 0 \/ FreeFds(p) = {} THEN UNCHANGED files
  ELSE /\ ofile' = [ofile EXCEPT ![p][Least(FreeFds(p))] = ofile[p][fd]]
       /\ ftable' = filedup(ofile[p][fd])
       /\ UNCHANGED pipes

\* kfork duplicates every descriptor.
dupall(p, np) ==
  /\ ofile' = [ofile EXCEPT ![np] = ofile[p]]
  /\ ftable' = [f \in DOMAIN ftable |->
                  [ftable[f] EXCEPT !.ref = @ + Uses(p, Fds, f)]]
  /\ UNCHANGED pipes

CanOpen(p) == FreeFiles # {} /\ FreeFds(p) # {}

\* sys_open of a file that can be opened
open(p, kind, rd, wr) ==
  /\ ofile' = [ofile EXCEPT ![p][Least(FreeFds(p))] = Least(FreeFiles)]
  /\ ftable' = [ftable EXCEPT ![Least(FreeFiles)] =
       [NoFile EXCEPT !.ref = 1, !.kind = kind, !.readable = rd, !.writable = wr]]
  /\ UNCHANGED pipes

CanPipe(p) ==
  Cardinality(FreeFiles) >= 2 /\ Cardinality(FreeFds(p)) >= 2 /\ FreePipes # {}

\* The two descriptors of pipe(), and sys_pipe when it succeeds.
PipeFds(p) == LET r == Least(FreeFds(p)) IN <<r, Least(FreeFds(p) \ {r})>>

pipe(p) ==
  LET rf == Least(FreeFiles)
      wf == Least(FreeFiles \ {rf})
      i == Least(FreePipes)
      end == [NoFile EXCEPT !.ref = 1, !.kind = "pipe", !.pi = i]
  IN /\ ofile' = [ofile EXCEPT ![p][PipeFds(p)[1]] = rf, ![p][PipeFds(p)[2]] = wf]
     /\ ftable' = [ftable EXCEPT ![rf] = [end EXCEPT !.readable = TRUE],
                                 ![wf] = [end EXCEPT !.writable = TRUE]]
     /\ pipes' = [pipes EXCEPT ![i] = [n |-> 0, readopen |-> TRUE, writeopen |-> TRUE]]

-----------------------------------------------------------------------------
(* The code of processes.                                                  *)

I(op, arg) == <<[op |-> op, arg |-> arg]>>
Exit == I("exit", 0)

\* Run the command cmd parsed from the line s.
RunCode(s, cmd) == I("run", [line |-> s, cmd |-> cmd])

\* The two sides of a pipe after fork.
Side(fd, end, fds, s, cmd) ==
  I("close", fd) \o I("dup", end) \o I("close", fds[1]) \o I("close", fds[2]) \o RunCode(s, cmd)

\* Fault: the parent keeps the write end while it waits.
runpipe_Keeps(fds, s, cmd) ==
  I("fork", Side(1, fds[2], fds, s, cmd.left)) \o I("fork", Side(0, fds[1], fds, s, cmd.right))
    \o I("close", fds[1]) \o I("wait", 0) \o I("wait", 0) \o Exit

\* Case PIPE of runcmd, after pipe().
runpipe(fds, s, cmd) ==
  I("fork", Side(1, fds[2], fds, s, cmd.left)) \o I("fork", Side(0, fds[1], fds, s, cmd.right))
    \o I("close", fds[1]) \o I("close", fds[2]) \o I("wait", 0) \o I("wait", 0) \o Exit

\* Fault: the descriptor to be replaced is not closed first.
runcmd_NoClose(s, cmd) ==
  CASE cmd = NoCmd -> Exit
    [] cmd.type = "EXEC" -> IF cmd.argv = <<>> THEN Exit ELSE I("exec", s[cmd.argv[1][1]])
    [] cmd.type = "REDIR" -> I("open", cmd.mode) \o RunCode(s, cmd.cmd)
    [] cmd.type = "LIST" -> I("fork", RunCode(s, cmd.left)) \o I("wait", 0) \o RunCode(s, cmd.right)
    [] cmd.type = "PIPE" -> I("pipe", [line |-> s, cmd |-> cmd])
    [] cmd.type = "BACK" -> I("fork", RunCode(s, cmd.cmd)) \o Exit

\* What runcmd does with a command; the parser's panic is NoCmd.
runcmd(s, cmd) ==
  CASE cmd = NoCmd -> Exit
    [] cmd.type = "EXEC" -> IF cmd.argv = <<>> THEN Exit ELSE I("exec", s[cmd.argv[1][1]])
    [] cmd.type = "REDIR" -> I("close", cmd.fd) \o I("open", cmd.mode) \o RunCode(s, cmd.cmd)
    [] cmd.type = "LIST" -> I("fork", RunCode(s, cmd.left)) \o I("wait", 0) \o RunCode(s, cmd.right)
    [] cmd.type = "PIPE" -> I("pipe", [line |-> s, cmd |-> cmd])
    [] cmd.type = "BACK" -> I("fork", RunCode(s, cmd.cmd)) \o Exit

Init ==
  /\ state = [p \in Pids |-> IF p = init THEN "used" ELSE "unused"]
  /\ parent = [p \in Pids |-> 0]
  /\ code = [p \in Pids |-> IF p = init THEN I("spawn", 0) ELSE <<>>]
  /\ ofile = [p \in Pids |-> [fd \in Fds |-> IF p = init /\ fd <= 2 THEN 1 ELSE 0]]
  /\ ftable = [f \in 1..NFILE |->
       IF f = 1 THEN [NoFile EXCEPT !.ref = 3, !.kind = "console", !.readable = TRUE, !.writable = TRUE]
       ELSE NoFile]
  /\ pipes = [i \in 1..NPIPE |-> NoPipe]
  /\ sh = 0 /\ typed = 0

At(p, op) == state[p] = "used" /\ code[p] # <<>> /\ Head(code[p]).op = op
Arg(p) == Head(code[p]).arg
Goto(p, c) == code' = [code EXCEPT ![p] = c]
Then(p) == Goto(p, Tail(code[p]))

-----------------------------------------------------------------------------
(* System calls of the shell's processes.                                  *)

Close(p) == At(p, "close") /\ close(p, {Arg(p)}) /\ Then(p) /\ UNCHANGED <<state, parent, sh, typed>>

Dup(p) == At(p, "dup") /\ dup(p, Arg(p)) /\ Then(p) /\ UNCHANGED <<state, parent, sh, typed>>

\* open of a redirection; the process exits if it fails.
Open(p) ==
  /\ At(p, "open")
  /\ \/ CanOpen(p) /\ open(p, "inode", Arg(p) = "read", Arg(p) # "read") /\ Then(p)
     \/ (~CanOpen(p) \/ Arg(p) = "read") /\ Goto(p, Exit) /\ UNCHANGED files
  /\ UNCHANGED <<state, parent, sh, typed>>

Pipe(p) ==
  /\ At(p, "pipe")
  /\ IF CanPipe(p) THEN pipe(p) /\ Goto(p, runpipe(PipeFds(p), Arg(p).line, Arg(p).cmd))
                   ELSE Goto(p, Exit) /\ UNCHANGED files
  /\ UNCHANGED <<state, parent, sh, typed>>

Unused == {p \in Pids : state[p] = "unused"}

kfork(p, np, child, rest) ==
  /\ state' = [state EXCEPT ![np] = "used"]
  /\ parent' = [parent EXCEPT ![np] = p]
  /\ code' = [code EXCEPT ![np] = child, ![p] = rest]
  /\ dupall(p, np)

\* fork1, which exits when there is no process left
Fork(p) ==
  /\ At(p, "fork")
  /\ IF Unused # {} THEN kfork(p, Least(Unused), Arg(p), Tail(code[p]))
                    ELSE Goto(p, Exit) /\ UNCHANGED <<state, parent, files>>
  /\ UNCHANGED <<sh, typed>>

Run(p) == At(p, "run") /\ Goto(p, runcmd(Arg(p).line, Arg(p).cmd)) /\ UNCHANGED <<state, parent, files, sh, typed>>

\* kexit: descriptors are closed before anybody can see the process exited.
ExitFiles(p) ==
  /\ At(p, "exit") /\ close(p, Fds) /\ Goto(p, I("exited", 0))
  /\ UNCHANGED <<state, parent, sh, typed>>

ExitZombie(p) ==
  /\ At(p, "exited")
  /\ state' = [state EXCEPT ![p] = "zombie"]
  /\ parent' = [q \in Pids |-> IF parent[q] = p THEN init ELSE parent[q]]
  /\ Goto(p, <<>>)
  /\ UNCHANGED <<files, sh, typed>>

Children(p) == {q \in Pids : state[q] # "unused" /\ parent[q] = p}

kwait(p, q) ==
  /\ q \in Children(p) /\ state[q] = "zombie"
  /\ state' = [state EXCEPT ![q] = "unused"]
  /\ parent' = [parent EXCEPT ![q] = 0]

Wait(p) ==
  /\ At(p, "wait")
  /\ \/ \E q \in Pids : kwait(p, q)
     \/ Children(p) = {} /\ UNCHANGED <<state, parent>>
  /\ Then(p) /\ UNCHANGED <<files, sh, typed>>

-----------------------------------------------------------------------------
(* Programs.  Exec keeps the descriptors; it may fail.                     *)

Exec(p) ==
  /\ At(p, "exec")
  /\ Goto(p, IF Arg(p) \in DOMAIN Programs THEN I(Programs[Arg(p)], 0) \o Exit ELSE Exit)
  /\ UNCHANGED <<state, parent, files, sh, typed>>

In(p) == ftable[ofile[p][0]]
Out(p) == ftable[ofile[p][1]]

\* read(0): a byte, which cat will write, or end of file; a pipe that is empty
\* and still written to blocks.  The console's user types control-D.
Read(p) ==
  LET f == ofile[p][0]
      byte == \/ In(p).kind = "inode" /\ In(p).off = 0
              \/ In(p).kind = "pipe" /\ pipes[In(p).pi].n > 0
  IN
  /\ At(p, "cat")
  /\ IF f # 0 /\ In(p).readable /\ byte
     THEN /\ Goto(p, I("put", 0) \o code[p])
          /\ IF In(p).kind = "pipe"
             THEN pipes' = [pipes EXCEPT ![In(p).pi].n = @ - 1] /\ UNCHANGED ftable
             ELSE ftable' = [ftable EXCEPT ![f].off = 1] /\ UNCHANGED pipes
     ELSE /\ f # 0 /\ In(p).readable /\ In(p).kind = "pipe" => ~pipes[In(p).pi].writeopen
          /\ Goto(p, Exit) /\ UNCHANGED <<ftable, pipes>>
  /\ UNCHANGED <<state, parent, ofile, sh, typed>>

\* write(1): cat stops when it fails, echo takes no notice.
Write(p) ==
  LET ok == ofile[p][1] # 0 /\ Out(p).writable
      pi == pipes[Out(p).pi]
  IN
  /\ At(p, "put") \/ At(p, "echo")
  /\ \/ /\ ok /\ Out(p).kind # "pipe" /\ Then(p) /\ UNCHANGED pipes
     \/ /\ ok /\ Out(p).kind = "pipe" /\ pi.readopen /\ pi.n < PIPESIZE
        /\ pipes' = [pipes EXCEPT ![Out(p).pi].n = @ + 1] /\ Then(p)
     \/ /\ ~ok \/ (Out(p).kind = "pipe" /\ ~pi.readopen)
        /\ Goto(p, IF At(p, "put") THEN Exit ELSE Tail(code[p])) /\ UNCHANGED pipes
  /\ UNCHANGED <<state, parent, ofile, ftable, sh, typed>>

-----------------------------------------------------------------------------
(* The shell's main, and init.                                             *)

\* main makes sure descriptors 0 to 2 are open.
Console(p) ==
  /\ At(p, "console")
  /\ IF CanOpen(p)
     THEN LET fd == Least(FreeFds(p)) IN
          /\ open(p, "console", TRUE, TRUE)
          /\ Goto(p, IF fd >= 3 THEN I("close", fd) \o Tail(code[p]) ELSE code[p])
     ELSE Then(p) /\ UNCHANGED files
  /\ UNCHANGED <<state, parent, sh, typed>>

\* getcmd: a line, which a child parses and runs, or end of file.
Prompt(p) ==
  /\ At(p, "prompt") /\ typed < Len(Input) /\ typed' = typed + 1
  /\ \/ \E line \in Input[typed'] :
          Goto(p, I("fork", RunCode(line, parsecmd(line))) \o I("wait", 0) \o code[p])
     \/ Goto(p, Exit)
  /\ UNCHANGED <<state, parent, files, sh>>

\* init starts a shell; were there no process for it, init would exit and the
\* kernel panic.
Spawn ==
  /\ At(init, "spawn") /\ Unused # {}
  /\ kfork(init, Least(Unused), I("console", 0) \o I("prompt", 0), I("reap", 0))
  /\ sh' = Least(Unused) /\ UNCHANGED typed

\* init reaps its shell, which it restarts, or a process without parent.
Reap ==
  /\ At(init, "reap")
  /\ \E q \in Pids : kwait(init, q) /\ Goto(init, IF q = sh THEN I("spawn", 0) ELSE code[init])
  /\ UNCHANGED <<files, sh, typed>>

Step(p) ==
  \/ Close(p) \/ Dup(p) \/ Open(p) \/ Pipe(p) \/ Fork(p) \/ Run(p) \/ Exec(p)
  \/ ExitFiles(p) \/ ExitZombie(p) \/ Wait(p) \/ Read(p) \/ Write(p) \/ Console(p)

Next == (\E p \in Pids : Step(p) \/ Prompt(p)) \/ Spawn \/ Reap

\* Every process runs; nobody need type anything.
Fairness == (\A p \in Pids : WF_vars(Step(p))) /\ WF_vars(Spawn) /\ WF_vars(Reap)

Spec == Init /\ [][Next]_vars /\ Fairness

-----------------------------------------------------------------------------
(* Properties.                                                             *)

\* A file's reference count is the number of descriptors that name it, over
\* all processes, and an end of a pipe is open exactly while a file for it is:
\* fork, dup, close and exit never lose or leak one (filedup, fileclose).  A
\* program starts with descriptors 0, 1 and 2 and no other: redirections and
\* pipes land on the descriptor they are for, because it is the lowest free
\* one, and no end of a pipe stays open in a program (case PIPE and REDIR).
RefsMatchDescriptors ==
  /\ \A f \in DOMAIN ftable :
       ftable[f].ref = Cardinality({pf \in Pids \X Fds : ofile[pf[1]][pf[2]] = f})
  /\ \A i \in DOMAIN pipes : \A wr \in BOOLEAN :
       (IF wr THEN pipes[i].writeopen ELSE pipes[i].readopen)
         <=> \E f \in DOMAIN ftable : ftable[f].kind = "pipe" /\ ftable[f].pi = i /\ ftable[f].writable = wr
  /\ \A p \in Pids : At(p, "exec") => FreeFds(p) = Fds \ 0..2

\* Every command line comes to an end: the shell is back at its prompt, every
\* process it started, also in the background, has exited and been reaped, by
\* the shell or by init, and no pipe is left.  A write end that stayed open
\* would leave a reader of the pipe waiting for ever.
JobsEnd ==
  <>[](/\ sh # 0 /\ Unused = Pids \ {init, sh} /\ At(sh, "prompt")
       /\ \A i \in DOMAIN pipes : pipes[i] = NoPipe)
=============================================================================
