------------------------------- MODULE MCFiles -------------------------------
(***************************************************************************)
(* Model checking of names and inodes (Fs, as in MCFs) and of the contents *)
(* of one file (FileIO).  Fs keeps no contents and FileIO one inode that   *)
(* stays, so they share no state and one run checks them side by side:     *)
(* part says which one runs.                                               *)
(***************************************************************************)
EXTENDS MCFs

CONSTANTS Writers, OpenFiles, FileOf, BSIZE, NDIRECT, NINDIRECT, MAXOPBLOCKS, UINT, Disk,
          Sizes, MaxWrites, MaxReads, MaxFaults, MaxTruncs

VARIABLES part, ip, off, io_pc, log, flat, tried, left

io_vars == <<ip, off, io_pc, log, flat, tried, left>>

IO == INSTANCE FileIO WITH Procs <- Writers, pc <- io_pc

ASSUME IO!FileIOAssumption

\* Two processes share an open file, a third has opened the file itself.
MCFileOf == [w \in {"p1", "p2", "p3"} |-> IF w = "p3" THEN "f2" ELSE "f1"]

BothInit == part \in {"names", "contents"} /\ Init /\ IO!Init

\* Every write the bounds allow has been made.
Written ==
  /\ left.write = 0 /\ \A w \in Writers : io_pc[w] = IO!NoWrite
  /\ UNCHANGED io_vars

BothNext ==
  /\ UNCHANGED part
  /\ \/ part = "names" /\ Next /\ UNCHANGED io_vars
     \/ part = "contents" /\ (IO!Next \/ Written) /\ UNCHANGED vars

BothSpec == BothInit /\ [][BothNext]_<<part, vars, io_vars>>

\* A read at any offset and of any size gives the bytes of the completed writes in
\* their order, or bytes a write that failed at a bad address had for that
\* position, whatever transactions of others and truncations came between the
\* transactions of a write (filewrite, writei, readi, bmap).
FileIsFlat == part = "contents" => IO!FileIsFlat

\* No transaction of a write logs more blocks than begin_op has reserved for it,
\* also when it starts within a block and needs the indirect block (filewrite).
TransactionFits == IO!TransactionFits
=============================================================================
