------------------------------- MODULE FileIO --------------------------------
(***************************************************************************)
(* Reading and writing a file: fileread and filewrite of file.c, readi,    *)
(* writei and bmap of fs.c, for one inode that is open several times.  A   *)
(* struct file has an offset that all processes that inherited it share.   *)
(* A write is cut into transactions; each holds the inode's lock from      *)
(* begin_op to end_op and is one step.                                     *)
(*                                                                         *)
(* A byte is the name of the process that wrote it.  The inode is a record *)
(* of its size, which blocks it has, whether it has its indirect block,    *)
(* how many blocks are left on the disk and the bytes of the blocks, by    *)
(* their position in the file, as the buffer cache shows them.             *)
(***************************************************************************)
EXTENDS Integers, Sequences, FiniteSets

CONSTANTS
  Procs,
  OpenFiles,     \* struct files of the inode
  FileOf,        \* the one each process has
  BSIZE,         \* bytes in a block (1024)
  NDIRECT,       \* direct blocks of an inode (12)
  NINDIRECT,     \* blocks named by the indirect block (256)
  MAXOPBLOCKS,   \* blocks a transaction may log (10)
  UINT,          \* number of values of a uint
  Disk,          \* blocks free at the start
  Sizes,         \* sizes of writes
  MaxWrites,     \* bound on the number of writes
  MaxReads,      \* bound on the number of reads
  MaxFaults,     \* bound on the number of bad user addresses
  MaxTruncs      \* bound on the number of truncations

MAXFILE == NDIRECT + NINDIRECT
Positions == 0..(MAXFILE * BSIZE - 1)
NONE == "none"

\* Blocks in a transaction: data blocks by their number in the file, and these.  The
\* disk is small enough to have one block of bitmap.
INODE == -1
INDIRECT == -2
BITMAP == -3
Lesser(a, b) == IF a < b THEN a ELSE b

FileIOAssumption ==
  /\ FileOf \in [Procs -> OpenFiles] /\ Sizes \subseteq 0..(UINT - 1)
  /\ MAXFILE * BSIZE < UINT /\ NONE \notin Procs

VARIABLES
  ip,      \* the inode
  off,     \* the offset of each struct file
  pc,      \* the write of each process: [n, i], n = 0 when it makes none
  log,     \* blocks the last transaction logged
  flat,    \* history: the bytes of the writes since the last truncation, by position
  tried,   \* history: <<position, byte>> that a write tried and did not complete
  left     \* writes, reads, faults and truncations still to come

vars == <<ip, off, pc, log, flat, tried, left>>

NoWrite == [n |-> 0, i |-> 0]

Init ==
  /\ ip = [size |-> 0, addrs |-> {}, ind |-> FALSE, avail |-> Disk,
           data |-> [a \in Positions |-> NONE]]
  /\ off = [f \in OpenFiles |-> 0]
  /\ pc = [p \in Procs |-> NoWrite]
  /\ log = {} /\ flat = <<>> /\ tried = {}
  /\ left = [write |-> MaxWrites, read |-> MaxReads, fault |-> MaxFaults, trunc |-> MaxTruncs]

-----------------------------------------------------------------------------
(* bmap: the inode s with block bn, and what was logged for it; ok says    *)
(* whether there was a block on the disk for it.  A new block is zeroed.   *)

Zeroed(s, bn) ==
  [s EXCEPT !.addrs = @ \cup {bn}, !.avail = @ - 1,
            !.data = [a \in Positions |-> IF a \div BSIZE = bn THEN NONE ELSE @[a]]]

bmap(s, bn) ==
  LET needInd == bn >= NDIRECT /\ ~s.ind
      s1 == IF needInd /\ s.avail > 0 THEN [s EXCEPT !.ind = TRUE, !.avail = @ - 1] ELSE s
      indLog == IF needInd /\ s.avail > 0 THEN {BITMAP, INDIRECT} ELSE {}
  IN IF bn \in s.addrs THEN [s |-> s, log |-> {}, ok |-> TRUE]
     ELSE IF s1.avail = 0 \/ (bn >= NDIRECT /\ ~s1.ind) THEN [s |-> s1, log |-> indLog, ok |-> FALSE]
     ELSE [s |-> Zeroed(s1, bn), ok |-> TRUE,
           log |-> indLog \cup {BITMAP, bn}
                    \cup (IF bn >= NDIRECT THEN {INDIRECT} ELSE {})]

RECURSIVE ReadLoop(_, _, _), WriteLoop(_, _, _, _, _, _)

\* The bytes read; a hole cannot be read, because bmap would fill it.
ReadLoop(s, o, n) ==
  IF n = 0 THEN <<>>
  ELSE LET m == Lesser(n, BSIZE - (o % BSIZE)) IN
       [k \in 1..m |-> s.data[o + k - 1]] \o ReadLoop(s, o + m, n - m)

readi(s, o, n) ==
  IF o > s.size \/ (o + n) % UINT < o THEN <<>>
  ELSE ReadLoop(s, o, IF o + n > s.size THEN s.size - o ELSE n)

\* Bytes of process p from o on; the user address is bad from byte bad on.  The
\* part of a piece before a bad address reaches the buffer and is not logged.
WriteLoop(s, p, o, n, bad, lg) ==
  LET b == bmap(s, o \div BSIZE)
      m == Lesser(n, BSIZE - (o % BSIZE))
      Put(k) == [b.s EXCEPT !.data = [a \in Positions |-> IF a \in o..(o + k - 1) THEN p ELSE @[a]]]
  IN IF n = 0 THEN [s |-> s, off |-> o, log |-> lg]
     ELSE IF ~b.ok THEN [s |-> b.s, off |-> o, log |-> lg \cup b.log]
     ELSE IF bad < m THEN [s |-> Put(bad), off |-> o, log |-> lg \cup b.log]
     ELSE WriteLoop(Put(m), p, o + m, n - m, bad - m, lg \cup b.log \cup {o \div BSIZE})

\* Fault: the size is set to the end of the write asked for.
writei_AskedSize(s, p, o, n, bad) ==
  IF o > s.size \/ o + n > MAXFILE * BSIZE THEN [s |-> s, r |-> -1, log |-> {}]
  ELSE LET w == WriteLoop(s, p, o, n, bad, {}) IN
       [s |-> [w.s EXCEPT !.size = IF o + n > @ THEN o + n ELSE @],
        r |-> w.off - o, log |-> w.log \cup {INODE}]

\* The test off + n < off is left out: filewrite's pieces are shorter than MAXFILE
\* blocks, so off + n does not wrap while off is at most the size.
writei(s, p, o, n, bad) ==
  IF o > s.size \/ o + n > MAXFILE * BSIZE THEN [s |-> s, r |-> -1, log |-> {}]
  ELSE LET w == WriteLoop(s, p, o, n, bad, {}) IN
       [s |-> [w.s EXCEPT !.size = IF w.off > @ THEN w.off ELSE @],
        r |-> w.off - o, log |-> w.log \cup {INODE}]

-----------------------------------------------------------------------------
\* Fault: the blocks that an unaligned write and the bitmap add are forgotten.
max_NoSlop == (MAXOPBLOCKS - 1) * BSIZE

\* The bytes filewrite puts in a transaction.
max == ((MAXOPBLOCKS - 1 - 1 - 2) \div 2) * BSIZE

write(p, n) ==
  /\ pc[p] = NoWrite /\ left.write > 0
  /\ pc' = [pc EXCEPT ![p] = [n |-> n, i |-> 0]]
  /\ left' = [left EXCEPT !.write = @ - 1]
  /\ UNCHANGED <<ip, off, log, flat, tried>>

\* The history of a write of k bytes at o.
Over(seq, o, k, p) ==
  [a \in 1..(IF o + k > Len(seq) THEN o + k ELSE Len(seq)) |->
     IF a \in (o + 1)..(o + k) THEN p ELSE seq[a]]

\* One turn of filewrite's loop.
filewrite(p, bad) ==
  LET f == FileOf[p]
      n1 == Lesser(pc[p].n - pc[p].i, max)
      w == writei(ip, p, off[f], n1, bad)
  IN /\ pc[p].i < pc[p].n
     /\ bad < n1 => left.fault > 0
     /\ ip' = w.s /\ log' = w.log
     /\ off' = IF w.r > 0 THEN [off EXCEPT ![f] = @ + w.r] ELSE off
     /\ pc' = [pc EXCEPT ![p] = IF w.r # n1 \/ @.i + n1 = @.n THEN NoWrite ELSE [@ EXCEPT !.i = @ + n1]]
     /\ flat' = IF w.r > 0 THEN Over(flat, off[f], w.r, p) ELSE flat
     /\ tried' = IF w.r = n1 \/ w.r = -1 THEN tried
                 ELSE tried \cup {<<a, p>> : a \in (off[f] + w.r)..(off[f] + n1 - 1)}
     /\ left' = IF bad < n1 THEN [left EXCEPT !.fault = @ - 1] ELSE left

\* What is read moves the offset.
fileread(p, n) ==
  LET f == FileOf[p]
      got == readi(ip, off[f], n)
  IN /\ pc[p] = NoWrite /\ got # <<>> /\ left.read > 0
     /\ off' = [off EXCEPT ![f] = @ + Len(got)]
     /\ left' = [left EXCEPT !.read = @ - 1]
     /\ UNCHANGED <<ip, pc, log, flat, tried>>

\* A process opens the file with O_TRUNC: itrunc frees the blocks, and no offset
\* of a struct file that is open changes.
itrunc ==
  /\ left.trunc > 0
  /\ ip' = [size |-> 0, addrs |-> {}, ind |-> FALSE, avail |-> Disk, data |-> [a \in Positions |-> NONE]]
  /\ flat' = <<>> /\ tried' = {} /\ log' = {}
  /\ left' = [left EXCEPT !.trunc = @ - 1]
  /\ UNCHANGED <<off, pc>>

Next ==
  \/ \E p \in Procs, n \in Sizes \ {0} : write(p, n)
  \/ \E p \in Procs, bad \in 0..max : filewrite(p, bad)
  \/ \E p \in Procs, n \in Sizes : fileread(p, n)
  \/ itrunc

Spec == Init /\ [][Next]_vars

-----------------------------------------------------------------------------
(* Properties.                                                             *)

\* A read at any offset and of any size, a negative one taken as unsigned
\* included, gives the bytes of the completed writes in their order, or bytes a
\* write that failed at a bad address had for that position: never a hole or a
\* byte from elsewhere, whatever transactions of other processes and truncations
\* came between the transactions of a write.
FileIsFlat ==
  /\ ip.size = Len(flat)
  /\ \A o \in 0..(ip.size + 1) : \A n \in 0..(ip.size + 1 - o) \cup {UINT - 2, UINT - 1} :
       LET got == readi(ip, o, n) IN
       /\ Len(got) = IF o > ip.size \/ o + n >= UINT THEN 0 ELSE Lesser(n, ip.size - o)
       /\ \A k \in DOMAIN got : got[k] = flat[o + k] \/ <<o + k - 1, got[k]>> \in tried

\* No transaction of a write logs more blocks than begin_op has reserved for it,
\* also when it starts within a block and needs the indirect block.
TransactionFits == Cardinality(log) <= MAXOPBLOCKS
=============================================================================
