--------------------------------- MODULE Fs ---------------------------------
(***************************************************************************)
(* Inodes and directories: the inode table, link counts, block allocation  *)
(* and directory entries of kernel/fs.c, driven by the system calls of     *)
(* kernel/sysfile.c (open, create, mkdir, link, unlink) and by write and   *)
(* close of kernel/file.c.                                                 *)
(*                                                                         *)
(* A step runs between two points at which another process can intervene:  *)
(* taking an inode's sleeplock, a critical section of itable.lock, or an   *)
(* update of the bitmap or of an inode's block.  dinode and bitmap are the *)
(* file system as the buffer cache shows it.  Of a file's contents only    *)
(* the blocks that hold them are kept, of a directory's its entries.       *)
(*                                                                         *)
(* A call is a transaction from begin_op to end_op.  The log commits when  *)
(* none is running, so a crash at any time leaves the disk as it was in    *)
(* such a state: Reboot.                                                   *)
(***************************************************************************)
EXTENDS Integers, Sequences, FiniteSets

CONSTANTS
  Procs,
  Names,     \* of directory entries, ".." excluded
  Calls,     \* system calls the processes make: [op, path, new], where a path
             \* is the sequence of the names of an absolute path
  NINODES,   \* inodes of the disk, numbered from ROOTINO; also entries of itable
  NBLOCKS,   \* data blocks of the disk
  NULL

ROOTINO == 1
Inums == ROOTINO..NINODES
Blocks == 1..NBLOCKS
Entries == Names \cup {".."}

ASSUME FsAssumption ==
  /\ NINODES \in Nat \ {0} /\ NBLOCKS \in Nat \ {0}
  /\ \A c \in Calls : /\ c.op \in {"open", "create", "mkdir", "unlink", "link"}
                     /\ c.path \in Seq(Entries) \ {<<>>} /\ c.new \in Seq(Entries)
  /\ NULL \notin Procs

VARIABLES
  dinode,   \* inodes on disk: [type, nlink, addrs, ents], and the history stray
  bitmap,   \* blocks marked in use
  inode,    \* itable: [inum, ref, lock, valid, type, nlink, addrs]
  file,     \* the open file of each process: an entry of itable, or 0
  pc        \* the system call of each process

vars == <<dinode, bitmap, inode, file, pc>>

NoEntries == [e \in Entries |-> 0]
FreeInode == [type |-> "none", nlink |-> 0, addrs |-> {}, ents |-> NoEntries, stray |-> FALSE]
Unused == [inum |-> 0, ref |-> 0, lock |-> NULL, valid |-> FALSE,
           type |-> "none", nlink |-> 0, addrs |-> {}]

\* A process between two calls.  The pointers it holds to entries of itable
\* are cur (path walk), dp, ip and put (the one it is dropping).
Idle == [at |-> "idle", op |-> "", todo |-> <<>>, new |-> <<>>, n |-> 0,
         cur |-> 0, dp |-> 0, ip |-> 0, put |-> 0, ret |-> ""]

\* Every process has the root as its current directory.
FreshTable == [s \in Inums |->
  IF s = 1 THEN [Unused EXCEPT !.inum = ROOTINO, !.ref = Cardinality(Procs)] ELSE Unused]

\* The file system mkfs makes.
Init ==
  /\ dinode = [i \in Inums |-> IF i = ROOTINO
                 THEN [FreeInode EXCEPT !.type = "dir", !.nlink = 1, !.addrs = {1},
                                        !.ents = [NoEntries EXCEPT ![".."] = ROOTINO]]
                 ELSE FreeInode]
  /\ bitmap = {1}
  /\ inode = FreshTable
  /\ file = [p \in Procs |-> 0]
  /\ pc = [p \in Procs |-> Idle]

\* Drop the pointer to s as the last thing the call does.
Leave(p, s) ==
  pc' = [pc EXCEPT ![p] = [Idle EXCEPT !.at = "iput", !.ret = "idle", !.put = s]]

Lowest(S) == CHOOSE x \in S : \A y \in S : x <= y
At(p, at) == pc[p].at = at
Outstanding == {p \in Procs : ~At(p, "idle")}

-----------------------------------------------------------------------------
(* The inode table.                                                        *)

Has(s, n) == inode[s].ref > 0 /\ inode[s].inum = n

\* The entry iget finds or recycles, and the table after it.
Slot(n) == IF \E s \in Inums : Has(s, n) THEN CHOOSE s \in Inums : Has(s, n)
           ELSE Lowest({s \in Inums : inode[s].ref = 0})

\* Fault: the reference to an entry that is there is not counted.
iget_Uncounted(table, n) ==
  IF Has(Slot(n), n) THEN table
  ELSE [table EXCEPT ![Slot(n)] = [Unused EXCEPT !.inum = n, !.ref = 1]]

iget(table, n) ==
  [table EXCEPT ![Slot(n)] =
     IF Has(Slot(n), n) THEN [@ EXCEPT !.ref = @ + 1]
     ELSE [Unused EXCEPT !.inum = n, !.ref = 1]]

\* The entry as it is once locked by ilock.
ilock(s) ==
  IF inode[s].valid THEN inode[s]
  ELSE [inode[s] EXCEPT !.valid = TRUE, !.type = dinode[inode[s].inum].type,
          !.nlink = dinode[inode[s].inum].nlink, !.addrs = dinode[inode[s].inum].addrs]

Locked(s, p) == [ilock(s) EXCEPT !.lock = p]

\* The disk inode iupdate writes for entry c.
iupdate(c) == [dinode[c.inum] EXCEPT !.type = c.type, !.nlink = c.nlink, !.addrs = c.addrs]

\* The entry that a process is about to lock with ilock.
Wants(p) ==
  CASE At(p, "namex") -> pc[p].cur
    [] pc[p].at \in {"create", "mkdir", "unlink", "link2"} -> pc[p].dp
    [] pc[p].at \in {"open", "existing", "fill", "unlink2", "link", "bad_link"} -> pc[p].ip
    [] OTHER -> 0

\* ilock panics ("ilock: no type") when the inode is free on disk: the
\* process then stays where it is.
Panics(p) == Wants(p) # 0 /\ inode[Wants(p)].lock = NULL /\ ilock(Wants(p)).type = "none"
CanLock(p) == inode[Wants(p)].lock = NULL /\ ~Panics(p)

-----------------------------------------------------------------------------
(* iput                                                                    *)

\* Fault: the reference count is not looked at.
LastUse_Any(s) == inode[s].valid /\ inode[s].nlink = 0

\* No link and no other reference: truncate and free.
LastUse(s) == inode[s].ref = 1 /\ inode[s].valid /\ inode[s].nlink = 0

\* An entry without references is recycled by iget before it is read again.
Drop(p) ==
  /\ inode' = [inode EXCEPT ![pc[p].put] =
                 IF @.ref = 1 THEN Unused ELSE [@ EXCEPT !.ref = @ - 1]]
  /\ CASE pc[p].ret = "idle" -> pc' = [pc EXCEPT ![p] = Idle]
       [] pc[p].ret = "linked" -> Leave(p, pc[p].ip)
       [] OTHER -> pc' = [pc EXCEPT ![p].at = pc[p].ret, ![p].put = 0, ![p].ret = ""]
  /\ UNCHANGED <<dinode, bitmap, file>>

iput(p) ==
  /\ \/ At(p, "iput") /\ ~LastUse(pc[p].put)
     \/ At(p, "drop")
  /\ Drop(p)

IputLast(p) ==
  /\ At(p, "iput") /\ LastUse(pc[p].put) /\ inode[pc[p].put].lock = NULL
  /\ inode' = [inode EXCEPT ![pc[p].put].lock = p]
  /\ pc' = [pc EXCEPT ![p].at = "itrunc"]
  /\ UNCHANGED <<dinode, bitmap, file>>

\* itrunc frees one block after the other, for iput or for O_TRUNC.
Truncating(p) == IF At(p, "itrunc") THEN pc[p].put ELSE file[p]

bfree(s, b) ==
  /\ bitmap' = bitmap \ {b}
  /\ inode' = [inode EXCEPT ![s].addrs = @ \ {b}]

itrunc(p) ==
  LET s == Truncating(p) IN
  /\ pc[p].at \in {"itrunc", "trunc"} /\ inode[s].addrs # {}
  /\ bfree(s, Lowest(inode[s].addrs))
  /\ UNCHANGED <<dinode, file, pc>>

\* Fault: the entry stays valid.
Invalid_Not(c) == [c EXCEPT !.type = "none", !.lock = NULL]

Invalid(c) == [c EXCEPT !.type = "none", !.lock = NULL, !.valid = FALSE]

\* History: the inodes with a name in the directories D, as D is freed.
Strayed(D) ==
  [i \in Inums |-> [dinode[i] EXCEPT !.stray =
     @ \/ \E d \in D, e \in Names : dinode[d].ents[e] = i]]

\* The rest of iput's freeing: type 0 on disk, the entry no longer valid.
Ifree(p) ==
  LET s == pc[p].put
      i == inode[s].inum
  IN
  /\ At(p, "itrunc") /\ inode[s].addrs = {}
  /\ dinode' = [Strayed({i}) EXCEPT ![i] =
                  [iupdate(Invalid(inode[s])) EXCEPT !.ents = NoEntries]]
  /\ inode' = [inode EXCEPT ![s] = Invalid(inode[s])]
  /\ pc' = [pc EXCEPT ![p].at = "drop"]
  /\ UNCHANGED <<bitmap, file>>

\* The end of open with O_TRUNC.
Truncated(p) ==
  LET s == file[p] IN
  /\ At(p, "trunc") /\ inode[s].addrs = {}
  /\ dinode' = [dinode EXCEPT ![inode[s].inum] = iupdate(inode[s])]
  /\ inode' = [inode EXCEPT ![s].lock = NULL]
  /\ pc' = [pc EXCEPT ![p] = Idle]
  /\ UNCHANGED <<bitmap, file>>

-----------------------------------------------------------------------------
(* Path walk: namex, for namei and nameiparent.                            *)

SysCall(p, c) ==
  /\ At(p, "idle")
  /\ inode' = iget(inode, ROOTINO)
  /\ pc' = [pc EXCEPT ![p] = [Idle EXCEPT !.at = "namex", !.op = c.op, !.todo = c.path,
                                          !.new = c.new, !.cur = Slot(ROOTINO)]]
  /\ UNCHANGED <<dinode, bitmap, file>>

\* nameiparent is for the calls that change a directory; sys_link first looks
\* up the old path.
WalksToParent(p) == pc[p].op \in {"create", "mkdir", "unlink"} \/ pc[p].ip # 0

dirlookup(c, name) == dinode[c.inum].ents[name]

\* The directory's disk inode with one more entry.
dirlink(d, name, n) == [d EXCEPT !.ents[name] = n]

\* The end of nameiparent, with the last name left in todo.
NameiParentEnd(p) ==
  LET s == pc[p].cur IN
  /\ At(p, "namex") /\ Len(pc[p].todo) = 1 /\ WalksToParent(p)
  /\ CanLock(p) /\ ilock(s).type = "dir"
  /\ inode' = [inode EXCEPT ![s] = ilock(s)]
  /\ pc' = [pc EXCEPT ![p].at = IF pc[p].ip # 0 THEN "link2" ELSE pc[p].op,
                      ![p].dp = s, ![p].cur = 0]
  /\ UNCHANGED <<dinode, bitmap, file>>

\* One more name: look it up, release the directory, drop it.  namei returns
\* what it finds under the last one.
NamexStep(p) ==
  LET s == pc[p].cur
      last == Len(pc[p].todo) = 1
      n == dirlookup(inode[s], Head(pc[p].todo))
      found == ilock(s).type = "dir" /\ n # 0
      unlocked == [inode EXCEPT ![s] = ilock(s)]
  IN
  /\ At(p, "namex") /\ CanLock(p)
  /\ ilock(s).type = "dir" => ~(last /\ WalksToParent(p))
  /\ inode' = IF found THEN iget(unlocked, n) ELSE unlocked
  /\ pc' = [pc EXCEPT ![p].at = "iput", ![p].put = s,
                      ![p].cur = IF found /\ ~last THEN Slot(n) ELSE 0,
                      ![p].ip = IF found /\ last THEN Slot(n) ELSE @,
                      ![p].todo = IF found THEN Tail(@) ELSE <<>>,
                      ![p].ret = CASE found /\ ~last -> "namex"
                                   [] found /\ last -> pc[p].op
                                   [] OTHER -> IF pc[p].ip # 0 THEN "bad_link" ELSE "idle"]
  /\ UNCHANGED <<dinode, bitmap, file>>

-----------------------------------------------------------------------------
(* create, for open with O_CREATE and for mkdir; open.                     *)

Name(p) == Head(pc[p].todo)
FreeBlocks == Blocks \ bitmap

\* Lock the parent and look the name up: either go on with what is there ...
CreateFound(p) ==
  LET s == pc[p].dp
      n == dirlookup(inode[s], Name(p))
  IN
  /\ pc[p].at \in {"create", "mkdir"} /\ CanLock(p) /\ n # 0
  /\ inode' = iget([inode EXCEPT ![s] = ilock(s)], n)
  /\ pc' = [pc EXCEPT ![p].at = "iput", ![p].ret = "existing", ![p].put = s,
                      ![p].dp = 0, ![p].ip = Slot(n)]
  /\ UNCHANGED <<dinode, bitmap, file>>

Existing(p) ==
  LET s == pc[p].ip
      usable == pc[p].op = "create" /\ ilock(s).type = "file"
  IN
  /\ At(p, "existing") /\ CanLock(p)
  /\ inode' = [inode EXCEPT ![s] = IF usable THEN Locked(s, p) ELSE ilock(s)]
  /\ IF usable THEN pc' = [pc EXCEPT ![p].at = "opened", ![p].todo = <<>>] ELSE Leave(p, s)
  /\ UNCHANGED <<dinode, bitmap, file>>

\* ... or keep the parent locked and make a new inode.
CreateNew(p) ==
  LET s == pc[p].dp IN
  /\ pc[p].at \in {"create", "mkdir"} /\ CanLock(p) /\ dirlookup(inode[s], Name(p)) = 0
  /\ inode' = [inode EXCEPT ![s] = Locked(s, p)]
  /\ pc' = [pc EXCEPT ![p].at = "ialloc"]
  /\ UNCHANGED <<dinode, bitmap, file>>

\* ialloc marks the inode allocated on disk, then gets it.
ialloc(p) ==
  LET free == {i \in Inums : dinode[i].type = "none"}
      type == IF pc[p].op = "mkdir" THEN "dir" ELSE "file"
  IN
  /\ At(p, "ialloc")
  /\ IF free = {}
     THEN /\ pc' = [pc EXCEPT ![p].at = "bad"]
          /\ UNCHANGED dinode
     ELSE /\ dinode' = [dinode EXCEPT ![Lowest(free)] = [FreeInode EXCEPT !.type = type]]
          /\ pc' = [pc EXCEPT ![p].at = "iget", ![p].n = Lowest(free)]
  /\ UNCHANGED <<bitmap, inode, file>>

IallocGet(p) ==
  /\ At(p, "iget")
  /\ inode' = iget(inode, pc[p].n)
  /\ pc' = [pc EXCEPT ![p].at = "fill", ![p].ip = Slot(pc[p].n), ![p].n = 0]
  /\ UNCHANGED <<dinode, bitmap, file>>

\* A directory takes a block for "." and "..".  The new entry may need one
\* more block for the parent, which fails when none is left.
Fill(p) ==
  LET s == pc[p].ip
      d == pc[p].dp
      isdir == pc[p].op = "mkdir"
      blocks == IF isdir /\ FreeBlocks # {} THEN {Lowest(FreeBlocks)} ELSE {}
      c == [Locked(s, p) EXCEPT !.addrs = blocks]
      parent == [inode[d] EXCEPT !.nlink = IF isdir THEN @ + 1 ELSE @, !.lock = NULL]
      dots == [NoEntries EXCEPT ![".."] = IF isdir THEN inode[d].inum ELSE 0]
  IN
  /\ At(p, "fill") /\ CanLock(p)
  /\ bitmap' = bitmap \cup blocks
  /\ \/ /\ isdir => blocks # {}
        /\ inode' = [inode EXCEPT ![s] = [c EXCEPT !.nlink = 1], ![d] = parent]
        /\ dinode' = [dinode EXCEPT
             ![c.inum] = [iupdate([c EXCEPT !.nlink = 1]) EXCEPT !.ents = dots],
             ![parent.inum] = dirlink(iupdate(parent), Name(p), c.inum)]
        /\ pc' = [pc EXCEPT ![p].at = "iput", ![p].ret = "opened", ![p].put = d,
                              ![p].dp = 0, ![p].todo = <<>>]
     \/ /\ FreeBlocks \ blocks = {}
        /\ inode' = [inode EXCEPT ![s] = [c EXCEPT !.nlink = 0, !.lock = NULL]]
        /\ dinode' = [dinode EXCEPT ![c.inum] = iupdate([c EXCEPT !.nlink = 0])]
        /\ pc' = [pc EXCEPT ![p].at = "iput", ![p].ret = "bad", ![p].put = s, ![p].ip = 0]
  /\ UNCHANGED file

\* Give up: unlock and drop the parent.
Bad(p) ==
  /\ At(p, "bad")
  /\ inode' = [inode EXCEPT ![pc[p].dp].lock = NULL]
  /\ Leave(p, pc[p].dp)
  /\ UNCHANGED <<dinode, bitmap, file>>

\* A directory can be opened for reading only.
open(p, rdonly) ==
  LET s == pc[p].ip IN
  /\ At(p, "open") /\ CanLock(p)
  /\ IF ilock(s).type = "dir" /\ ~rdonly
     THEN /\ inode' = [inode EXCEPT ![s] = ilock(s)]
          /\ Leave(p, s)
     ELSE /\ inode' = [inode EXCEPT ![s] = Locked(s, p)]
          /\ pc' = [pc EXCEPT ![p].at = "opened"]
  /\ UNCHANGED <<dinode, bitmap, file>>

\* The inode is found or made and locked: install it as the open file, perhaps
\* truncating it.  mkdir, and open without a free descriptor, drop it.
Opened(p, trunc) ==
  LET s == pc[p].ip
      keep == pc[p].op # "mkdir" /\ file[p] = 0
  IN
  /\ At(p, "opened")
  /\ trunc => keep /\ inode[s].type = "file"
  /\ file' = IF keep THEN [file EXCEPT ![p] = s] ELSE file
  /\ inode' = IF trunc THEN inode ELSE [inode EXCEPT ![s].lock = NULL]
  /\ IF keep THEN pc' = [pc EXCEPT ![p] = [Idle EXCEPT !.at = IF trunc THEN "trunc" ELSE "idle"]]
     ELSE Leave(p, s)
  /\ UNCHANGED <<dinode, bitmap>>

-----------------------------------------------------------------------------
(* write and close                                                         *)

\* filewrite locks the inode.  The first block of a file is direct; the second
\* needs the indirect block and is written only when the first is there.  n is
\* the number of blocks the inode must have.
filewrite(p, n) ==
  LET s == file[p] IN
  /\ At(p, "idle") /\ s # 0 /\ inode[s].lock = NULL /\ ilock(s).type = "file"
  /\ n = 1 \/ ilock(s).addrs # {}
  /\ inode' = [inode EXCEPT ![s] = Locked(s, p)]
  /\ pc' = [pc EXCEPT ![p].at = "bmap", ![p].n = n]
  /\ UNCHANGED <<dinode, bitmap, file>>

\* Fault: the block is not marked in use.
balloc_Unmarked(s) ==
  /\ inode' = [inode EXCEPT ![s].addrs = @ \cup {Lowest(FreeBlocks)}]
  /\ UNCHANGED bitmap

balloc(s) ==
  /\ bitmap' = bitmap \cup {Lowest(FreeBlocks)}
  /\ inode' = [inode EXCEPT ![s].addrs = @ \cup {Lowest(FreeBlocks)}]

bmap(p) ==
  /\ At(p, "bmap") /\ Cardinality(inode[file[p]].addrs) < pc[p].n /\ FreeBlocks # {}
  /\ balloc(file[p])
  /\ UNCHANGED <<dinode, file, pc>>

\* The write is complete, or short because no block is left.
writei(p) ==
  LET s == file[p] IN
  /\ At(p, "bmap")
  /\ Cardinality(inode[s].addrs) >= pc[p].n \/ FreeBlocks = {}
  /\ dinode' = [dinode EXCEPT ![inode[s].inum] = iupdate(inode[s])]
  /\ inode' = [inode EXCEPT ![s].lock = NULL]
  /\ pc' = [pc EXCEPT ![p] = Idle]
  /\ UNCHANGED <<bitmap, file>>

fileclose(p) ==
  /\ At(p, "idle") /\ file[p] # 0
  /\ file' = [file EXCEPT ![p] = 0]
  /\ Leave(p, file[p])
  /\ UNCHANGED <<dinode, bitmap, inode>>

-----------------------------------------------------------------------------
(* sys_unlink                                                              *)

\* Lock the parent, look the name up; the parent stays locked.
unlink(p) ==
  LET s == pc[p].dp
      n == dirlookup(inode[s], Name(p))
      found == Name(p) # ".." /\ n # 0
      locked == [inode EXCEPT ![s] = Locked(s, p)]
  IN
  /\ At(p, "unlink") /\ CanLock(p)
  /\ inode' = IF found THEN iget(locked, n) ELSE locked
  /\ pc' = [pc EXCEPT ![p].at = IF found THEN "unlink2" ELSE "bad",
                      ![p].ip = IF found THEN Slot(n) ELSE 0]
  /\ UNCHANGED <<dinode, bitmap, file>>

isdirempty(c) == \A name \in Names : dinode[c.inum].ents[name] = 0

Removable(c) == c.type = "dir" => isdirempty(c)

UnlinkNotEmpty(p) ==
  LET s == pc[p].ip IN
  /\ At(p, "unlink2") /\ CanLock(p) /\ ilock(s).nlink >= 1 /\ ~Removable(ilock(s))
  /\ inode' = [inode EXCEPT ![s] = ilock(s)]
  /\ pc' = [pc EXCEPT ![p].at = "iput", ![p].ret = "bad", ![p].put = s, ![p].ip = 0]
  /\ UNCHANGED <<dinode, bitmap, file>>

\* Clear the entry and release the parent ...
UnlinkEntry(p) ==
  LET s == pc[p].ip
      d == pc[p].dp
      parent == [inode[d] EXCEPT !.nlink = IF ilock(s).type = "dir" THEN @ - 1 ELSE @,
                                 !.lock = NULL]
  IN
  /\ At(p, "unlink2") /\ CanLock(p) /\ ilock(s).nlink >= 1 /\ Removable(ilock(s))
  /\ inode' = [inode EXCEPT ![s] = Locked(s, p), ![d] = parent]
  /\ dinode' = [dinode EXCEPT ![parent.inum] =
                  [iupdate(parent) EXCEPT !.ents[Name(p)] = 0]]
  /\ pc' = [pc EXCEPT ![p].at = "iput", ![p].ret = "unlink3", ![p].put = d,
                      ![p].dp = 0, ![p].todo = <<>>]
  /\ UNCHANGED <<bitmap, file>>

\* ... then the link.
UnlinkDone(p) ==
  LET s == pc[p].ip
      c == [inode[s] EXCEPT !.nlink = @ - 1, !.lock = NULL]
  IN
  /\ At(p, "unlink3")
  /\ inode' = [inode EXCEPT ![s] = c]
  /\ dinode' = [dinode EXCEPT ![c.inum] = iupdate(c)]
  /\ Leave(p, s)
  /\ UNCHANGED <<bitmap, file>>

-----------------------------------------------------------------------------
(* sys_link                                                                *)

\* Fault: the new link is not counted.
Counted_Not(c) == c

Counted(c) == [c EXCEPT !.nlink = @ + 1]

\* The link is counted before the new entry is written; then walk again, to
\* the parent of the new path.  A directory is refused.
link(p) ==
  LET s == pc[p].ip
      isdir == ilock(s).type = "dir"
      c == Counted(ilock(s))
  IN
  /\ At(p, "link") /\ CanLock(p)
  /\ IF isdir
     THEN /\ inode' = [inode EXCEPT ![s] = ilock(s)]
          /\ Leave(p, s)
          /\ UNCHANGED dinode
     ELSE /\ inode' = iget([inode EXCEPT ![s] = c], ROOTINO)
          /\ dinode' = [dinode EXCEPT ![c.inum] = iupdate(c)]
          /\ pc' = [pc EXCEPT ![p].at = "namex", ![p].cur = Slot(ROOTINO),
                              ![p].todo = pc[p].new, ![p].new = <<>>]
  /\ UNCHANGED <<bitmap, file>>

\* dirlink fails when the name is there, or when the directory needs a block
\* and none is left.
LinkEntry(p) ==
  LET d == pc[p].dp IN
  /\ At(p, "link2") /\ CanLock(p)
  /\ inode' = [inode EXCEPT ![d] = ilock(d)]
  /\ \/ /\ dirlookup(inode[d], Name(p)) = 0
        /\ dinode' = [dinode EXCEPT ![inode[d].inum] = dirlink(@, Name(p), inode[pc[p].ip].inum)]
        /\ pc' = [pc EXCEPT ![p].at = "iput", ![p].ret = "linked", ![p].put = d,
                            ![p].dp = 0, ![p].todo = <<>>]
     \/ /\ dirlookup(inode[d], Name(p)) # 0 \/ FreeBlocks = {}
        /\ pc' = [pc EXCEPT ![p].at = "iput", ![p].ret = "bad_link", ![p].put = d,
                            ![p].dp = 0, ![p].todo = <<>>]
        /\ UNCHANGED dinode
  /\ UNCHANGED <<bitmap, file>>

\* Fault: the link that could not be made stays counted.
Uncounted_Not(c) == c

Uncounted(c) == [c EXCEPT !.nlink = @ - 1]

BadLink(p) ==
  LET s == pc[p].ip
      c == Uncounted(ilock(s))
  IN
  /\ At(p, "bad_link") /\ CanLock(p)
  /\ inode' = [inode EXCEPT ![s] = c]
  /\ dinode' = [dinode EXCEPT ![c.inum] = iupdate(c)]
  /\ Leave(p, s)
  /\ UNCHANGED <<bitmap, file>>

-----------------------------------------------------------------------------
(* A crash, recovery of the log, and ireclaim: inodes without links that    *)
(* were in use are freed.                                                  *)

Orphans == {i \in Inums : dinode[i].type # "none" /\ dinode[i].nlink = 0}

Reboot ==
  /\ Outstanding = {}
  /\ dinode' = [i \in Inums |-> IF i \in Orphans THEN FreeInode ELSE Strayed(Orphans)[i]]
  /\ bitmap' = bitmap \ UNION {dinode[i].addrs : i \in Orphans}
  /\ inode' = FreshTable
  /\ file' = [p \in Procs |-> 0]
  /\ UNCHANGED pc

-----------------------------------------------------------------------------
Next ==
  \/ \E p \in Procs :
       \/ \E c \in Calls : SysCall(p, c)
       \/ iput(p) \/ IputLast(p) \/ itrunc(p) \/ Ifree(p) \/ Truncated(p)
       \/ NameiParentEnd(p) \/ NamexStep(p)
       \/ CreateFound(p) \/ Existing(p) \/ CreateNew(p) \/ ialloc(p) \/ IallocGet(p)
       \/ Fill(p) \/ Bad(p)
       \/ \E yes \in BOOLEAN : open(p, yes) \/ Opened(p, yes)
       \/ filewrite(p, 1) \/ filewrite(p, 3) \/ bmap(p) \/ writei(p)
       \/ fileclose(p)
       \/ unlink(p) \/ UnlinkNotEmpty(p) \/ UnlinkEntry(p) \/ UnlinkDone(p)
       \/ link(p) \/ LinkEntry(p) \/ BadLink(p)
  \/ Reboot

Spec == Init /\ [][Next]_vars

-----------------------------------------------------------------------------
(* Properties.                                                             *)

Refs(s) == {<<p, f>> \in Procs \X {"cur", "dp", "ip", "put"} : pc[p][f] = s}
Files(s) == {p \in Procs : file[p] = s}

\* ref counts the pointers to an entry of the inode table, whichever process
\* holds them, and an inode has one entry: nobody's entry is recycled, and
\* two processes with the same inode use the same lock.  Whoever takes it sees
\* what is on disk: an entry that is valid and not locked holds the disk's type,
\* link count and blocks, even when the inode was freed and allocated anew
\* while the entry was in use.
RefsExact ==
  /\ \A s \in Inums : inode[s].ref = Cardinality(Refs(s)) + Cardinality(Files(s))
       + (IF inode[s].inum = ROOTINO /\ inode[s].ref > 0 THEN Cardinality(Procs) ELSE 0)
  /\ \A s, t \in Inums : inode[s].ref > 0 /\ Has(t, inode[s].inum) => s = t
  /\ \A s \in Inums : inode[s].ref > 0 /\ inode[s].valid /\ inode[s].lock = NULL =>
       /\ inode[s].type # "none"
       /\ dinode[inode[s].inum] = iupdate(inode[s])

Linking(i) ==
  {<<d, e>> \in Inums \X Names : dinode[d].type = "dir" /\ dinode[d].ents[e] = i}
Subdirs(i) == {d \in Inums : \E e \in Names :
                 dinode[i].ents[e] = d /\ dinode[d].type = "dir"}

\* The blocks of inode i: the locked entry is ahead of the disk.
BlocksOf(i) == IF \E s \in Inums : Has(s, i) /\ inode[s].valid
               THEN inode[Slot(i)].addrs ELSE dinode[i].addrs

\* The names an inode is to have a link for, a directory counting its
\* subdirectories and the root itself; and the calls that are about to add or
\* have just removed one.
Due(i) == Cardinality(Linking(i)) + Cardinality(Subdirs(i)) + (IF i = ROOTINO THEN 1 ELSE 0)
Changing(i) == {p \in Procs : /\ pc[p].op \in {"link", "unlink"} /\ pc[p].ip # 0
                              /\ inode[pc[p].ip].inum = i}

\* The disk is consistent.  An inode has at least as many links as there are
\* entries for it: no order of link, unlink, create and crash leaves an entry for
\* an inode that is free or that the next unlink or close would free.  It has no
\* more either, but for those a call is about to use or to drop, so it is freed in
\* the end; the one exception is an inode whose name was put in a directory that
\* was already removed, and went with it (create does not look at dp->nlink).
\* The bitmap marks exactly the blocks of the inodes, and no block belongs to two,
\* whatever is truncated, freed or written at the same time.
DiskConsistent ==
  /\ \A i \in Inums :
       /\ dinode[i].nlink >= Due(i)
       /\ dinode[i].stray \/ dinode[i].nlink <= Due(i) + Cardinality(Changing(i))
  /\ bitmap = UNION {BlocksOf(i) : i \in Inums}
  /\ \A i, j \in Inums : i # j => BlocksOf(i) \cap BlocksOf(j) = {}

\* An inode that someone has open or is working on is never freed on disk,
\* whoever unlinks it meanwhile: ilock does not panic with "ilock: no type".
InUseNotFreed ==
  \A p \in Procs : /\ ~Panics(p)
                   /\ file[p] # 0 => dinode[inode[file[p]].inum].type # "none"
=============================================================================
