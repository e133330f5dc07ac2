------------------------------- MODULE Inode --------------------------------
(* The inode layer of fs.c: inodes on the disk, the inode cache, the sleep  *)
(* lock of every cached inode, and directories.  The cache entry of an      *)
(* inode is found by its number, so icache is a function of the number and  *)
(* an entry is in use when its ref is positive.  Size and block addresses   *)
(* are represented by the contents: an inode's data is a sequence, of       *)
(* directory entries or of bytes.  Blocks are the subject of FileData, the  *)
(* log of Log, the buffers of Bio; begin_op and end_op bracket every call.  *)
EXTENDS Integers, Sequences, FiniteSets
CONSTANTS NInodes,   \* sb.ninodes - 1
          NINODE,    \* entries of the inode cache
          DIRSIZ     \* length of a name in a directory
VARIABLES disk,      \* inode number -> [type, nlink] in the inode blocks
          data,      \* inode number -> its contents
          icache,    \* inode number -> [ref, valid, type, nlink]
          ilk        \* inode number -> process that holds ip->lock, or NoProc

inodeVars == <<disk, data, icache, ilk>>

Inum == 1 .. NInodes
NoInode == 0
NoProc == 0
ROOTINO == 1
Types == {"free", "dir", "file", "dev"}
Unused == [ref |-> 0, valid |-> FALSE, type |-> "free", nlink |-> 0]

(* iget: m is the cache before, the result is the cache with one more       *)
(* reference to i; an unused entry is taken without reading the inode.      *)
iget(m, i) ==
  [m EXCEPT ![i] = IF @.ref > 0 THEN [@ EXCEPT !.ref = @ + 1]
                               ELSE [@ EXCEPT !.ref = 1, !.valid = FALSE]]

(* iget panics when it needs an entry and none is free.                     *)
IgetPanics(m, i) == m[i].ref = 0 /\ Cardinality({j \in Inum : m[j].ref > 0}) = NINODE

idup_lost(m, i) == m
idup(m, i) == [m EXCEPT ![i].ref = @ + 1]

(* The cache once ilock has the sleep lock: the inode is read if it is not  *)
(* valid.                                                                   *)
ilock(m, i) ==
  IF m[i].valid THEN m
  ELSE [m EXCEPT ![i].valid = TRUE, ![i].type = disk[i].type, ![i].nlink = disk[i].nlink]

(* iupdate writes the cached inode through to its block.                    *)
iupdate(m, d, i) == [d EXCEPT ![i] = [type |-> m[i].type, nlink |-> m[i].nlink]]

(* ialloc takes the first inode whose type on the disk is 0.                *)
FreeInums == {i \in Inum : disk[i].type = "free"}
ialloc == CHOOSE i \in FreeInums : \A j \in FreeInums : i <= j

(* A path is a sequence of names that starts with "/" when it is absolute.  *)
(* skipelem cuts a name off at DIRSIZ characters.                           *)
IsAbsolute(path) == path # <<>> /\ Head(path) = "/"
Elements(path) == IF IsAbsolute(path) THEN Tail(path) ELSE path
skipelem_long(path) == Head(path)
skipelem(path) ==
  LET s == Head(path) IN IF Len(s) >= DIRSIZ THEN SubSeq(s, 1, DIRSIZ) ELSE s

(* dirlookup: the offset of the first entry with the name, 0 if none.       *)
FirstIn(S) == IF S = {} THEN 0 ELSE CHOOSE k \in S : \A l \in S : k <= l
dirlookup(dp, name) ==
  FirstIn({k \in DOMAIN data[dp] : data[dp][k].inum # 0 /\ data[dp][k].name = name})

NoEntry == [name |-> "", inum |-> 0]

(* dirlink fills the first empty entry of the contents, or appends one.     *)
dirlink(es, name, inum) ==
  LET e == [name |-> name, inum |-> inum]
      k == FirstIn({j \in DOMAIN es : es[j].inum = 0})
  IN  IF k = 0 THEN Append(es, e) ELSE [es EXCEPT ![k] = e]

isdirempty_from4(dp) == \A k \in 4 .. Len(data[dp]) : data[dp][k].inum = 0
isdirempty(dp) == \A k \in 3 .. Len(data[dp]) : data[dp][k].inum = 0

(* readi and writei on a regular file: n bytes from off, and bytes at off.  *)
readi(i, off, n) ==
  LET end == IF off + n > Len(data[i]) THEN Len(data[i]) ELSE off + n
  IN  SubSeq(data[i], off + 1, end)
writei(i, off, bytes) ==
  SubSeq(data[i], 1, off) \o bytes \o SubSeq(data[i], off + Len(bytes) + 1, Len(data[i]))
=============================================================================
