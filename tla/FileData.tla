------------------------------ MODULE FileData ------------------------------
(***************************************************************************)
(* The contents of files (fs.c): the bitmap of free blocks, the addresses  *)
(* of a file's blocks in its inode and its indirect block, and writei,     *)
(* readi and itrunc on them.  Files are written by different processes at  *)
(* the same time, each with its inode locked; one pass of writei's loop is *)
(* one step, which takes the bitmap block's lock at most once per block.   *)
(*                                                                         *)
(* A block is an array of BSIZE cells.  A cell is a byte of data, or a     *)
(* block number when the block is an indirect block, so a block that was   *)
(* not zeroed would be taken for addresses.  Block 0 is in use for good    *)
(* and 0 as an address means none.                                         *)
(***************************************************************************)
EXTENDS Naturals, Sequences, FiniteSets, FiniteSetsExt

CONSTANTS
    Inode,      \* the files
    NBLOCKS,    \* sb.size
    BSIZE,      \* cells of a block
    NDIRECT,    \* direct addresses of an inode
    WORD,       \* where off + n wraps around, for 2^32
    Byte,       \* the bytes written
    Counts      \* the values of n in writei

VARIABLES
    disk,       \* the cells of each block
    used,       \* the blocks marked in the bitmap
    addrs,      \* ip->addrs, 0..NDIRECT
    size,       \* ip->size
    call,       \* the writei in progress on each inode, or Idle
    file        \* ghost: the bytes of each file, as the calls ask for them

vars == <<disk, used, addrs, size, call, file>>

NINDIRECT == BSIZE
MAXFILE == NDIRECT + NINDIRECT
Cells == 0..BSIZE - 1
Zeros == [c \in Cells |-> 0]
Idle == [off |-> 0, tot |-> 0, n |-> 0, byte |-> 0]

(* What a call works on: the disk, the bitmap and the addresses of one     *)
(* inode.                                                                  *)
State(i) == [disk |-> disk, used |-> used, addrs |-> addrs[i]]

balloc(s) ==
    LET b == Min((0..NBLOCKS - 1) \ s.used)
    IN  [at |-> b, s |-> [s EXCEPT !.used = @ \union {b}, !.disk[b] = Zeros]]

(* The bitmap after bfree of each of the blocks B.                         *)
bfree(bits, B) == bits \ B

(* ip->addrs[k], allocated if there is none.                               *)
Direct(s, k) ==
    IF s.addrs[k] # 0 THEN [at |-> s.addrs[k], s |-> s]
    ELSE LET a == balloc(s) IN [at |-> a.at, s |-> [a.s EXCEPT !.addrs[k] = a.at]]

(* The block behind entry bn of the indirect block.                        *)
Indirect(s, bn) ==
    LET ind == Direct(s, NDIRECT)
        at  == ind.s.disk[ind.at][bn]
        a   == balloc(ind.s)
    IN  IF at # 0 THEN [at |-> at, s |-> ind.s]
        ELSE [at |-> a.at, s |-> [a.s EXCEPT !.disk[ind.at][bn] = a.at]]

bmap(s, bn) == IF bn < NDIRECT THEN Direct(s, bn) ELSE Indirect(s, bn - NDIRECT)

(* The number of blocks bmap has to allocate: balloc panics without them.  *)
Needs(s, bn) ==
    IF bn < NDIRECT THEN IF s.addrs[bn] = 0 THEN 1 ELSE 0
    ELSE IF s.addrs[NDIRECT] = 0 THEN 2
    ELSE IF s.disk[s.addrs[NDIRECT]][bn - NDIRECT] = 0 THEN 1 ELSE 0

(* The calls writei refuses.                                               *)
BadWrite(i, off, n) ==
    off > size[i] \/ (off + n) % WORD < off \/ (off + n) % WORD > MAXFILE * BSIZE

writei(i, off, n, byte) ==
    /\ call[i] = Idle
    /\ ~BadWrite(i, off, n)
    /\ call' = [call EXCEPT ![i] = [off |-> off, tot |-> 0, n |-> n, byte |-> byte]]
    /\ UNCHANGED <<disk, used, addrs, size, file>>

(* The bytes [off, off + m) of a sequence of bytes become byte.            *)
Written(f, off, m, byte) ==
    [k \in 1..Max({Len(f), off + m}) |->
        IF k > off /\ k <= off + m THEN byte ELSE IF k <= Len(f) THEN f[k] ELSE 0]

(* Where in its block an offset is.                                        *)
Within(off) == off % BSIZE

(* One pass of the loop of writei.                                         *)
writei_block(i) ==
    LET c   == call[i]
        bn  == c.off \div BSIZE
        m   == Min({c.n - c.tot, BSIZE - (c.off % BSIZE)})
        got == bmap(State(i), bn)
        old == got.s.disk[got.at]
        at  == Within(c.off)
    IN  /\ c.tot < c.n
        /\ Needs(State(i), bn) <= NBLOCKS - Cardinality(used)
        /\ disk' = [got.s.disk EXCEPT ![got.at] =
                      [x \in Cells |-> IF x \in at..at + m - 1
                                       THEN c.byte ELSE old[x]]]
        /\ used' = got.s.used
        /\ addrs' = [addrs EXCEPT ![i] = got.s.addrs]
        /\ call' = [call EXCEPT ![i].tot = @ + m, ![i].off = @ + m]
        /\ file' = [file EXCEPT ![i] = Written(@, c.off, m, c.byte)]
        /\ UNCHANGED size

writei_done(i) ==
    /\ call[i] # Idle /\ call[i].tot = call[i].n
    /\ size' = [size EXCEPT ![i] = Max({@, call[i].off})]
    /\ call' = [call EXCEPT ![i] = Idle]
    /\ UNCHANGED <<disk, used, addrs, file>>

(* Mutant: the blocks behind the indirect block stay marked.               *)
Blocks_direct(s) == {s.addrs[k] : k \in 0..NDIRECT} \ {0}

(* The blocks of an inode, as itrunc finds them.                           *)
Blocks(s) ==
    LET ind == s.addrs[NDIRECT]
    IN  ({s.addrs[k] : k \in 0..NDIRECT}
         \union (IF ind = 0 THEN {} ELSE {s.disk[ind][c] : c \in Cells})) \ {0}

(* itrunc, of a file nobody else can reach any more.  It does not yield    *)
(* the inode, and its bfrees only give up blocks of its own.               *)
itrunc(i) ==
    /\ call[i] = Idle /\ size[i] > 0
    /\ used' = bfree(used, Blocks(State(i)))
    /\ addrs' = [addrs EXCEPT ![i] = [k \in 0..NDIRECT |-> 0]]
    /\ size' = [size EXCEPT ![i] = 0]
    /\ file' = [file EXCEPT ![i] = <<>>]
    /\ UNCHANGED <<disk, call>>

(* The byte at off that readi copies out.                                  *)
readi(i, off) == disk[bmap(State(i), off \div BSIZE).at][off % BSIZE]

Init ==
    /\ disk = [b \in 0..NBLOCKS - 1 |-> Zeros]
    /\ used = {0}
    /\ addrs = [i \in Inode |-> [k \in 0..NDIRECT |-> 0]]
    /\ size = [i \in Inode |-> 0]
    /\ call = [i \in Inode |-> Idle]
    /\ file = [i \in Inode |-> <<>>]

Next == \E i \in Inode :
    \/ \E off \in 0..MAXFILE * BSIZE, n \in Counts, byte \in Byte : writei(i, off, n, byte)
    \/ writei_block(i)
    \/ writei_done(i)
    \/ itrunc(i)

Spec == Init /\ [][Next]_vars

-----------------------------------------------------------------------------
(* The addresses in an inode and in its indirect block, each with the      *)
(* place it stands in.                                                     *)
Refs(i) ==
    LET ind == addrs[i][NDIRECT]
    IN  {<<addrs[i][k], i, "inode", k>> : k \in 0..NDIRECT}
        \union (IF ind = 0 THEN {} ELSE {<<disk[ind][c], i, "indirect", c>> : c \in Cells})

(* Every block marked in the bitmap belongs to exactly one place of one    *)
(* file and every block of a file is marked, while files grow into and     *)
(* give up the same blocks: no block has two owners, none is lost, and     *)
(* bfree never finds a block free already.                                 *)
BlocksOnce ==
    LET refs == {x \in UNION {Refs(i) : i \in Inode} : x[1] # 0}
    IN  /\ {x[1] : x \in refs} \union {0} = used
        /\ \A x, y \in refs : x[1] = y[1] => x = y

(* readi gives back what the calls of writei wrote, across block           *)
(* boundaries, through the indirect block, and in blocks that belonged to  *)
(* another file before.                                                    *)
ReadsBack == \A i \in Inode : \A off \in 0..size[i] - 1 : readi(i, off) = file[i][off + 1]

(* Every block below the size of a file is there: bmap never allocates for *)
(* readi, which runs outside of a transaction.                             *)
NoHoles == \A i \in Inode : \A off \in 0..size[i] - 1 : Needs(State(i), off \div BSIZE) = 0
=============================================================================
