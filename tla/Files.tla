------------------------------- MODULE Files --------------------------------
(***************************************************************************)
(* The contents of files (module FileData) beside other parts of the       *)
(* kernel: its variables under names of their own, and what its constants  *)
(* satisfy.                                                                *)
(***************************************************************************)
EXTENDS Naturals, Sequences

CONSTANTS
    Inode, NBLOCKS, BSIZE, NDIRECT, WORD, Byte, WriteCounts     \* see FileData

(* The largest file does not overflow an offset, and n is unsigned.        *)
ASSUME FileAssumption ==
    /\ NBLOCKS \in Nat \ {0} /\ BSIZE \in Nat \ {0} /\ NDIRECT \in Nat
    /\ WORD \in Nat /\ (NDIRECT + BSIZE) * BSIZE < WORD
    /\ WriteCounts \subseteq 0 .. WORD - 1

VARIABLES
    d_disk, d_used, d_addrs, d_size, d_call, d_file

D == INSTANCE FileData WITH
        Counts <- WriteCounts,
        disk <- d_disk, used <- d_used, addrs <- d_addrs, size <- d_size,
        call <- d_call, file <- d_file

-----------------------------------------------------------------------------
(* File contents: every block marked by balloc has exactly one place in    *)
(* one file, readi gives back what writei wrote, and bmap never allocates  *)
(* a block for readi.                                                      *)
FileContents == D!BlocksOnce /\ D!ReadsBack /\ D!NoHoles
=============================================================================
