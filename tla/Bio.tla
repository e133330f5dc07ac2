--------------------------------- MODULE Bio ---------------------------------
(***************************************************************************)
(* The buffer cache (bio.c) on the IDE driver (ide.c).  A critical section *)
(* of bcache.lock or of idelock is one action; between them the processes, *)
(* the disk and its interrupt interleave.  The sleep lock of a buffer is   *)
(* taken in one step (module SleepLock).  kill() may wake a process that   *)
(* waits for the disk.                                                     *)
(***************************************************************************)
EXTENDS Integers, FiniteSets, Sequences

CONSTANTS
  Proc, Block, Val,
  NBUF,         \* buffers
  NoBlock,      \* dev 0 of a buffer that was never used
  NoProc,       \* the sleep lock is free
  ReadErrors    \* the disk may report IDE_DF or IDE_ERR for a read

Buf   == 1 .. NBUF
NoBuf == 0

ASSUME BioAssumption ==
  /\ NBUF \in Nat \ {0} /\ NoBlock \notin Block /\ NoProc \notin Proc /\ IsFiniteSet(Proc)
  /\ ReadErrors \in BOOLEAN

VARIABLES
  blockno, valid, dirty, refcnt, data, owner,   \* struct buf; owner is lock.pid
  lru,          \* the list from bcache.head.next, most recently used first
  idequeue,     \* idequeue: its first buffer is the active request
  command,      \* what idestart has told the disk: "none", "read" or "write"
  dataport,     \* the block that outsl has sent to the disk
  irq,          \* the disk has finished, ideintr has not run yet
  disk,
  pc, buf,      \* where a process is, and its buffer
  asleep        \* the processes that are SLEEPING in iderw

bufVars  == <<blockno, valid, dirty, refcnt, data, owner, lru>>
ideVars  == <<idequeue, command, dataport, irq, disk>>
procVars == <<pc, buf, asleep>>
vars     == <<bufVars, ideVars, procVars>>

Pc == {"idle", "acquiresleep", "bread", "held", "modified", "iderw", "brelse", "panic"}

TypeOK ==
  /\ blockno \in [Buf -> Block \cup {NoBlock}] /\ data \in [Buf -> Val]
  /\ valid \in [Buf -> BOOLEAN] /\ dirty \in [Buf -> BOOLEAN]
  /\ refcnt \in [Buf -> Nat] /\ owner \in [Buf -> Proc \cup {NoProc}]
  /\ lru \in [Buf -> Buf] /\ idequeue \in Seq(Buf)
  /\ command \in {"none", "read", "write"} /\ irq \in BOOLEAN
  /\ dataport \in Val /\ disk \in [Block -> Val]
  /\ pc \in [Proc -> Pc] /\ buf \in [Proc -> Buf \cup {NoBuf}] /\ asleep \in SUBSET Proc

(* binit and ideinit; the list starts with the last buffer. *)
Init ==
  /\ blockno = [b \in Buf |-> NoBlock]
  /\ valid = [b \in Buf |-> FALSE] /\ dirty = [b \in Buf |-> FALSE]
  /\ refcnt = [b \in Buf |-> 0] /\ owner = [b \in Buf |-> NoProc]
  /\ lru = [i \in Buf |-> NBUF + 1 - i]
  /\ \E v \in Val : data = [b \in Buf |-> v] /\ disk = [k \in Block |-> v] /\ dataport = v
  /\ idequeue = <<>> /\ command = "none" /\ irq = FALSE
  /\ pc = [p \in Proc |-> "idle"] /\ buf = [p \in Proc |-> NoBuf] /\ asleep = {}

Goto(p, from, to) == pc[p] = from /\ pc' = [pc EXCEPT ![p] = to]

-----------------------------------------------------------------------------
Cached(k) == {b \in Buf : blockno[b] = k}

(* A buffer that nobody refers to is taken although the log has pinned it.  *)
Free_dirty == {b \in Buf : refcnt[b] = 0}

Free == {b \in Buf : refcnt[b] = 0 /\ ~dirty[b]}

(* The second loop of bget goes through the list from its end. *)
LeastRecent == lru[CHOOSE i \in Buf : lru[i] \in Free /\ \A j \in Buf : lru[j] \in Free => j <= i]

bget_hit(p, k) ==
  /\ Goto(p, "idle", "acquiresleep")
  /\ \E b \in Cached(k) :
       /\ buf' = [buf EXCEPT ![p] = b]
       /\ refcnt' = [refcnt EXCEPT ![b] = @ + 1]
  /\ UNCHANGED <<blockno, valid, dirty, data, owner, lru, ideVars, asleep>>

(* The cache is not searched first. *)
bget_recycle_blind(p, k) ==
  /\ Goto(p, "idle", "acquiresleep") /\ Free # {}
  /\ LET b == LeastRecent
     IN  /\ blockno' = [blockno EXCEPT ![b] = k] /\ valid' = [valid EXCEPT ![b] = FALSE]
         /\ refcnt' = [refcnt EXCEPT ![b] = 1] /\ buf' = [buf EXCEPT ![p] = b]
  /\ UNCHANGED <<dirty, data, owner, lru, ideVars, asleep>>

bget_recycle(p, k) ==
  /\ Goto(p, "idle", "acquiresleep") /\ Cached(k) = {} /\ Free # {}
  /\ LET b == LeastRecent
     IN  /\ blockno' = [blockno EXCEPT ![b] = k] /\ valid' = [valid EXCEPT ![b] = FALSE]
         /\ refcnt' = [refcnt EXCEPT ![b] = 1] /\ buf' = [buf EXCEPT ![p] = b]
  /\ UNCHANGED <<dirty, data, owner, lru, ideVars, asleep>>

(* panic("bget: no buffers"): this CPU stops, the others go on until they   *)
(* print.                                                                   *)
bget_panic(p, k) ==
  /\ Goto(p, "idle", "panic") /\ Cached(k) = {} /\ Free = {}
  /\ UNCHANGED <<bufVars, ideVars, buf, asleep>>

panic(p) == pc[p] = "panic" /\ UNCHANGED vars

acquiresleep(p) ==
  /\ Goto(p, "acquiresleep", "bread") /\ owner[buf[p]] = NoProc
  /\ owner' = [owner EXCEPT ![buf[p]] = p]
  /\ UNCHANGED <<blockno, valid, dirty, refcnt, data, lru, ideVars, buf, asleep>>

bread_valid(p) ==
  /\ Goto(p, "bread", "held") /\ valid[buf[p]]
  /\ UNCHANGED <<bufVars, ideVars, buf, asleep>>

-----------------------------------------------------------------------------
(* idestart(b), told whether b is B_DIRTY and what it holds. *)
idestart(d, v) ==
  /\ command' = IF d THEN "write" ELSE "read"
  /\ dataport' = IF d THEN v ELSE dataport

(* iderw up to its first sleep: the request is queued, and started if the   *)
(* queue was empty.                                                         *)
iderw_enqueue(p, d) ==
  /\ idequeue' = Append(idequeue, buf[p])
  /\ IF idequeue = <<>> THEN idestart(d, data[buf[p]]) ELSE UNCHANGED <<command, dataport>>
  /\ asleep' = asleep \cup {p}
  /\ UNCHANGED <<irq, disk>>

bread_miss(p) ==
  /\ Goto(p, "bread", "iderw") /\ ~valid[buf[p]]
  /\ iderw_enqueue(p, dirty[buf[p]])
  /\ UNCHANGED <<bufVars, buf>>

bwrite(p) ==
  /\ Goto(p, "held", "iderw") \/ Goto(p, "modified", "iderw")
  /\ dirty' = [dirty EXCEPT ![buf[p]] = TRUE]
  /\ iderw_enqueue(p, TRUE)
  /\ UNCHANGED <<blockno, valid, refcnt, data, owner, lru, buf>>

(* The loop of iderw is not repeated after a wakeup. *)
iderw_return_early(p) ==
  /\ p \notin asleep /\ Goto(p, "iderw", "held")
  /\ UNCHANGED <<bufVars, ideVars, buf, asleep>>

(* The test of iderw's loop after a wakeup. *)
iderw_return(p) ==
  /\ pc[p] = "iderw" /\ p \notin asleep
  /\ IF valid[buf[p]] /\ ~dirty[buf[p]]
     THEN pc' = [pc EXCEPT ![p] = "held"] /\ UNCHANGED asleep
     ELSE asleep' = asleep \cup {p} /\ UNCHANGED pc
  /\ UNCHANGED <<bufVars, ideVars, buf>>

(* The disk carries out the command. *)
disk_done ==
  /\ command # "none" /\ ~irq /\ irq' = TRUE
  /\ disk' = IF command = "write" THEN [disk EXCEPT ![blockno[Head(idequeue)]] = dataport] ELSE disk
  /\ UNCHANGED <<bufVars, idequeue, command, dataport, procVars>>

(* The next request is not started. *)
ideintr_stops ==
  /\ irq /\ idequeue # <<>>
  /\ LET b == Head(idequeue)
     IN  /\ data' = IF dirty[b] THEN data ELSE [data EXCEPT ![b] = disk[blockno[b]]]
         /\ valid' = [valid EXCEPT ![b] = TRUE] /\ dirty' = [dirty EXCEPT ![b] = FALSE]
         /\ asleep' = {p \in asleep : buf[p] # b}
  /\ idequeue' = Tail(idequeue) /\ irq' = FALSE /\ command' = "none"
  /\ UNCHANGED <<blockno, refcnt, owner, lru, dataport, disk, pc, buf>>

(* idewait(1) of a read may fail; the buffer then keeps its bytes. *)
ideintr ==
  /\ irq /\ idequeue # <<>> /\ irq' = FALSE
  /\ LET b == Head(idequeue) IN
       /\ data' \in {[data EXCEPT ![b] = IF dirty[b] THEN @ ELSE disk[blockno[b]]]}
                    \cup IF ReadErrors THEN {data} ELSE {}
       /\ valid' = [valid EXCEPT ![b] = TRUE] /\ dirty' = [dirty EXCEPT ![b] = FALSE]
       /\ asleep' = {p \in asleep : buf[p] # b}
  /\ idequeue' = Tail(idequeue)
  /\ IF Tail(idequeue) = <<>>
     THEN command' = "none" /\ UNCHANGED dataport
     ELSE LET n == Head(Tail(idequeue)) IN idestart(dirty[n], data[n])
  /\ UNCHANGED <<blockno, refcnt, owner, lru, disk, pc, buf>>

(* kill() wakes a process that sleeps in iderw. *)
kill(p) ==
  /\ p \in asleep /\ asleep' = asleep \ {p}
  /\ UNCHANGED <<bufVars, ideVars, pc, buf>>

-----------------------------------------------------------------------------
(* What the holder does with the buffer: change it, and then write it       *)
(* (bwrite) or leave it to the log, which pins it with B_DIRTY.             *)
modify(p) ==
  /\ Goto(p, "held", "modified")
  /\ \E v \in Val : data' = [data EXCEPT ![buf[p]] = v]
  /\ UNCHANGED <<blockno, valid, dirty, refcnt, owner, lru, ideVars, buf, asleep>>

log_write(p) ==
  /\ Goto(p, "modified", "held")
  /\ dirty' = [dirty EXCEPT ![buf[p]] = TRUE]
  /\ UNCHANGED <<blockno, valid, refcnt, data, owner, lru, ideVars, buf, asleep>>

brelse(p) ==
  /\ Goto(p, "held", "brelse")
  /\ owner' = [owner EXCEPT ![buf[p]] = NoProc]
  /\ UNCHANGED <<blockno, valid, dirty, refcnt, data, lru, ideVars, buf, asleep>>

(* The list l with the buffer b taken out and put in again at its front. *)
ToFront(l, b) ==
  LET k == CHOOSE i \in Buf : l[i] = b
  IN  [i \in Buf |-> IF i = 1 THEN b ELSE IF i <= k THEN l[i - 1] ELSE l[i]]

(* refcnt--, and to the front of the list if it was the last one. *)
brelse_done(p) ==
  /\ Goto(p, "brelse", "idle")
  /\ refcnt' = [refcnt EXCEPT ![buf[p]] = @ - 1]
  /\ lru' = IF refcnt[buf[p]] = 1 THEN ToFront(lru, buf[p]) ELSE lru
  /\ buf' = [buf EXCEPT ![p] = NoBuf]
  /\ UNCHANGED <<blockno, valid, dirty, data, owner, ideVars, asleep>>

-----------------------------------------------------------------------------
Call(p) == \E k \in Block : bget_hit(p, k) \/ bget_recycle(p, k) \/ bget_panic(p, k)

Wait(p) == acquiresleep(p) \/ bread_valid(p) \/ bread_miss(p) \/ iderw_return(p) \/ kill(p)

Use(p) == modify(p) \/ log_write(p) \/ bwrite(p) \/ brelse(p) \/ brelse_done(p)

Next == disk_done \/ ideintr \/ \E p \in Proc : Call(p) \/ Wait(p) \/ Use(p) \/ panic(p)

Spec == Init /\ [][Next]_vars

-----------------------------------------------------------------------------
Holds(p) == pc[p] \in {"held", "modified"}

(* The contents of a block as the file system knows them. *)
Contents(k) ==
  IF \E b \in Cached(k) : valid[b] THEN data[CHOOSE b \in Cached(k) : valid[b]] ELSE disk[k]

(* A block has one buffer at most, however bget calls for it interleave.    *)
OneBuffer == \A a, b \in Buf : blockno[a] = blockno[b] /\ blockno[a] # NoBlock => a = b

(* A buffer keeps its block while anybody refers to it, waits for it or has *)
(* queued it: refcnt counts exactly those processes.                        *)
RefCount == \A b \in Buf : refcnt[b] = Cardinality({p \in Proc : buf[p] = b})

(* What bget promises: a buffer for each block asked for, the same one for  *)
(* everybody, until the last of them has called brelse.                     *)
BufferPerBlock == TypeOK /\ OneBuffer /\ RefCount

(* What a process sees and changes in a buffer it holds is the block: only  *)
(* the holder changes the contents of a block; recycling, reading from the  *)
(* disk and writing to it do not.                                           *)
OnlyHolderChanges ==
  [][\A k \in Block : Contents(k)' # Contents(k) =>
       \E p \in Proc : Holds(p) /\ blockno[buf[p]] = k]_vars

(* bread returns a buffer with the contents of its block, also after kill   *)
(* has woken the process early.                                             *)
BreadValid == \A p \in Proc : Holds(p) => valid[buf[p]] /\ owner[buf[p]] = p

(* A block that is in the cache and neither pinned nor being changed equals *)
(* its copy on the disk.                                                    *)
CleanIsOnDisk ==
  \A b \in Buf : valid[b] /\ ~dirty[b] /\ ~(owner[b] # NoProc /\ pc[owner[b]] = "modified")
    => data[b] = disk[blockno[b]]

(* What bread promises: the holder of a buffer has the block, as the disk   *)
(* has it or as the last holder left it.                                    *)
BufferIsBlock == BreadValid /\ CleanIsOnDisk

(* ide.c says of iderw: "Else if B_VALID is not set, read buf from disk,    *)
(* set B_VALID".  This does NOT hold when the disk may report an error      *)
(* (ReadErrors): ideintr then sets B_VALID without a transfer.              *)
ReadFromDisk ==
  [][\A b \in Buf : ~valid[b] /\ valid'[b] => data'[b] = disk[blockno[b]]]_vars

-----------------------------------------------------------------------------
(* Why the cache is right: the parts of the inductive invariant.            *)

(* Every buffer is on the list, so bget finds a free one if there is one.   *)
LruInv == \A b \in Buf : \E i \in Buf : lru[i] = b

(* The places between acquiresleep and releasesleep. *)
Locked == {"bread", "held", "modified", "iderw"}

HolderInv ==
  /\ \A p \in Proc : pc[p] \in {"idle", "panic"} <=> buf[p] = NoBuf
  /\ \A p \in Proc : pc[p] \in Locked => owner[buf[p]] = p
  /\ \A b \in Buf : owner[b] # NoProc => buf[owner[b]] = b /\ pc[owner[b]] \in Locked

(* A buffer in use, valid or pinned is one for a block. *)
BlockInv ==
  /\ \A b \in Buf : dirty[b] => valid[b]
  /\ \A b \in Buf : valid[b] => blockno[b] \in Block
  /\ \A p \in Proc : buf[p] # NoBuf => blockno[buf[p]] \in Block

(* A request is queued once, by a process that waits for it in iderw.       *)
QueueInv ==
  /\ \A i, j \in 1 .. Len(idequeue) : idequeue[i] = idequeue[j] => i = j
  /\ \A i \in 1 .. Len(idequeue) :
       /\ owner[idequeue[i]] # NoProc /\ pc[owner[idequeue[i]]] = "iderw"
       /\ valid[idequeue[i]] => dirty[idequeue[i]]

(* The disk works on the first request of the queue, and has its contents.  *)
CommandInv ==
  /\ command = "none" <=> idequeue = <<>>
  /\ irq => command # "none"
  /\ idequeue # <<>> => (command = "write" <=> dirty[Head(idequeue)])
  /\ command = "write" => dataport = data[Head(idequeue)]
  /\ command = "write" /\ irq => disk[blockno[Head(idequeue)]] = data[Head(idequeue)]

(* What iderw, ideintr and brelse promise: a request is queued once and by  *)
(* the holder of the buffer, who waits for it; the disk is never idle while *)
(* requests are queued and works on the first of them; and no buffer is     *)
(* lost from the list.                                                      *)
DriverInv == HolderInv /\ QueueInv /\ CommandInv /\ LruInv

(* What every step keeps of the buffers, the queue of ide.c and the disk.   *)
(* That clean buffers are on the disk needs a disk without read errors.     *)
CacheInv ==
  /\ TypeOK /\ OneBuffer /\ HolderInv /\ BlockInv /\ BreadValid
  /\ QueueInv /\ CommandInv /\ (~ReadErrors => CleanIsOnDisk)

(* The inductive invariant behind the theorems of BioProofs. *)
BioInv == CacheInv /\ RefCount /\ LruInv
=============================================================================
