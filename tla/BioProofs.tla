----------------------------- MODULE BioProofs -----------------------------
(***************************************************************************)
(* The invariant of the buffer cache holds for every number of buffers,    *)
(* processes and blocks: first the effect of every step of bio.c and ide.c *)
(* on the buffers, the queue and the disk (CacheInv), then the list of the *)
(* buffers, the reference counts, and the theorems.                        *)
(***************************************************************************)
EXTENDS FiniteSetTheorems, WellFoundedInduction, Bio, TLAPS

USE Zenon

(* NoBuf is not a buffer. *)
LEMMA NoBufNotBuf == NoBuf \notin Buf
  BY SMT DEF NoBuf, Buf

(* A process that is in the middle of bread, bwrite or brelse has a buffer. *)
LEMMA UsesBuffer ==
  ASSUME TypeOK, HolderInv, NEW p \in Proc, pc[p] \notin {"idle", "panic"}
  PROVE  buf[p] \in Buf
<1>1. buf[p] \in Buf \cup {NoBuf}
  BY DEF TypeOK
<1>2. buf[p] # NoBuf
  BY DEF HolderInv
<1>. QED  BY <1>1, <1>2

(* Between acquiresleep and releasesleep it is the owner of the buffer. *)
LEMMA LockedBuffer ==
  ASSUME TypeOK, HolderInv, NEW p \in Proc, pc[p] \in Locked
  PROVE  buf[p] \in Buf /\ owner[buf[p]] = p
<1>1. pc[p] \notin {"idle", "panic"}
  BY DEF Locked
<1>2. buf[p] \in Buf
  BY <1>1, UsesBuffer
<1>. QED  BY <1>2 DEF HolderInv

(* bget for a block that is in the cache. *)
LEMMA HitStep ==
  ASSUME CacheInv, NEW p \in Proc, NEW k \in Block, bget_hit(p, k)
  PROVE  CacheInv'
<1>i. TypeOK /\ OneBuffer /\ HolderInv /\ BlockInv /\ BreadValid /\ QueueInv /\ CommandInv /\ (~ReadErrors => CleanIsOnDisk)
  BY DEF CacheInv
<1>1. PICK b \in Buf : blockno[b] = k /\ buf' = [buf EXCEPT ![p] = b] /\ refcnt' = [refcnt EXCEPT ![b] = @ + 1]
  BY DEF bget_hit, Cached
<1>2. pc[p] = "idle" /\ pc' = [pc EXCEPT ![p] = "acquiresleep"]
  BY DEF bget_hit, Goto
<1>u. UNCHANGED <<blockno, valid, dirty, data, owner, lru, idequeue, command, dataport, irq, disk, asleep>>
  BY DEF bget_hit, ideVars
<1>3. TypeOK'
  BY <1>i, <1>1, <1>2, <1>u, SMT DEF TypeOK, Pc
<1>4. OneBuffer'
  BY <1>i, <1>u DEF OneBuffer
<1>5. HolderInv'
  BY <1>i, <1>1, <1>2, <1>u, BioAssumption, NoBufNotBuf, SMT DEF HolderInv, TypeOK, Locked
<1>6. BlockInv'
  BY <1>i, <1>1, <1>2, <1>u DEF BlockInv, TypeOK
<1>7. BreadValid'
  BY <1>i, <1>1, <1>2, <1>u DEF BreadValid, Holds, TypeOK
<1>8. QueueInv'
  BY <1>i, <1>1, <1>2, <1>u, SMT DEF QueueInv, TypeOK, HolderInv, Locked
<1>9. CommandInv'
  BY <1>i, <1>u DEF CommandInv
<1>10. ~ReadErrors => CleanIsOnDisk'
  BY <1>i, <1>1, <1>2, <1>u, SMT DEF CleanIsOnDisk, TypeOK, HolderInv, Locked
<1>. QED  BY <1>3, <1>4, <1>5, <1>6, <1>7, <1>8, <1>9, <1>10 DEF CacheInv

(* bget for a block that is not in the cache takes a buffer that nobody uses. *)
LEMMA RecycleStep ==
  ASSUME CacheInv, NEW p \in Proc, NEW k \in Block, bget_recycle(p, k),
         NEW r \in Buf, r = LeastRecent, ~dirty[r], \A q \in Proc : buf[q] # r
  PROVE  CacheInv'
<1>i. TypeOK /\ OneBuffer /\ HolderInv /\ BlockInv /\ BreadValid
      /\ QueueInv /\ CommandInv /\ (~ReadErrors => CleanIsOnDisk)
  BY DEF CacheInv
<1>1. pc[p] = "idle" /\ pc' = [pc EXCEPT ![p] = "acquiresleep"]
  BY DEF bget_recycle, Goto
<1>2. /\ blockno' = [blockno EXCEPT ![r] = k] /\ valid' = [valid EXCEPT ![r] = FALSE]
      /\ refcnt' = [refcnt EXCEPT ![r] = 1] /\ buf' = [buf EXCEPT ![p] = r]
  BY DEF bget_recycle
<1>3. \A b \in Buf : blockno[b] # k
  BY DEF bget_recycle, Cached
<1>u. UNCHANGED <<dirty, data, owner, lru, idequeue, command, dataport, irq, disk, asleep>>
  BY DEF bget_recycle, ideVars
<1>4. owner[r] = NoProc
  BY <1>i, SMT DEF HolderInv, TypeOK
<1>5. \A i \in 1 .. Len(idequeue) : idequeue[i] \in Buf /\ idequeue[i] # r
  BY <1>i, <1>4, SMT DEF QueueInv, TypeOK
<1>t1. TypeOK'
  BY <1>i, <1>1, <1>2, <1>3, <1>4, <1>5, <1>u DEF TypeOK, Pc
<1>o1. OneBuffer'
  BY <1>i, <1>1, <1>2, <1>3, <1>4, <1>5, <1>u DEF OneBuffer, TypeOK
<1>h1. HolderInv'
  BY <1>i, <1>1, <1>2, <1>3, <1>4, <1>5, <1>u, BioAssumption, NoBufNotBuf, SMT DEF HolderInv, TypeOK, Locked
<1>b1. BlockInv'
  BY <1>i, <1>1, <1>2, <1>3, <1>4, <1>5, <1>u, BioAssumption, NoBufNotBuf DEF BlockInv, TypeOK
<1>v1. BreadValid'
  BY <1>i, <1>1, <1>2, <1>3, <1>4, <1>5, <1>u, SMT DEF BreadValid, Holds, TypeOK, HolderInv, Locked
<1>q1. QueueInv'
  BY <1>i, <1>1, <1>2, <1>3, <1>4, <1>5, <1>u, SMT DEF QueueInv, TypeOK, HolderInv, Locked
<1>c1. CommandInv'
  <2>1. idequeue # <<>> => Head(idequeue) = idequeue[1] /\ 1 \in 1 .. Len(idequeue)
    BY <1>i, SMT DEF TypeOK
  <2>. QED  BY <1>i, <1>2, <1>5, <1>u, <2>1 DEF CommandInv, TypeOK
<1>d1. ~ReadErrors => CleanIsOnDisk'
  BY <1>i, <1>1, <1>2, <1>3, <1>4, <1>5, <1>u, SMT DEF CleanIsOnDisk, TypeOK, HolderInv, Locked
<1>. QED  BY <1>t1, <1>o1, <1>h1, <1>b1, <1>v1, <1>q1, <1>c1, <1>d1 DEF CacheInv

(* panic in bget. *)
LEMMA PanicStep ==
  ASSUME CacheInv, NEW p \in Proc, NEW k \in Block, bget_panic(p, k)
  PROVE  CacheInv'
<1>i. TypeOK /\ OneBuffer /\ HolderInv /\ BlockInv /\ BreadValid
      /\ QueueInv /\ CommandInv /\ (~ReadErrors => CleanIsOnDisk)
  BY DEF CacheInv
<1>1. pc[p] = "idle" /\ pc' = [pc EXCEPT ![p] = "panic"]
  BY DEF bget_panic, Goto
<1>u. UNCHANGED <<blockno, valid, dirty, refcnt, data, owner, lru, idequeue, command, dataport, irq, disk, buf, asleep>>
  BY DEF bget_panic, bufVars, ideVars
<1>t1. TypeOK'
  BY <1>i, <1>1, <1>u DEF TypeOK, Pc
<1>o1. OneBuffer'
  BY <1>i, <1>1, <1>u DEF OneBuffer, TypeOK
<1>h1. HolderInv'
  BY <1>i, <1>1, <1>u, BioAssumption, NoBufNotBuf, SMT DEF HolderInv, TypeOK, Locked
<1>b1. BlockInv'
  BY <1>i, <1>1, <1>u, BioAssumption, NoBufNotBuf DEF BlockInv, TypeOK
<1>v1. BreadValid'
  BY <1>i, <1>1, <1>u, SMT DEF BreadValid, Holds, TypeOK, HolderInv, Locked
<1>q1. QueueInv'
  BY <1>i, <1>1, <1>u, SMT DEF QueueInv, TypeOK, HolderInv, Locked
<1>c1. CommandInv'
  BY <1>i, <1>1, <1>u DEF CommandInv, TypeOK
<1>d1. ~ReadErrors => CleanIsOnDisk'
  BY <1>i, <1>1, <1>u, SMT DEF CleanIsOnDisk, TypeOK, HolderInv, Locked
<1>. QED  BY <1>t1, <1>o1, <1>h1, <1>b1, <1>v1, <1>q1, <1>c1, <1>d1 DEF CacheInv

(* The sleep lock of the buffer is taken. *)
LEMMA AcquireStep ==
  ASSUME CacheInv, NEW p \in Proc, acquiresleep(p)
  PROVE  CacheInv'
<1>i. TypeOK /\ OneBuffer /\ HolderInv /\ BlockInv /\ BreadValid
      /\ QueueInv /\ CommandInv /\ (~ReadErrors => CleanIsOnDisk)
  BY DEF CacheInv
<1>1. pc[p] = "acquiresleep" /\ pc' = [pc EXCEPT ![p] = "bread"]
  BY DEF acquiresleep, Goto
<1>2. owner[buf[p]] = NoProc /\ owner' = [owner EXCEPT ![buf[p]] = p]
  BY DEF acquiresleep
<1>3. buf[p] \in Buf
  BY <1>i, <1>1, UsesBuffer
<1>u. UNCHANGED <<blockno, valid, dirty, refcnt, data, lru, idequeue, command, dataport, irq, disk, buf, asleep>>
  BY DEF acquiresleep, ideVars
<1>t1. TypeOK'
  BY <1>i, <1>1, <1>2, <1>3, <1>u DEF TypeOK, Pc
<1>o1. OneBuffer'
  BY <1>i, <1>1, <1>2, <1>3, <1>u DEF OneBuffer, TypeOK
<1>h1. HolderInv'
  BY <1>i, <1>1, <1>2, <1>3, <1>u, BioAssumption, NoBufNotBuf, SMT DEF HolderInv, TypeOK, Locked
<1>b1. BlockInv'
  BY <1>i, <1>1, <1>2, <1>3, <1>u, BioAssumption, NoBufNotBuf DEF BlockInv, TypeOK
<1>v1. BreadValid'
  <2>. SUFFICES ASSUME NEW q \in Proc, Holds(q)'
                PROVE  valid'[buf'[q]] /\ owner'[buf'[q]] = q
    BY DEF BreadValid
  <2>1. Holds(q)
    BY <1>i, <1>1 DEF Holds, TypeOK
  <2>2. valid[buf[q]] /\ owner[buf[q]] = q
    BY <1>i, <2>1 DEF BreadValid
  <2>3. buf[q] # buf[p]
    BY <1>2, <2>2, BioAssumption
  <2>4. owner'[buf[q]] = owner[buf[q]]
    BY <1>i, <1>2, <2>3, SMT DEF TypeOK
  <2>. QED  BY <1>u, <2>2, <2>4
<1>q1. QueueInv'
  BY <1>i, <1>1, <1>2, <1>3, <1>u, SMT DEF QueueInv, TypeOK, HolderInv, Locked
<1>c1. CommandInv'
  BY <1>i, <1>1, <1>2, <1>3, <1>u DEF CommandInv, TypeOK
<1>d1. ~ReadErrors => CleanIsOnDisk'
  BY <1>i, <1>1, <1>2, <1>3, <1>u, SMT DEF CleanIsOnDisk, TypeOK, HolderInv, Locked
<1>. QED  BY <1>t1, <1>o1, <1>h1, <1>b1, <1>v1, <1>q1, <1>c1, <1>d1 DEF CacheInv

(* bread of a buffer that is valid. *)
LEMMA BreadStep ==
  ASSUME CacheInv, NEW p \in Proc, bread_valid(p)
  PROVE  CacheInv'
<1>i. TypeOK /\ OneBuffer /\ HolderInv /\ BlockInv /\ BreadValid
      /\ QueueInv /\ CommandInv /\ (~ReadErrors => CleanIsOnDisk)
  BY DEF CacheInv
<1>1. pc[p] = "bread" /\ pc' = [pc EXCEPT ![p] = "held"]
  BY DEF bread_valid, Goto
<1>2. valid[buf[p]]
  BY DEF bread_valid
<1>u. UNCHANGED <<blockno, valid, dirty, refcnt, data, owner, lru, idequeue, command, dataport, irq, disk, buf, asleep>>
  BY DEF bread_valid, bufVars, ideVars
<1>t1. TypeOK'
  BY <1>i, <1>1, <1>2, <1>u DEF TypeOK, Pc
<1>o1. OneBuffer'
  BY <1>i, <1>1, <1>2, <1>u DEF OneBuffer, TypeOK
<1>h1. HolderInv'
  BY <1>i, <1>1, <1>2, <1>u, BioAssumption, NoBufNotBuf, SMT DEF HolderInv, TypeOK, Locked
<1>b1. BlockInv'
  BY <1>i, <1>1, <1>2, <1>u, BioAssumption, NoBufNotBuf DEF BlockInv, TypeOK
<1>v1. BreadValid'
  BY <1>i, <1>1, <1>2, <1>u, SMT DEF BreadValid, Holds, TypeOK, HolderInv, Locked
<1>q1. QueueInv'
  BY <1>i, <1>1, <1>2, <1>u, SMT DEF QueueInv, TypeOK, HolderInv, Locked
<1>c1. CommandInv'
  BY <1>i, <1>1, <1>2, <1>u DEF CommandInv, TypeOK
<1>d1. ~ReadErrors => CleanIsOnDisk'
  BY <1>i, <1>1, <1>2, <1>u, SMT DEF CleanIsOnDisk, TypeOK, HolderInv, Locked
<1>. QED  BY <1>t1, <1>o1, <1>h1, <1>b1, <1>v1, <1>q1, <1>c1, <1>d1 DEF CacheInv

(* The test of iderw after a wakeup. *)
LEMMA ReturnStep ==
  ASSUME CacheInv, NEW p \in Proc, iderw_return(p)
  PROVE  CacheInv'
<1>i. TypeOK /\ OneBuffer /\ HolderInv /\ BlockInv /\ BreadValid
      /\ QueueInv /\ CommandInv /\ (~ReadErrors => CleanIsOnDisk)
  BY DEF CacheInv
<1>1. pc[p] = "iderw"
  BY DEF iderw_return
<1>2. \/ valid[buf[p]] /\ ~dirty[buf[p]] /\ pc' = [pc EXCEPT ![p] = "held"] /\ asleep' = asleep
      \/ pc' = pc /\ asleep' = asleep \cup {p}
  BY DEF iderw_return
<1>u. UNCHANGED <<blockno, valid, dirty, refcnt, data, owner, lru, idequeue, command, dataport, irq, disk, buf>>
  BY DEF iderw_return, bufVars, ideVars
<1>3. \A q \in Proc : (pc'[q] \in Locked <=> pc[q] \in Locked)
                      /\ (pc'[q] \in {"idle", "panic"} <=> pc[q] \in {"idle", "panic"})
  BY <1>i, <1>1, <1>2 DEF TypeOK, Locked
<1>t1. TypeOK'
  BY <1>i, <1>1, <1>2, <1>u DEF TypeOK, Pc
<1>o1. OneBuffer'
  BY <1>i, <1>1, <1>2, <1>u DEF OneBuffer, TypeOK
<1>h1. HolderInv'
  <2>1. \A b \in Buf : owner[b] # NoProc => owner[b] \in Proc
    BY <1>i DEF TypeOK
  <2>. QED  BY <1>i, <1>3, <1>u, <2>1 DEF HolderInv
<1>b1. BlockInv'
  BY <1>i, <1>1, <1>2, <1>u, BioAssumption, NoBufNotBuf DEF BlockInv, TypeOK
<1>v1. BreadValid'
  BY <1>i, <1>1, <1>2, <1>u, SMT DEF BreadValid, Holds, TypeOK, HolderInv, Locked
<1>q1. QueueInv'
  BY <1>i, <1>1, <1>2, <1>u, SMT DEF QueueInv, TypeOK, HolderInv, Locked
<1>c1. CommandInv'
  BY <1>i, <1>1, <1>2, <1>u DEF CommandInv, TypeOK
<1>d1. ~ReadErrors => CleanIsOnDisk'
  BY <1>i, <1>1, <1>2, <1>u, SMT DEF CleanIsOnDisk, TypeOK, HolderInv, Locked
<1>. QED  BY <1>t1, <1>o1, <1>h1, <1>b1, <1>v1, <1>q1, <1>c1, <1>d1 DEF CacheInv

(* kill() changes only who is asleep. *)
LEMMA KillStep ==
  ASSUME CacheInv, NEW p \in Proc, kill(p)
  PROVE  CacheInv'
<1>i. TypeOK /\ OneBuffer /\ HolderInv /\ BlockInv /\ BreadValid
      /\ QueueInv /\ CommandInv /\ (~ReadErrors => CleanIsOnDisk)
  BY DEF CacheInv
<1>1. asleep' = asleep \ {p}
  BY DEF kill
<1>u. UNCHANGED <<blockno, valid, dirty, refcnt, data, owner, lru, idequeue, command, dataport, irq, disk, pc, buf>>
  BY DEF kill, bufVars, ideVars
<1> USE <1>i, <1>1, <1>u
<1>t1. TypeOK'
  BY DEF TypeOK, Pc
<1>o1. OneBuffer'
  BY DEF OneBuffer, TypeOK
<1>h1. HolderInv'
  BY BioAssumption, NoBufNotBuf DEF HolderInv, TypeOK, Locked
<1>b1. BlockInv'
  BY BioAssumption, NoBufNotBuf DEF BlockInv, TypeOK
<1>v1. BreadValid'
  BY DEF BreadValid, Holds, TypeOK, HolderInv, Locked
<1>q1. QueueInv'
  BY DEF QueueInv, TypeOK, HolderInv, Locked
<1>c1. CommandInv'
  BY DEF CommandInv, TypeOK
<1>d1. ~ReadErrors => CleanIsOnDisk'
  BY DEF CleanIsOnDisk, TypeOK, HolderInv, Locked
<1>. QED  BY <1>t1, <1>o1, <1>h1, <1>b1, <1>v1, <1>q1, <1>c1, <1>d1 DEF CacheInv

(* The holder changes the buffer. *)
LEMMA ModifyStep ==
  ASSUME CacheInv, NEW p \in Proc, modify(p)
  PROVE  CacheInv'
<1>i. TypeOK /\ OneBuffer /\ HolderInv /\ BlockInv /\ BreadValid
      /\ QueueInv /\ CommandInv /\ (~ReadErrors => CleanIsOnDisk)
  BY DEF CacheInv
<1>1. pc[p] = "held" /\ pc' = [pc EXCEPT ![p] = "modified"]
  BY DEF modify, Goto
<1>2. PICK v \in Val : data' = [data EXCEPT ![buf[p]] = v]
  BY DEF modify
<1>3. buf[p] \in Buf /\ owner[buf[p]] = p
  BY <1>i, <1>1, LockedBuffer DEF Locked
<1>u. UNCHANGED <<blockno, valid, dirty, refcnt, owner, lru, idequeue, command, dataport, irq, disk, buf, asleep>>
  BY DEF modify, ideVars
<1>4. \A i \in 1 .. Len(idequeue) : idequeue[i] \in Buf /\ idequeue[i] # buf[p]
  BY <1>i, <1>1, <1>3, SMT DEF QueueInv, TypeOK
<1>5. idequeue # <<>> => Head(idequeue) = idequeue[1] /\ 1 \in 1 .. Len(idequeue)
  BY <1>i, SMT DEF TypeOK
<1>t1. TypeOK'
  BY <1>i, <1>1, <1>2, <1>3, <1>4, <1>5, <1>u DEF TypeOK, Pc
<1>o1. OneBuffer'
  BY <1>i, <1>1, <1>2, <1>3, <1>4, <1>5, <1>u DEF OneBuffer, TypeOK
<1>h1. HolderInv'
  BY <1>i, <1>1, <1>2, <1>3, <1>4, <1>5, <1>u, BioAssumption, NoBufNotBuf, SMT DEF HolderInv, TypeOK, Locked
<1>b1. BlockInv'
  BY <1>i, <1>1, <1>2, <1>3, <1>4, <1>5, <1>u, BioAssumption, NoBufNotBuf DEF BlockInv, TypeOK
<1>v1. BreadValid'
  BY <1>i, <1>1, <1>2, <1>3, <1>4, <1>5, <1>u, SMT DEF BreadValid, Holds, TypeOK, HolderInv, Locked
<1>q1. QueueInv'
  BY <1>i, <1>1, <1>2, <1>3, <1>4, <1>5, <1>u, SMT DEF QueueInv, TypeOK, HolderInv, Locked
<1>c1. CommandInv'
  BY <1>i, <1>1, <1>2, <1>3, <1>4, <1>5, <1>u DEF CommandInv, TypeOK
<1>d1. ~ReadErrors => CleanIsOnDisk'
  <2>1. \A b \in Buf : b # buf[p] => data'[b] = data[b] /\ owner[b] # p
    BY <1>i, <1>2, BioAssumption, SMT DEF HolderInv, TypeOK
  <2>2. pc'[owner[buf[p]]] = "modified" /\ owner[buf[p]] # NoProc
    BY <1>i, <1>1, <1>3, BioAssumption DEF TypeOK
  <2>3. \A b \in Buf : b # buf[p] /\ owner[b] # NoProc => pc'[owner[b]] = pc[owner[b]]
    BY <1>i, <1>1, <2>1 DEF TypeOK
  <2>. QED  BY <1>i, <1>u, <2>1, <2>2, <2>3 DEF CleanIsOnDisk
<1>. QED  BY <1>t1, <1>o1, <1>h1, <1>b1, <1>v1, <1>q1, <1>c1, <1>d1 DEF CacheInv

(* log_write pins the buffer. *)
LEMMA LogWriteStep ==
  ASSUME CacheInv, NEW p \in Proc, log_write(p)
  PROVE  CacheInv'
<1>i. TypeOK /\ OneBuffer /\ HolderInv /\ BlockInv /\ BreadValid
      /\ QueueInv /\ CommandInv /\ (~ReadErrors => CleanIsOnDisk)
  BY DEF CacheInv
<1>1. pc[p] = "modified" /\ pc' = [pc EXCEPT ![p] = "held"]
  BY DEF log_write, Goto
<1>2. dirty' = [dirty EXCEPT ![buf[p]] = TRUE]
  BY DEF log_write
<1>3. buf[p] \in Buf /\ owner[buf[p]] = p /\ valid[buf[p]]
  BY <1>i, <1>1, LockedBuffer DEF Locked, BreadValid, Holds
<1>u. UNCHANGED <<blockno, valid, refcnt, data, owner, lru, idequeue, command, dataport, irq, disk, buf, asleep>>
  BY DEF log_write, ideVars
<1>4. \A i \in 1 .. Len(idequeue) : idequeue[i] \in Buf /\ idequeue[i] # buf[p]
  BY <1>i, <1>1, <1>3, SMT DEF QueueInv, TypeOK
<1>5. idequeue # <<>> => Head(idequeue) = idequeue[1] /\ 1 \in 1 .. Len(idequeue)
  BY <1>i, SMT DEF TypeOK
<1>t1. TypeOK'
  BY <1>i, <1>1, <1>2, <1>3, <1>4, <1>5, <1>u DEF TypeOK, Pc
<1>o1. OneBuffer'
  BY <1>i, <1>1, <1>2, <1>3, <1>4, <1>5, <1>u DEF OneBuffer, TypeOK
<1>h1. HolderInv'
  BY <1>i, <1>1, <1>2, <1>3, <1>4, <1>5, <1>u, BioAssumption, NoBufNotBuf, SMT DEF HolderInv, TypeOK, Locked
<1>b1. BlockInv'
  BY <1>i, <1>1, <1>2, <1>3, <1>4, <1>5, <1>u, BioAssumption, NoBufNotBuf DEF BlockInv, TypeOK
<1>v1. BreadValid'
  BY <1>i, <1>1, <1>2, <1>3, <1>4, <1>5, <1>u, SMT DEF BreadValid, Holds, TypeOK, HolderInv, Locked
<1>q1. QueueInv'
  BY <1>i, <1>1, <1>2, <1>3, <1>4, <1>5, <1>u, SMT DEF QueueInv, TypeOK, HolderInv, Locked
<1>c1. CommandInv'
  BY <1>i, <1>1, <1>2, <1>3, <1>4, <1>5, <1>u DEF CommandInv, TypeOK
<1>d1. ~ReadErrors => CleanIsOnDisk'
  BY <1>i, <1>1, <1>2, <1>3, <1>4, <1>5, <1>u, SMT DEF CleanIsOnDisk, TypeOK, HolderInv, Locked
<1>. QED  BY <1>t1, <1>o1, <1>h1, <1>b1, <1>v1, <1>q1, <1>c1, <1>d1 DEF CacheInv

(* brelse gives up the sleep lock. *)
LEMMA ReleaseStep ==
  ASSUME CacheInv, NEW p \in Proc, brelse(p)
  PROVE  CacheInv'
<1>i. TypeOK /\ OneBuffer /\ HolderInv /\ BlockInv /\ BreadValid
      /\ QueueInv /\ CommandInv /\ (~ReadErrors => CleanIsOnDisk)
  BY DEF CacheInv
<1>1. pc[p] = "held" /\ pc' = [pc EXCEPT ![p] = "brelse"]
  BY DEF brelse, Goto
<1>2. owner' = [owner EXCEPT ![buf[p]] = NoProc]
  BY DEF brelse
<1>3. buf[p] \in Buf /\ owner[buf[p]] = p
  BY <1>i, <1>1, LockedBuffer DEF Locked
<1>u. UNCHANGED <<blockno, valid, dirty, refcnt, data, lru, idequeue, command, dataport, irq, disk, buf, asleep>>
  BY DEF brelse, ideVars
<1>4. \A i \in 1 .. Len(idequeue) : idequeue[i] \in Buf /\ idequeue[i] # buf[p]
  BY <1>i, <1>1, <1>3, SMT DEF QueueInv, TypeOK
<1>t1. TypeOK'
  BY <1>i, <1>1, <1>2, <1>3, <1>4, <1>u DEF TypeOK, Pc
<1>o1. OneBuffer'
  BY <1>i, <1>1, <1>2, <1>3, <1>4, <1>u DEF OneBuffer, TypeOK
<1>h1. HolderInv'
  BY <1>i, <1>1, <1>2, <1>3, <1>4, <1>u, BioAssumption, NoBufNotBuf, SMT DEF HolderInv, TypeOK, Locked
<1>b1. BlockInv'
  BY <1>i, <1>1, <1>2, <1>3, <1>4, <1>u, BioAssumption, NoBufNotBuf DEF BlockInv, TypeOK
<1>v1. BreadValid'
  BY <1>i, <1>1, <1>2, <1>3, <1>4, <1>u, SMT DEF BreadValid, Holds, TypeOK, HolderInv, Locked
<1>q1. QueueInv'
  BY <1>i, <1>1, <1>2, <1>3, <1>4, <1>u, SMT DEF QueueInv, TypeOK, HolderInv, Locked
<1>c1. CommandInv'
  BY <1>i, <1>1, <1>2, <1>3, <1>4, <1>u DEF CommandInv, TypeOK
<1>d1. ~ReadErrors => CleanIsOnDisk'
  BY <1>i, <1>1, <1>2, <1>3, <1>4, <1>u, SMT DEF CleanIsOnDisk, TypeOK, HolderInv, Locked
<1>. QED  BY <1>t1, <1>o1, <1>h1, <1>b1, <1>v1, <1>q1, <1>c1, <1>d1 DEF CacheInv

(* brelse gives up the reference. *)
LEMMA DropStep ==
  ASSUME CacheInv, NEW p \in Proc, brelse_done(p), refcnt[buf[p]] > 0, lru' \in [Buf -> Buf]
  PROVE  CacheInv'
<1>i. TypeOK /\ OneBuffer /\ HolderInv /\ BlockInv /\ BreadValid
      /\ QueueInv /\ CommandInv /\ (~ReadErrors => CleanIsOnDisk)
  BY DEF CacheInv
<1>1. pc[p] = "brelse" /\ pc' = [pc EXCEPT ![p] = "idle"]
  BY DEF brelse_done, Goto
<1>2. refcnt' = [refcnt EXCEPT ![buf[p]] = @ - 1] /\ buf' = [buf EXCEPT ![p] = NoBuf]
  BY DEF brelse_done
<1>3. buf[p] \in Buf
  BY <1>i, <1>1, UsesBuffer
<1>u. UNCHANGED <<blockno, valid, dirty, data, owner, idequeue, command, dataport, irq, disk, asleep>>
  BY DEF brelse_done, ideVars
<1>t1. TypeOK'
  BY <1>i, <1>1, <1>2, <1>3, <1>u, SMT DEF TypeOK, Pc
<1>o1. OneBuffer'
  BY <1>i, <1>1, <1>2, <1>3, <1>u DEF OneBuffer, TypeOK
<1>h1. HolderInv'
  BY <1>i, <1>1, <1>2, <1>3, <1>u, BioAssumption, NoBufNotBuf, SMT DEF HolderInv, TypeOK, Locked
<1>b1. BlockInv'
  BY <1>i, <1>1, <1>2, <1>3, <1>u, BioAssumption, NoBufNotBuf DEF BlockInv, TypeOK
<1>v1. BreadValid'
  BY <1>i, <1>1, <1>2, <1>3, <1>u, SMT DEF BreadValid, Holds, TypeOK, HolderInv, Locked
<1>q1. QueueInv'
  BY <1>i, <1>1, <1>2, <1>3, <1>u, SMT DEF QueueInv, TypeOK, HolderInv, Locked
<1>c1. CommandInv'
  BY <1>i, <1>1, <1>2, <1>3, <1>u DEF CommandInv, TypeOK
<1>d1. ~ReadErrors => CleanIsOnDisk'
  BY <1>i, <1>1, <1>2, <1>3, <1>u, SMT DEF CleanIsOnDisk, TypeOK, HolderInv, Locked
<1>. QED  BY <1>t1, <1>o1, <1>h1, <1>b1, <1>v1, <1>q1, <1>c1, <1>d1 DEF CacheInv

(* iderw queues a request: a write of a valid buffer, which is then B_DIRTY, *)
(* or a read of one that is not valid.                                       *)
LEMMA EnqueueStep ==
  ASSUME CacheInv, NEW p \in Proc, NEW d \in BOOLEAN, iderw_enqueue(p, d),
         pc[p] \in {"bread", "held", "modified"}, pc' = [pc EXCEPT ![p] = "iderw"],
         dirty' = [dirty EXCEPT ![buf[p]] = d], valid[buf[p]] <=> d,
         UNCHANGED <<blockno, valid, refcnt, data, owner, lru, buf>>
  PROVE  CacheInv'
<1>i. TypeOK /\ OneBuffer /\ HolderInv /\ BlockInv /\ BreadValid
      /\ QueueInv /\ CommandInv /\ (~ReadErrors => CleanIsOnDisk)
  BY DEF CacheInv
<1>1. buf[p] \in Buf /\ owner[buf[p]] = p
  BY <1>i, LockedBuffer DEF Locked
<1>2. idequeue' = Append(idequeue, buf[p]) /\ asleep' = asleep \cup {p} /\ irq' = irq /\ disk' = disk
  BY DEF iderw_enqueue
<1>3. \A i \in 1 .. Len(idequeue) : idequeue[i] \in Buf /\ idequeue[i] # buf[p]
  BY <1>i, <1>1, SMT DEF QueueInv, TypeOK
<1>4. /\ Len(idequeue') = Len(idequeue) + 1 /\ Len(idequeue) \in Nat
      /\ idequeue'[Len(idequeue) + 1] = buf[p]
      /\ \A i \in 1 .. Len(idequeue) : idequeue'[i] = idequeue[i]
  BY <1>i, <1>1, <1>2, SMT DEF TypeOK
<1>5. \A b \in Buf : b # buf[p] => dirty'[b] = dirty[b]
  BY <1>i DEF TypeOK
<1>6. dirty'[buf[p]] = d
  BY <1>i, <1>1 DEF TypeOK
<1>t1. TypeOK'
  <2>1. command' \in {"none", "read", "write"} /\ dataport' \in Val
    BY <1>i, <1>1, SMT DEF iderw_enqueue, idestart, TypeOK
  <2>2. dirty' \in [Buf -> BOOLEAN] /\ pc' \in [Proc -> Pc]
    BY <1>i DEF TypeOK, Pc
  <2>3. idequeue' \in Seq(Buf)
    BY <1>i, <1>1, <1>2, SMT DEF TypeOK
  <2>. QED  BY <1>i, <1>2, <2>1, <2>2, <2>3 DEF TypeOK
<1>o1. OneBuffer'
  BY <1>i DEF OneBuffer
<1>h1. HolderInv'
  BY <1>i, <1>1, BioAssumption, NoBufNotBuf, SMT DEF HolderInv, TypeOK, Locked
<1>b1. BlockInv'
  <2>1. \A b \in Buf : dirty'[b] => valid'[b]
    BY <1>i, <1>5, <1>6 DEF BlockInv
  <2>. QED  BY <1>i, <2>1 DEF BlockInv
<1>v1. BreadValid'
  BY <1>i DEF BreadValid, Holds, TypeOK
<1>q1. QueueInv'
  <2>1. \A i, j \in 1 .. Len(idequeue') : idequeue'[i] = idequeue'[j] => i = j
    BY <1>i, <1>3, <1>4, SMT DEF QueueInv
  <2>2. ASSUME NEW i \in 1 .. Len(idequeue')
        PROVE  /\ owner[idequeue'[i]] # NoProc /\ pc'[owner[idequeue'[i]]] = "iderw"
               /\ valid[idequeue'[i]] => dirty'[idequeue'[i]]
    <3>1. CASE i = Len(idequeue) + 1
      BY <1>i, <1>1, <1>4, <1>6, <3>1, BioAssumption, SMT DEF TypeOK
    <3>2. CASE i \in 1 .. Len(idequeue)
      <4>1. idequeue'[i] = idequeue[i] /\ idequeue[i] \in Buf /\ idequeue[i] # buf[p]
        BY <1>3, <1>4, <3>2
      <4>2. /\ owner[idequeue[i]] # NoProc /\ pc[owner[idequeue[i]]] = "iderw"
            /\ valid[idequeue[i]] => dirty[idequeue[i]]
        BY <1>i, <3>2 DEF QueueInv
      <4>3. pc'[owner[idequeue[i]]] = "iderw"
        BY <1>i, <4>1, <4>2 DEF TypeOK
      <4>. QED  BY <1>5, <4>1, <4>2, <4>3
    <3>. QED  BY <1>4, <3>1, <3>2, SMT
  <2>. QED  BY <2>1, <2>2 DEF QueueInv
<1>c1. CommandInv'
  <2>1. CASE idequeue = <<>>
    <3>1. idequeue' # <<>> /\ Head(idequeue') = buf[p]
      BY <1>1, <1>2, <2>1, SMT
    <3>2. ~irq /\ command = "none"
      BY <1>i, <2>1 DEF CommandInv
    <3>3. CASE d
      <4>1. command' = "write" /\ dataport' = data[buf[p]]
        BY <2>1, <3>3 DEF iderw_enqueue, idestart
      <4>. QED  BY <1>2, <1>6, <3>1, <3>2, <3>3, <4>1 DEF CommandInv
    <3>4. CASE ~d
      <4>1. command' = "read"
        BY <2>1, <3>4 DEF iderw_enqueue, idestart
      <4>. QED  BY <1>2, <1>6, <3>1, <3>2, <3>4, <4>1 DEF CommandInv
    <3>. QED  BY <3>3, <3>4
  <2>2. CASE idequeue # <<>>
    <3>0. Head(idequeue) = idequeue[1] /\ 1 \in 1 .. Len(idequeue)
      BY <1>i, <2>2, SMT DEF TypeOK
    <3>4. idequeue' \in Seq(Buf) /\ idequeue' # <<>>
      BY <1>t1, <1>4, SMT DEF TypeOK
    <3>5. Head(idequeue') = idequeue'[1]
      BY <3>4, SMT
    <3>1. /\ idequeue' # <<>> /\ Head(idequeue') = Head(idequeue)
          /\ Head(idequeue) = idequeue[1] /\ 1 \in 1 .. Len(idequeue)
      BY <1>4, <3>0, <3>4, <3>5
    <3>2. command' = command /\ dataport' = dataport
      BY <2>2 DEF iderw_enqueue
    <3>3. dirty'[Head(idequeue)] = dirty[Head(idequeue)]
      BY <1>3, <1>5, <3>1
    <3>. QED  BY <1>i, <1>2, <2>2, <3>1, <3>2, <3>3 DEF CommandInv
  <2>. QED  BY <2>1, <2>2
<1>d1. ~ReadErrors => CleanIsOnDisk'
  <2>1. \A b \in Buf : b # buf[p] /\ owner[b] # NoProc => pc'[owner[b]] = pc[owner[b]]
    BY <1>i, SMT DEF HolderInv, TypeOK
  <2>. QED  BY <1>i, <1>2, <1>5, <1>6, <2>1, SMT DEF CleanIsOnDisk
<1>. QED  BY <1>t1, <1>o1, <1>h1, <1>b1, <1>v1, <1>q1, <1>c1, <1>d1 DEF CacheInv

(* bread of a buffer that is not valid. *)
LEMMA MissStep ==
  ASSUME CacheInv, NEW p \in Proc, bread_miss(p)
  PROVE  CacheInv'
<1>i. TypeOK /\ HolderInv /\ BlockInv
  BY DEF CacheInv
<1>1. pc[p] = "bread" /\ pc' = [pc EXCEPT ![p] = "iderw"] /\ ~valid[buf[p]]
  BY DEF bread_miss, Goto
<1> USE <1>i, <1>1
<1>2. buf[p] \in Buf
  BY UsesBuffer
<1>3. dirty[buf[p]] = FALSE
  BY <1>2 DEF BlockInv, TypeOK
<1>4. dirty' = [dirty EXCEPT ![buf[p]] = FALSE]
  BY <1>2, <1>3 DEF bread_miss, bufVars, TypeOK
<1>5. iderw_enqueue(p, FALSE)
  BY <1>3 DEF bread_miss
<1>6. UNCHANGED <<blockno, valid, refcnt, data, owner, lru, buf>>
  BY DEF bread_miss, bufVars
<1>7. pc[p] \in {"bread", "held", "modified"}
  OBVIOUS
<1>. QED  BY <1>4, <1>5, <1>6, <1>7, EnqueueStep

(* bwrite of a buffer that the process holds. *)
LEMMA WriteStep ==
  ASSUME CacheInv, NEW p \in Proc, bwrite(p)
  PROVE  CacheInv'
<1>i. TypeOK /\ HolderInv /\ BreadValid
  BY DEF CacheInv
<1>1. pc[p] \in {"held", "modified"} /\ pc' = [pc EXCEPT ![p] = "iderw"]
  BY DEF bwrite, Goto
<1> USE <1>1
<1>2. valid[buf[p]]
  BY <1>i DEF BreadValid, Holds
<1>3. dirty' = [dirty EXCEPT ![buf[p]] = TRUE] /\ iderw_enqueue(p, TRUE)
  BY DEF bwrite
<1>4. UNCHANGED <<blockno, valid, refcnt, data, owner, lru, buf>>
  BY DEF bwrite
<1>5. pc[p] \in {"bread", "held", "modified"}
  OBVIOUS
<1>. QED  BY <1>2, <1>3, <1>4, <1>5, EnqueueStep

(* The request that the disk works on. *)
LEMMA FirstRequest ==
  ASSUME TypeOK, QueueInv, HolderInv, BlockInv, idequeue # <<>>
  PROVE  /\ Head(idequeue) = idequeue[1] /\ 1 \in 1 .. Len(idequeue)
         /\ Head(idequeue) \in Buf /\ blockno[Head(idequeue)] \in Block
         /\ owner[Head(idequeue)] \in Proc /\ pc[owner[Head(idequeue)]] = "iderw"
         /\ buf[owner[Head(idequeue)]] = Head(idequeue)
<1>1. Head(idequeue) = idequeue[1] /\ 1 \in 1 .. Len(idequeue) /\ Head(idequeue) \in Buf
  BY SMT DEF TypeOK
<1>2. owner[Head(idequeue)] # NoProc /\ pc[owner[Head(idequeue)]] = "iderw"
  BY <1>1 DEF QueueInv
<1>3. owner[Head(idequeue)] \in Proc
  BY <1>1, <1>2 DEF TypeOK
<1>4. buf[owner[Head(idequeue)]] = Head(idequeue)
  BY <1>1, <1>2 DEF HolderInv
<1>5. blockno[Head(idequeue)] \in Block
  BY <1>1, <1>3, <1>4, NoBufNotBuf DEF BlockInv
<1>. QED  BY <1>1, <1>2, <1>3, <1>4, <1>5

(* The disk carries out a command. *)
LEMMA DiskStep ==
  ASSUME CacheInv, disk_done
  PROVE  CacheInv'
<1>i. TypeOK /\ OneBuffer /\ HolderInv /\ BlockInv /\ BreadValid
      /\ QueueInv /\ CommandInv /\ (~ReadErrors => CleanIsOnDisk)
  BY DEF CacheInv
<1>1. command # "none" /\ irq' = TRUE
  BY DEF disk_done
<1>u. UNCHANGED <<blockno, valid, dirty, refcnt, data, owner, lru, idequeue, command, dataport, pc, buf, asleep>>
  BY DEF disk_done, bufVars, procVars
<1>2. idequeue # <<>>
  BY <1>i, <1>1 DEF CommandInv
<1>3. Head(idequeue) \in Buf /\ blockno[Head(idequeue)] \in Block
  BY <1>i, <1>2, FirstRequest
<1>4. command = "write" => /\ disk' = [disk EXCEPT ![blockno[Head(idequeue)]] = dataport]
                           /\ dirty[Head(idequeue)] /\ dataport = data[Head(idequeue)]
  BY <1>i, <1>2 DEF CommandInv, disk_done
<1> USE <1>i, <1>1, <1>u, <1>3, <1>4
<1>5. command # "write" => disk' = disk
  BY DEF disk_done
<1>6. \A b \in Buf : valid[b] /\ ~dirty[b] => disk'[blockno[b]] = disk[blockno[b]]
  <2>. SUFFICES ASSUME NEW b \in Buf, valid[b], ~dirty[b], command = "write"
                PROVE  disk'[blockno[b]] = disk[blockno[b]]
    BY <1>5
  <2>1. blockno[b] \in Block
    BY DEF BlockInv
  <2>2. b # Head(idequeue)
    OBVIOUS
  <2>3. blockno[b] # blockno[Head(idequeue)]
    BY <2>1, <2>2, BioAssumption DEF OneBuffer
  <2>. QED  BY <2>1, <2>3 DEF TypeOK
<1>t1. TypeOK'
  BY <1>5 DEF TypeOK
<1>o1. OneBuffer'
  BY DEF OneBuffer
<1>h1. HolderInv'
  BY DEF HolderInv
<1>b1. BlockInv'
  BY DEF BlockInv
<1>v1. BreadValid'
  BY DEF BreadValid, Holds
<1>q1. QueueInv'
  BY DEF QueueInv
<1>c1. CommandInv'
  <2>1. command = "write" => disk'[blockno[Head(idequeue)]] = data[Head(idequeue)]
    BY DEF TypeOK
  <2>. QED  BY <1>2, <2>1 DEF CommandInv
<1>d1. ~ReadErrors => CleanIsOnDisk'
  BY <1>6 DEF CleanIsOnDisk
<1>. QED  BY <1>t1, <1>o1, <1>h1, <1>b1, <1>v1, <1>q1, <1>c1, <1>d1 DEF CacheInv

(* The interrupt ends the first request and starts the next one. *)
LEMMA InterruptStep ==
  ASSUME CacheInv, ideintr
  PROVE  CacheInv'
<1>i. TypeOK /\ OneBuffer /\ HolderInv /\ BlockInv /\ BreadValid
      /\ QueueInv /\ CommandInv /\ (~ReadErrors => CleanIsOnDisk)
  BY DEF CacheInv
<1> DEFINE b == Head(idequeue)
<1>1. irq /\ idequeue # <<>> /\ irq' = FALSE /\ idequeue' = Tail(idequeue)
  BY DEF ideintr
<1>2. /\ b = idequeue[1] /\ 1 \in 1 .. Len(idequeue) /\ b \in Buf /\ blockno[b] \in Block
      /\ owner[b] \in Proc /\ pc[owner[b]] = "iderw" /\ buf[owner[b]] = b
  BY <1>i, <1>1, FirstRequest
<1>3. valid' = [valid EXCEPT ![b] = TRUE] /\ dirty' = [dirty EXCEPT ![b] = FALSE]
  BY DEF ideintr
<1>4. data' \in {[data EXCEPT ![b] = IF dirty[b] THEN @ ELSE disk[blockno[b]]], data}
  BY BioAssumption DEF ideintr
<1>5. ~ReadErrors => data' = [data EXCEPT ![b] = IF dirty[b] THEN @ ELSE disk[blockno[b]]]
  BY DEF ideintr
<1>u. UNCHANGED <<blockno, refcnt, owner, lru, disk, pc, buf>> /\ asleep' \subseteq asleep
  BY DEF ideintr
<1>6. \A c \in Buf : c # b => valid'[c] = valid[c] /\ dirty'[c] = dirty[c] /\ data'[c] = data[c]
  BY <1>i, <1>3, <1>4 DEF TypeOK
<1>7. valid'[b] = TRUE /\ dirty'[b] = FALSE
  BY <1>i, <1>2, <1>3 DEF TypeOK
<1>8. /\ Len(idequeue') = Len(idequeue) - 1 /\ idequeue' \in Seq(Buf) /\ Len(idequeue) \in Nat
      /\ \A i \in 1 .. Len(idequeue') : i + 1 \in 1 .. Len(idequeue) /\ idequeue'[i] = idequeue[i + 1]
  BY <1>i, <1>1, SMT DEF TypeOK
<1>9. \A i \in 1 .. Len(idequeue') : idequeue'[i] \in Buf /\ idequeue'[i] # b
  <2>. SUFFICES ASSUME NEW i \in 1 .. Len(idequeue')
                PROVE  idequeue'[i] \in Buf /\ idequeue'[i] # b
    OBVIOUS
  <2>1. i + 1 \in 1 .. Len(idequeue) /\ idequeue'[i] = idequeue[i + 1] /\ i + 1 # 1
    BY <1>8, SMT
  <2>2. idequeue[i + 1] # idequeue[1]
    BY <1>i, <1>2, <2>1 DEF QueueInv
  <2>3. idequeue'[i] \in Buf
    BY <1>8, SMT
  <2>. QED  BY <1>2, <2>1, <2>2, <2>3
<1>n. idequeue' # <<>> => Head(idequeue') = idequeue'[1] /\ 1 \in 1 .. Len(idequeue')
  BY <1>8, SMT
<1>e. idequeue' = <<>> => command' = "none" /\ dataport' = dataport
  BY <1>1 DEF ideintr
<1>s. idequeue' # <<>> => /\ command' = IF dirty[Head(idequeue')] THEN "write" ELSE "read"
                          /\ dataport' = IF dirty[Head(idequeue')] THEN data[Head(idequeue')] ELSE dataport
  BY <1>1 DEF ideintr, idestart
<1>t1. TypeOK'
  <2>1. valid' \in [Buf -> BOOLEAN] /\ dirty' \in [Buf -> BOOLEAN]
    BY <1>i, <1>2, <1>3 DEF TypeOK
  <2>2. data' \in [Buf -> Val]
    BY <1>i, <1>2, <1>4 DEF TypeOK
  <2>3. command' \in {"none", "read", "write"}
    BY <1>e, <1>s
  <2>4. dataport' \in Val
    BY <1>i, <1>e, <1>s, <1>n, <1>9, SMT DEF TypeOK
  <2>. QED  BY <1>i, <1>1, <1>8, <1>u, <2>1, <2>2, <2>3, <2>4 DEF TypeOK
<1>o1. OneBuffer'
  BY <1>i, <1>u DEF OneBuffer
<1>h1. HolderInv'
  BY <1>i, <1>u DEF HolderInv
<1>b1. BlockInv'
  BY <1>i, <1>2, <1>6, <1>7, <1>u DEF BlockInv
<1>v1. BreadValid'
  <2>. SUFFICES ASSUME NEW q \in Proc, Holds(q)
                PROVE  valid'[buf[q]] /\ owner[buf[q]] = q
    BY <1>u DEF BreadValid, Holds
  <2>1. valid[buf[q]] /\ owner[buf[q]] = q
    BY <1>i DEF BreadValid
  <2>2. pc[q] \in Locked
    BY DEF Holds, Locked
  <2>3. buf[q] \in Buf
    BY <1>i, <2>2, LockedBuffer
  <2>. QED  BY <1>6, <1>7, <2>1, <2>3
<1>q1. QueueInv'
  <2>1. \A i, j \in 1 .. Len(idequeue') : idequeue'[i] = idequeue'[j] => i = j
    <3>. SUFFICES ASSUME NEW i \in 1 .. Len(idequeue'), NEW j \in 1 .. Len(idequeue'), idequeue'[i] = idequeue'[j]
                  PROVE  i = j
      OBVIOUS
    <3>1. i + 1 \in 1 .. Len(idequeue) /\ j + 1 \in 1 .. Len(idequeue) /\ idequeue[i + 1] = idequeue[j + 1]
      BY <1>8
    <3>2. i + 1 = j + 1
      BY <1>i, <3>1 DEF QueueInv
    <3>. QED  BY <3>2, SMT
  <2>2. ASSUME NEW i \in 1 .. Len(idequeue')
        PROVE  /\ owner[idequeue'[i]] # NoProc /\ pc[owner[idequeue'[i]]] = "iderw"
               /\ valid'[idequeue'[i]] => dirty'[idequeue'[i]]
    <3>1. i + 1 \in 1 .. Len(idequeue) /\ idequeue'[i] = idequeue[i + 1]
      BY <1>8
    <3>2. /\ owner[idequeue[i + 1]] # NoProc /\ pc[owner[idequeue[i + 1]]] = "iderw"
          /\ valid[idequeue[i + 1]] => dirty[idequeue[i + 1]]
      BY <1>i, <3>1 DEF QueueInv
    <3>. QED  BY <1>6, <1>9, <3>1, <3>2
  <2>. QED  BY <1>u, <2>1, <2>2 DEF QueueInv
<1>c1. CommandInv'
  <2>1. CASE idequeue' = <<>>
    BY <1>1, <1>e, <2>1 DEF CommandInv
  <2>2. CASE idequeue' # <<>>
    <3>1. Head(idequeue') \in Buf /\ Head(idequeue') # b
      BY <1>n, <1>9, <2>2
    <3>2. dirty'[Head(idequeue')] = dirty[Head(idequeue')] /\ data'[Head(idequeue')] = data[Head(idequeue')]
      BY <1>6, <3>1
    <3>3. CASE dirty[Head(idequeue')]
      <4>1. command' = "write" /\ dataport' = data'[Head(idequeue')]
        BY <1>s, <2>2, <3>2, <3>3
      <4>. QED  BY <1>1, <2>2, <3>2, <3>3, <4>1 DEF CommandInv
    <3>4. CASE ~dirty[Head(idequeue')]
      <4>1. command' = "read"
        BY <1>s, <2>2, <3>4
      <4>. QED  BY <1>1, <2>2, <3>2, <3>4, <4>1 DEF CommandInv
    <3>. QED  BY <3>3, <3>4
  <2>. QED  BY <2>1, <2>2
<1>d1. ~ReadErrors => CleanIsOnDisk'
  <2>. SUFFICES ASSUME ~ReadErrors
                PROVE  CleanIsOnDisk'
    OBVIOUS
  <2>1. data'[b] = disk[blockno[b]]
    <3>1. CASE dirty[b]
      <4>1. command = "write"
        BY <1>i, <1>1, <3>1 DEF CommandInv
      <4>2. disk[blockno[b]] = data[b]
        BY <1>i, <1>1, <4>1 DEF CommandInv
      <4>. QED  BY <1>i, <1>2, <1>5, <3>1, <4>2 DEF TypeOK
    <3>2. CASE ~dirty[b]
      BY <1>i, <1>2, <1>5, <3>2 DEF TypeOK
    <3>. QED  BY <3>1, <3>2
  <2>. QED  BY <1>i, <1>6, <1>u, <2>1 DEF CleanIsOnDisk
<1>. QED  BY <1>t1, <1>o1, <1>h1, <1>b1, <1>v1, <1>q1, <1>c1, <1>d1 DEF CacheInv

-----------------------------------------------------------------------------
(* The order of the natural numbers, for the least element of a set. *)
Less == OpToRel(<, Nat)

(* There is no infinite descent in the natural numbers. *)
LEMMA LessWellFounded == IsWellFoundedOn(Less, Nat)
BY NatLessThanWellFounded DEF Less

(* A nonempty set of natural numbers has a least element. *)
LEMMA Least ==
  ASSUME NEW S, S \subseteq Nat, S # {}
  PROVE  \E i \in S : \A j \in S : i <= j
<1>1. PICK i \in S : \A j \in S : ~(<<j, i>> \in Less)
  BY LessWellFounded, WFMin
<1>2. \A j \in S : i \in Nat /\ j \in Nat /\ ~(j < i)
  BY <1>1 DEF Less, OpToRel
<1>. QED  BY <1>2, SMT

(* A nonempty set of places of the list has a last one. *)
LEMMA Last ==
  ASSUME NEW S, S \subseteq Buf, S # {}
  PROVE  \E i \in S : \A j \in S : j <= i
<1>. DEFINE T == {NBUF - i : i \in S}
<1>1. T \subseteq Nat /\ T # {}
  <2>1. \A i \in S : NBUF - i \in Nat
    <3>. TAKE i \in S
    <3>1. NBUF \in Nat /\ i \in 1 .. NBUF
      BY BioAssumption DEF Buf
    <3>. QED  BY <3>1, SMT
  <2>. QED  BY <2>1
<1>2. PICK t \in T : \A u \in T : t <= u
  <2>. HIDE DEF T
  <2>. QED  BY <1>1, Least
<1>3. PICK i \in S : t = NBUF - i
  BY <1>2
<1>4. ASSUME NEW j \in S PROVE j <= i
  <2>1. NBUF - i <= NBUF - j
    BY <1>2, <1>3
  <2>2. i \in Int /\ j \in Int /\ NBUF \in Int
    BY BioAssumption, SMT DEF Buf
  <2>. QED  BY <2>1, <2>2, SMT
<1>. QED  BY <1>4

(* The second loop of bget stops at a free buffer if there is one. *)
LEMMA LeastRecentIsFree ==
  ASSUME TypeOK, LruInv, Free # {}
  PROVE  LeastRecent \in Free
<1>. DEFINE S == {i \in Buf : lru[i] \in Free}
<1>1. S \subseteq Buf /\ S # {}
  <2>1. PICK b \in Free : TRUE
    OBVIOUS
  <2>2. b \in Buf
    BY DEF Free
  <2>. QED  BY <2>2 DEF LruInv
<1>2. \E i \in S : \A j \in S : j <= i
  <2>. HIDE DEF S
  <2>. QED  BY <1>1, Last
<1>3. \E i \in Buf : lru[i] \in Free /\ \A j \in Buf : lru[j] \in Free => j <= i
  BY <1>2
<1>. QED  BY <1>3 DEF LeastRecent

(* The list keeps all buffers when one of them is moved to its front. *)
LEMMA FrontKeepsList ==
  ASSUME TypeOK, LruInv, NEW b \in Buf
  PROVE  /\ ToFront(lru, b) \in [Buf -> Buf]
         /\ \A x \in Buf : \E i \in Buf : ToFront(lru, b)[i] = x
<1>. DEFINE k == CHOOSE i \in Buf : lru[i] = b
            l == ToFront(lru, b)
<1>1. k \in Buf /\ lru[k] = b
  BY DEF LruInv
<1>2. l = [i \in Buf |-> IF i = 1 THEN b ELSE IF i <= k THEN lru[i - 1] ELSE lru[i]]
  BY DEF ToFront
<1>. HIDE DEF k, l
<1>3. NBUF \in Nat \ {0} /\ 1 \in Buf /\ lru \in [Buf -> Buf]
  <2>1. NBUF \in Nat \ {0} /\ 1 \in Buf
    BY BioAssumption, SMT DEF Buf
  <2>. QED  BY <2>1 DEF TypeOK
<1>4. l \in [Buf -> Buf]
  <2>. SUFFICES ASSUME NEW i \in Buf PROVE (IF i = 1 THEN b ELSE IF i <= k THEN lru[i - 1] ELSE lru[i]) \in Buf
    BY <1>2
  <2>1. i # 1 => i - 1 \in Buf
    BY <1>3, SMT DEF Buf
  <2>. QED  BY <1>3, <2>1
<1>5. ASSUME NEW x \in Buf PROVE \E i \in Buf : l[i] = x
  <2>1. CASE x = b
    BY <1>2, <1>3, <2>1
  <2>2. CASE x # b
    <3>1. PICK j \in Buf : lru[j] = x
      BY DEF LruInv
    <3>2. j # k
      BY <1>1, <2>2, <3>1
    <3>3. CASE j < k
      <4>1. j + 1 \in Buf /\ j + 1 # 1 /\ j + 1 <= k /\ (j + 1) - 1 = j
        BY <1>1, <1>3, <3>3, SMT DEF Buf
      <4>. QED  BY <1>2, <3>1, <4>1
    <3>4. CASE j > k
      <4>1. j # 1 /\ ~(j <= k)
        BY <1>1, <1>3, <3>4, SMT DEF Buf
      <4>. QED  BY <1>2, <3>1, <4>1
    <3>5. j \in Int /\ k \in Int
      BY <1>1, SMT DEF Buf
    <3>. QED  BY <3>2, <3>3, <3>4, <3>5, SMT
  <2>. QED  BY <2>1, <2>2
<1>. QED  BY <1>4, <1>5 DEF l

-----------------------------------------------------------------------------
(* The reference counts.                                                    *)

Users(b) == {q \in Proc : buf[q] = b}

(* The sets of users are finite, and a buffer has none when refcnt is 0. *)
LEMMA UsersFinite ==
  ASSUME NEW b
  PROVE  IsFiniteSet(Users(b)) /\ Cardinality(Users(b)) \in Nat /\ (Cardinality(Users(b)) = 0 <=> Users(b) = {})
<1>1. IsFiniteSet(Proc) /\ Users(b) \in SUBSET Proc
  BY BioAssumption DEF Users
<1>2. IsFiniteSet(Users(b))
  BY <1>1, FS_Subset
<1>. QED  BY <1>2, FS_CardinalityType, FS_EmptySet

(* Nobody refers to a buffer that bget may recycle. *)
LEMMA Unused ==
  ASSUME RefCount, NEW b \in Buf, refcnt[b] = 0
  PROVE  \A q \in Proc : buf[q] # b
<1>1. Cardinality(Users(b)) = 0
  BY DEF RefCount, Users
<1>2. Users(b) = {}
  BY <1>1, UsersFinite
<1>. QED  BY <1>2 DEF Users

(* A process without a buffer takes b. *)
LEMMA CountUp ==
  ASSUME TypeOK, RefCount, NEW p \in Proc, NEW b \in Buf, buf[p] = NoBuf,
         buf' = [buf EXCEPT ![p] = b], refcnt' = [refcnt EXCEPT ![b] = refcnt[b] + 1]
  PROVE  RefCount'
<1>. SUFFICES ASSUME NEW c \in Buf PROVE refcnt'[c] = Cardinality(Users(c)')
  BY DEF RefCount, Users
<1>1. refcnt[c] = Cardinality(Users(c)) /\ b # NoBuf /\ c # NoBuf
  BY NoBufNotBuf DEF RefCount, Users
<1> USE <1>1
<1>2. CASE c = b
  <2>1. Users(b)' = Users(b) \cup {p} /\ p \notin Users(b)
    BY DEF Users, TypeOK
  <2>2. Cardinality(Users(b) \cup {p}) = Cardinality(Users(b)) + 1
    BY <2>1, UsersFinite, FS_AddElement
  <2>. QED  BY <1>2, <2>1, <2>2 DEF TypeOK
<1>3. CASE c # b
  <2>1. Users(c)' = Users(c)
    BY <1>3 DEF Users, TypeOK
  <2>. QED  BY <1>3, <2>1 DEF TypeOK
<1>. QED  BY <1>2, <1>3

(* brelse: a process gives its buffer up. *)
LEMMA CountDown ==
  ASSUME TypeOK, RefCount, NEW p \in Proc, buf[p] \in Buf,
         buf' = [buf EXCEPT ![p] = NoBuf], refcnt' = [refcnt EXCEPT ![buf[p]] = @ - 1]
  PROVE  RefCount' /\ refcnt[buf[p]] > 0
<1>0. PICK b \in Buf : b = buf[p] /\ refcnt' = [refcnt EXCEPT ![b] = @ - 1]
  OBVIOUS
<1>1. \A c \in Buf : refcnt[c] = Cardinality(Users(c)) /\ c # NoBuf
  BY NoBufNotBuf DEF RefCount, Users
<1> USE <1>0, <1>1
<1>2. p \in Users(b)
  BY DEF Users
<1>3. refcnt[b] > 0
  <2>1. Cardinality(Users(b)) # 0 /\ Cardinality(Users(b)) \in Nat
    BY <1>2, UsersFinite
  <2>. QED  BY <2>1, SMT
<1>4. ASSUME NEW c \in Buf PROVE refcnt'[c] = Cardinality(Users(c)')
  <2>1. CASE c = b
    <3> USE <2>1
    <3>1. Users(c)' = Users(c) \ {p}
      BY DEF Users, TypeOK
    <3>2. Cardinality(Users(c) \ {p}) = Cardinality(Users(c)) - 1
      BY <1>2, UsersFinite, FS_RemoveElement
    <3>. QED  BY <3>1, <3>2 DEF TypeOK
  <2>2. CASE c # b
    <3>1. Users(c)' = Users(c)
      BY <2>2 DEF Users, TypeOK
    <3>. QED  BY <2>2, <3>1 DEF TypeOK
  <2>. QED  BY <2>1, <2>2
<1>. QED  BY <1>3, <1>4 DEF RefCount, Users

-----------------------------------------------------------------------------
(* The invariant.                                                           *)

(* binit and ideinit establish it. *)
LEMMA BioInit ==
  ASSUME Init
  PROVE  BioInv
<1>1. PICK v \in Val : data = [b \in Buf |-> v] /\ disk = [k \in Block |-> v] /\ dataport = v
  BY DEF Init
<1>2. /\ blockno = [b \in Buf |-> NoBlock]
      /\ valid = [b \in Buf |-> FALSE] /\ dirty = [b \in Buf |-> FALSE]
      /\ refcnt = [b \in Buf |-> 0] /\ owner = [b \in Buf |-> NoProc]
      /\ lru = [i \in Buf |-> NBUF + 1 - i]
      /\ idequeue = <<>> /\ command = "none" /\ irq = FALSE
      /\ pc = [p \in Proc |-> "idle"] /\ buf = [p \in Proc |-> NoBuf] /\ asleep = {}
  BY DEF Init
<1>3. \A i \in Buf : NBUF + 1 - i \in Buf /\ NBUF + 1 - (NBUF + 1 - i) = i
  BY BioAssumption, SMT DEF Buf
<1>4. TypeOK
  <2>1. lru \in [Buf -> Buf]
    BY <1>2, <1>3
  <2>2. refcnt \in [Buf -> Nat] /\ idequeue \in Seq(Buf)
    BY <1>2, SMT
  <2>3. pc \in [Proc -> Pc]
    BY <1>2 DEF Pc
  <2>. QED  BY <1>1, <1>2, <2>1, <2>2, <2>3 DEF TypeOK
<1>5. OneBuffer /\ BlockInv
  BY <1>2 DEF OneBuffer, BlockInv
<1>6. HolderInv
  BY <1>2 DEF HolderInv, Locked
<1>7. BreadValid
  BY <1>2 DEF BreadValid, Holds
<1>8. QueueInv
  BY <1>2, SMT DEF QueueInv
<1>9. CommandInv
  BY <1>2 DEF CommandInv
<1>10. CleanIsOnDisk
  BY <1>2 DEF CleanIsOnDisk
<1>11. LruInv
  BY <1>2, <1>3 DEF LruInv
<1>12. RefCount
  <2>. SUFFICES ASSUME NEW b \in Buf PROVE Cardinality(Users(b)) = 0
    BY <1>2 DEF RefCount, Users
  <2>1. Users(b) = {}
    BY <1>2, NoBufNotBuf DEF Users
  <2>. QED  BY <2>1, UsersFinite
<1>. QED  BY <1>4, <1>5, <1>6, <1>7, <1>8, <1>9, <1>10, <1>11, <1>12 DEF BioInv, CacheInv

(* A step that leaves the references and the list alone. *)
LEMMA CountsKept ==
  ASSUME RefCount, LruInv, UNCHANGED <<buf, refcnt, lru>>
  PROVE  RefCount' /\ LruInv'
BY DEF RefCount, LruInv

(* bget finds a buffer that is clean and that nobody uses. *)
LEMMA RecycledIsUnused ==
  ASSUME BioInv, Free # {}
  PROVE  /\ LeastRecent \in Buf /\ refcnt[LeastRecent] = 0 /\ ~dirty[LeastRecent]
         /\ \A q \in Proc : buf[q] # LeastRecent
<1>1. LeastRecent \in Free
  BY LeastRecentIsFree DEF BioInv, CacheInv
<1>2. LeastRecent \in Buf /\ refcnt[LeastRecent] = 0 /\ ~dirty[LeastRecent]
  BY <1>1 DEF Free
<1>. QED  BY <1>2, Unused DEF BioInv

(* Every step of the processes, the disk and the interrupt preserves it. *)
LEMMA BioStep ==
  ASSUME BioInv, [Next]_vars
  PROVE  BioInv'
<1>i. CacheInv /\ TypeOK /\ HolderInv /\ RefCount /\ LruInv
  BY DEF BioInv, CacheInv
<1> USE <1>i
<1>1. CASE disk_done
  <2>1. UNCHANGED <<buf, refcnt, lru>>
    BY <1>1 DEF disk_done, bufVars, procVars
  <2>. QED  BY <1>1, <2>1, DiskStep, CountsKept DEF BioInv
<1>2. CASE ideintr
  <2>1. UNCHANGED <<buf, refcnt, lru>>
    BY <1>2 DEF ideintr
  <2>. QED  BY <1>2, <2>1, InterruptStep, CountsKept DEF BioInv
<1>3. ASSUME NEW p \in Proc, NEW k \in Block, bget_hit(p, k)
      PROVE  BioInv'
  <2> USE <1>3
  <2>1. PICK b \in Buf : buf' = [buf EXCEPT ![p] = b] /\ refcnt' = [refcnt EXCEPT ![b] = @ + 1]
    BY DEF bget_hit, Cached
  <2>2. pc[p] = "idle" /\ lru' = lru
    BY DEF bget_hit, Goto
  <2>3. buf[p] = NoBuf
    BY <2>2 DEF HolderInv
  <2>4. RefCount'
    BY <2>1, <2>3, CountUp
  <2>. QED  BY <2>2, <2>4, HitStep DEF BioInv, LruInv
<1>4. ASSUME NEW p \in Proc, NEW k \in Block, bget_recycle(p, k)
      PROVE  BioInv'
  <2> USE <1>4
  <2>1. Free # {}
    BY DEF bget_recycle
  <2>2. PICK r \in Buf : r = LeastRecent /\ refcnt[r] = 0 /\ ~dirty[r] /\ \A q \in Proc : buf[q] # r
    BY <2>1, RecycledIsUnused
  <2>3. pc[p] = "idle" /\ lru' = lru /\ buf' = [buf EXCEPT ![p] = r] /\ refcnt' = [refcnt EXCEPT ![r] = 1]
    BY <2>2 DEF bget_recycle, Goto
  <2> USE <2>2, <2>3
  <2>4. buf[p] = NoBuf
    BY DEF HolderInv
  <2>5. refcnt' = [refcnt EXCEPT ![r] = refcnt[r] + 1]
    BY SMT
  <2>6. RefCount'
    BY <2>4, <2>5, CountUp
  <2>7. CacheInv'
    BY RecycleStep
  <2>. QED  BY <2>6, <2>7 DEF BioInv, LruInv
<1>5. ASSUME NEW p \in Proc, NEW k \in Block, bget_panic(p, k)
      PROVE  BioInv'
  <2>1. UNCHANGED <<buf, refcnt, lru>>
    BY <1>5 DEF bget_panic, bufVars
  <2>. QED  BY <1>5, <2>1, PanicStep, CountsKept DEF BioInv
<1>6. ASSUME NEW p \in Proc, Wait(p)
      PROVE  BioInv'
  <2>1. UNCHANGED <<buf, refcnt, lru>>
    BY <1>6 DEF Wait, acquiresleep, bread_valid, bread_miss, iderw_return, kill, bufVars
  <2>2. CacheInv'
    BY <1>6, AcquireStep, BreadStep, MissStep, ReturnStep, KillStep DEF Wait
  <2>. QED  BY <2>1, <2>2, CountsKept DEF BioInv
<1>7. ASSUME NEW p \in Proc, modify(p) \/ log_write(p) \/ bwrite(p) \/ brelse(p)
      PROVE  BioInv'
  <2>1. UNCHANGED <<buf, refcnt, lru>>
    BY <1>7 DEF modify, log_write, bwrite, brelse
  <2>2. CacheInv'
    BY <1>7, ModifyStep, LogWriteStep, WriteStep, ReleaseStep
  <2>. QED  BY <2>1, <2>2, CountsKept DEF BioInv
<1>8. ASSUME NEW p \in Proc, brelse_done(p)
      PROVE  BioInv'
  <2> USE <1>8
  <2>1. pc[p] = "brelse" /\ buf' = [buf EXCEPT ![p] = NoBuf] /\ refcnt' = [refcnt EXCEPT ![buf[p]] = @ - 1]
    BY DEF brelse_done, Goto
  <2>2. buf[p] \in Buf
    BY <2>1, UsesBuffer
  <2>3. RefCount' /\ refcnt[buf[p]] > 0
    BY <2>1, <2>2, CountDown
  <2>4. lru' = ToFront(lru, buf[p]) \/ lru' = lru
    BY DEF brelse_done
  <2>5. lru' \in [Buf -> Buf] /\ LruInv'
    <3>1. CASE lru' = lru
      BY <3>1 DEF TypeOK, LruInv
    <3>2. CASE lru' = ToFront(lru, buf[p])
      BY <2>2, <3>2, FrontKeepsList DEF LruInv
    <3>. QED  BY <2>4, <3>1, <3>2
  <2>. QED  BY <2>3, <2>5, DropStep DEF BioInv
<1>9. CASE UNCHANGED vars
  <2>1. /\ UNCHANGED <<blockno, valid, dirty, refcnt, data, owner, lru>>
        /\ UNCHANGED <<idequeue, command, dataport, irq, disk, pc, buf, asleep>>
    BY <1>9 DEF vars, bufVars, ideVars, procVars
  <2> USE <2>1
  <2>2. TypeOK' /\ OneBuffer' /\ HolderInv' /\ BlockInv'
    BY DEF BioInv, CacheInv, TypeOK, OneBuffer, HolderInv, BlockInv
  <2>3. BreadValid' /\ QueueInv' /\ CommandInv' /\ (~ReadErrors => CleanIsOnDisk')
    BY SMT DEF BioInv, CacheInv, BreadValid, Holds, QueueInv, CommandInv, CleanIsOnDisk
  <2>4. RefCount' /\ LruInv'
    BY CountsKept
  <2>. QED  BY <2>2, <2>3, <2>4 DEF BioInv, CacheInv
<1>. QED
  BY <1>1, <1>2, <1>3, <1>4, <1>5, <1>6, <1>7, <1>8, <1>9 DEF Next, Call, Use, panic

-----------------------------------------------------------------------------
(* The contents of a block.                                                 *)

(* v is in the valid buffer of block k or, if there is none, on the disk. *)
Has(k, v) ==
  \/ \E b \in Buf : blockno[b] = k /\ valid[b] /\ data[b] = v
  \/ (\A b \in Buf : blockno[b] = k => ~valid[b]) /\ disk[k] = v

(* What Contents chooses is the one buffer of the block. *)
LEMMA HasContents ==
  ASSUME OneBuffer, NEW k \in Block, NEW v, Has(k, v)
  PROVE  Contents(k) = v
<1>0. k # NoBlock
  BY BioAssumption
<1>1. CASE \E b \in Buf : blockno[b] = k /\ valid[b] /\ data[b] = v
  <2>1. PICK b \in Buf : blockno[b] = k /\ valid[b] /\ data[b] = v
    BY <1>1
  <2> USE <2>1
  <2>2. \A c \in Cached(k) : c = b
    BY <1>0 DEF Cached, OneBuffer
  <2>3. b \in Cached(k)
    BY DEF Cached
  <2>4. (CHOOSE c \in Cached(k) : valid[c]) = b
    BY <2>2, <2>3
  <2>. QED  BY <2>3, <2>4 DEF Contents
<1>2. CASE (\A b \in Buf : blockno[b] = k => ~valid[b]) /\ disk[k] = v
  BY <1>2 DEF Contents, Cached
<1>. QED  BY <1>1, <1>2 DEF Has

(* The same after a step. *)
LEMMA HasContentsNext ==
  ASSUME OneBuffer', NEW k \in Block, NEW v, Has(k, v)'
  PROVE  Contents(k)' = v
<1>0. k # NoBlock
  BY BioAssumption
<1>1. CASE \E b \in Buf : blockno'[b] = k /\ valid'[b] /\ data'[b] = v
  <2>1. PICK b \in Buf : blockno'[b] = k /\ valid'[b] /\ data'[b] = v
    BY <1>1
  <2> USE <2>1
  <2>2. \A c \in Cached(k)' : c = b
    BY <1>0 DEF Cached, OneBuffer
  <2>3. b \in Cached(k)'
    BY DEF Cached
  <2>4. (CHOOSE c \in Cached(k)' : valid'[c]) = b
    BY <2>2, <2>3
  <2>. QED  BY <2>3, <2>4 DEF Contents
<1>2. CASE (\A b \in Buf : blockno'[b] = k => ~valid'[b]) /\ disk'[k] = v
  BY <1>2 DEF Contents, Cached
<1>. QED  BY <1>1, <1>2 DEF Has

(* Every block has contents. *)
LEMMA SomeContents ==
  ASSUME NEW k \in Block
  PROVE  \E v : Has(k, v)
BY DEF Has

(* Most steps change no buffer's block, no contents and no disk. *)
LEMMA HasKept ==
  ASSUME NEW k \in Block, NEW v, Has(k, v), UNCHANGED <<blockno, valid, data, disk>>
  PROVE  Has(k, v)'
BY DEF Has

(* bget recycles a buffer whose block is on the disk. *)
LEMMA RecycleKeeps ==
  ASSUME BioInv, ~ReadErrors, NEW p \in Proc, NEW j \in Block, bget_recycle(p, j),
         NEW k \in Block, NEW v, Has(k, v)
  PROVE  Has(k, v)'
<1>i. TypeOK /\ HolderInv /\ CleanIsOnDisk
  BY DEF BioInv, CacheInv
<1>1. PICK r \in Buf : r = LeastRecent /\ ~dirty[r] /\ \A q \in Proc : buf[q] # r
  BY RecycledIsUnused DEF bget_recycle
<1>2. /\ blockno' = [blockno EXCEPT ![r] = j] /\ valid' = [valid EXCEPT ![r] = FALSE]
      /\ data' = data /\ disk' = disk
  BY <1>1 DEF bget_recycle, ideVars
<1> USE <1>i, <1>1, <1>2
<1>3. owner[r] = NoProc
  BY SMT DEF HolderInv, TypeOK
<1>4. ~valid'[r]
  BY DEF TypeOK
<1>5. \A b \in Buf : b # r => blockno'[b] = blockno[b] /\ valid'[b] = valid[b]
  BY DEF TypeOK
<1> USE <1>5
<1>6. CASE \A b \in Buf : blockno[b] = k => ~valid[b]
  <2>1. disk[k] = v
    BY <1>6 DEF Has
  <2>. QED  BY <1>4, <1>6, <2>1 DEF Has
<1>7. CASE \E b \in Buf : blockno[b] = k /\ valid[b]
  <2>1. PICK b \in Buf : blockno[b] = k /\ valid[b] /\ data[b] = v
    BY <1>7 DEF Has
  <2> USE <2>1
  <2>2. CASE b # r
    BY <2>2 DEF Has
  <2>3. CASE b = r
    <3>1. disk[k] = v
      BY <1>3, <2>3 DEF CleanIsOnDisk
    <3>2. k # NoBlock
      BY BioAssumption
    <3>3. \A c \in Buf : blockno[c] = k => c = r
      BY <2>3, <3>2 DEF BioInv, CacheInv, OneBuffer
    <3>4. \A c \in Buf : blockno'[c] = k => ~valid'[c]
      BY <1>4, <3>3
    <3>. QED  BY <3>1, <3>4 DEF Has
  <2>. QED  BY <2>2, <2>3
<1>. QED  BY <1>6, <1>7

(* The holder of a buffer changes the block of that buffer only. *)
LEMMA ModifyKeeps ==
  ASSUME BioInv, NEW p \in Proc, modify(p), NEW k \in Block, blockno[buf[p]] # k,
         NEW v, Has(k, v)
  PROVE  Has(k, v)'
<1>1. TypeOK /\ UNCHANGED <<blockno, valid, disk>>
  BY DEF BioInv, CacheInv, modify, ideVars
<1>2. \A b \in Buf : b # buf[p] => data'[b] = data[b]
  BY <1>1 DEF modify, TypeOK
<1>. QED  BY <1>1, <1>2 DEF Has

(* The disk writes a block that is in the cache. *)
LEMMA DiskKeeps ==
  ASSUME BioInv, disk_done, NEW k \in Block, NEW v, Has(k, v)
  PROVE  Has(k, v)'
<1>i. TypeOK /\ HolderInv /\ BlockInv /\ QueueInv /\ CommandInv
  BY DEF BioInv, CacheInv
<1>1. UNCHANGED <<blockno, valid, data>>
  BY DEF disk_done, bufVars
<1> USE <1>i, <1>1
<1>2. PICK h : h = Head(idequeue)
  OBVIOUS
<1>3. disk' = IF command = "write" THEN [disk EXCEPT ![blockno[h]] = dataport] ELSE disk
  BY <1>2 DEF disk_done
<1>4. CASE command # "write"
  <2>1. disk' = disk
    BY <1>3, <1>4
  <2>. QED  BY <2>1, HasKept
<1>5. CASE command = "write"
  <2> USE <1>5
  <2>1. idequeue # <<>>
    BY DEF CommandInv
  <2>2. h \in Buf /\ dirty[h]
    BY <1>2, <2>1, FirstRequest DEF CommandInv
  <2>3. valid[h]
    BY <2>2 DEF BlockInv
  <2>4. CASE blockno[h] = k
    BY <2>2, <2>3, <2>4 DEF Has
  <2>5. CASE blockno[h] # k
    <3>1. disk'[k] = disk[k]
      BY <1>3, <2>5 DEF TypeOK
    <3>. QED  BY <3>1 DEF Has
  <2>. QED  BY <2>4, <2>5
<1>. QED  BY <1>4, <1>5

(* The interrupt puts a block that was not in the cache there as the disk   *)
(* has it, and does not touch a buffer that it has written.                 *)
LEMMA InterruptKeeps ==
  ASSUME BioInv, ~ReadErrors, ideintr, NEW k \in Block, NEW v, Has(k, v)
  PROVE  Has(k, v)'
<1>i. TypeOK /\ HolderInv /\ BlockInv /\ QueueInv /\ OneBuffer
  BY DEF BioInv, CacheInv
<1>1. PICK h : h = Head(idequeue)
  OBVIOUS
<1> USE <1>i, <1>1
<1>2. idequeue # <<>>
  BY DEF ideintr
<1>3. h \in Buf /\ h = idequeue[1] /\ 1 \in 1 .. Len(idequeue)
  BY <1>2, FirstRequest
<1>4. UNCHANGED <<blockno, disk>> /\ valid' = [valid EXCEPT ![h] = TRUE]
  BY DEF ideintr
<1>5. data' = [data EXCEPT ![h] = IF dirty[h] THEN @ ELSE disk[blockno[h]]]
  BY DEF ideintr
<1> USE <1>3, <1>4, <1>5
<1>6. CASE dirty[h]
  <2>1. valid[h]
    BY <1>6 DEF BlockInv
  <2>2. valid' = valid /\ data' = data
    BY <1>6, <2>1, SMT DEF TypeOK
  <2>. QED  BY <2>2, HasKept
<1>7. CASE ~dirty[h]
  <2>1. ~valid[h]
    BY <1>7 DEF QueueInv
  <2>2. valid'[h] /\ data'[h] = disk[blockno[h]]
    BY <1>7 DEF TypeOK
  <2>3. \A b \in Buf : b # h => valid'[b] = valid[b] /\ data'[b] = data[b]
    BY DEF TypeOK
  <2>4. CASE blockno[h] = k
    <3>1. k # NoBlock
      BY BioAssumption
    <3>2. \A b \in Buf : blockno[b] = k => ~valid[b]
      BY <2>1, <2>4, <3>1 DEF OneBuffer
    <3>3. disk[k] = v
      BY <3>2 DEF Has
    <3>. QED  BY <2>2, <2>4, <3>3 DEF Has
  <2>5. CASE blockno[h] # k
    BY <2>3, <2>5 DEF Has
  <2>. QED  BY <2>4, <2>5
<1>. QED  BY <1>6, <1>7

-----------------------------------------------------------------------------
(* The invariant of the buffer cache holds in every reachable state of      *)
(* bio.c on ide.c: for any number of buffers, processes and blocks, and     *)
(* also when the disk reports read errors.                                  *)
THEOREM BioInvariant == Spec => []BioInv
<1>1. Init => BioInv
  BY BioInit
<1>2. BioInv /\ [Next]_vars => BioInv'
  BY BioStep
<1>. QED  BY <1>1, <1>2, PTL DEF Spec

(* bget gives everybody who asks for a block the same buffer, and refcnt    *)
(* counts its users exactly, so bget recycles no buffer in use.             *)
THEOREM CacheIsConsistent == Spec => []BufferPerBlock
<1>1. BioInv => BufferPerBlock
  BY DEF BioInv, CacheInv, BufferPerBlock
<1>. QED  BY <1>1, BioInvariant, PTL

(* A request of iderw is queued once, by a holder who waits, and the disk    *)
(* works on the first; brelse keeps every buffer on the list bget searches. *)
THEOREM DriverServes == Spec => []DriverInv
<1>1. BioInv => DriverInv
  BY DEF BioInv, CacheInv, DriverInv
<1>. QED  BY <1>1, BioInvariant, PTL

(* If no read fails, whoever bread returns a buffer to has the block: the   *)
(* buffer is valid and locked, and clean buffers equal the disk.            *)
THEOREM HolderHasBlock ==
  ASSUME ~ReadErrors
  PROVE  Spec => []BufferIsBlock
<1>1. BioInv => BufferIsBlock
  BY DEF BioInv, CacheInv, BufferIsBlock
<1>. QED  BY <1>1, BioInvariant, PTL

(* If no read fails, only the holder of a block's buffer changes what the   *)
(* file system reads from the block: bget's recycling, the disk and its     *)
(* interrupt never do.                                                      *)
THEOREM ContentsByHolder ==
  ASSUME ~ReadErrors
  PROVE  Spec => OnlyHolderChanges
<1>1. ASSUME BioInv, BioInv', [Next]_vars, NEW k \in Block,
             ~\E p \in Proc : Holds(p) /\ blockno[buf[p]] = k
      PROVE  Contents(k)' = Contents(k)
  <2> USE <1>1
  <2>1. PICK v : Has(k, v)
    BY SomeContents
  <2> USE <2>1
  <2>. SUFFICES Has(k, v)'
    BY HasContents, HasContentsNext DEF BioInv, CacheInv
  <2>2. CASE disk_done
    BY <2>2, DiskKeeps
  <2>3. CASE ideintr
    BY <2>3, InterruptKeeps
  <2>4. ASSUME NEW p \in Proc, NEW j \in Block, bget_recycle(p, j)
        PROVE  Has(k, v)'
    BY <2>4, RecycleKeeps
  <2>5. ASSUME NEW p \in Proc, modify(p)
        PROVE  Has(k, v)'
    <3>1. Holds(p)
      BY <2>5 DEF modify, Goto, Holds
    <3>. QED  BY <2>5, <3>1, ModifyKeeps
  <2>6. CASE UNCHANGED <<blockno, valid, data, disk>>
    BY <2>6, HasKept
  <2>7. \/ disk_done \/ ideintr
        \/ \E p \in Proc : modify(p) \/ \E j \in Block : bget_recycle(p, j)
        \/ UNCHANGED <<blockno, valid, data, disk>>
    <3>1. ASSUME NEW p \in Proc, NEW j \in Block, bget_hit(p, j) \/ bget_panic(p, j)
          PROVE  UNCHANGED <<blockno, valid, data, disk>>
      BY <3>1 DEF bget_hit, bget_panic, bufVars, ideVars
    <3>2. ASSUME NEW p \in Proc, Wait(p)
          PROVE  UNCHANGED <<blockno, valid, data, disk>>
      BY <3>2 DEF Wait, acquiresleep, bread_valid, bread_miss, iderw_enqueue, iderw_return, kill, bufVars, ideVars
    <3>3. ASSUME NEW p \in Proc, log_write(p) \/ bwrite(p) \/ brelse(p) \/ brelse_done(p)
          PROVE  UNCHANGED <<blockno, valid, data, disk>>
      BY <3>3 DEF log_write, bwrite, iderw_enqueue, brelse, brelse_done, ideVars
    <3>4. UNCHANGED vars => UNCHANGED <<blockno, valid, data, disk>>
      BY DEF vars, bufVars, ideVars
    <3>. QED  BY <3>1, <3>2, <3>3, <3>4 DEF Next, Call, Use, panic
  <2>. QED  BY <2>2, <2>3, <2>4, <2>5, <2>6, <2>7
<1>2. BioInv /\ BioInv' /\ [Next]_vars =>
        [\A k \in Block : Contents(k)' # Contents(k) => \E p \in Proc : Holds(p) /\ blockno[buf[p]] = k]_vars
  BY <1>1
<1>. QED  BY <1>2, BioInvariant, PTL DEF Spec, OnlyHolderChanges

=============================================================================
