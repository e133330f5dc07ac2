-------------------------------- MODULE Log --------------------------------
(***************************************************************************)
(* The redo log of the file system (log.c), with the part of the buffer    *)
(* cache it relies on (bio.c: a buffer is locked from bread to brelse, and *)
(* a B_DIRTY buffer is not recycled).                                      *)
(*                                                                         *)
(* A critical section of log.lock is one action.  bwrite writes one block  *)
(* and waits for the disk, so commit and recovery take one step for every  *)
(* block they write, and the machine may crash between any two steps.      *)
(*                                                                         *)
(* log.c checks the room left in the log before it takes log.lock; check   *)
(* and append are two actions.                                             *)
(***************************************************************************)
EXTENDS Integers, Sequences, FiniteSets

CONSTANTS
  Proc,         \* kernel threads that make file system calls
  Block,        \* home blocks (everything outside the log)
  Val,          \* contents of a block
  NoBuf,        \* the block has no buffer in the cache
  NoBlock,      \* the process holds no buffer
  MAXOPBLOCKS,  \* param.h: reservation of one call
  LOGSIZE,      \* param.h: capacity of struct logheader
  Size,         \* log.size = sb.nlog: blocks of the on-disk log, header included
  OpBlocks      \* distinct blocks a call really logs

ASSUME ParamAssumption ==
  /\ IsFiniteSet(Proc)
  /\ MAXOPBLOCKS \in Nat \ {0} /\ LOGSIZE \in Nat /\ Size \in Nat
  /\ OpBlocks \in 1..MAXOPBLOCKS
  /\ MAXOPBLOCKS <= LOGSIZE
  /\ NoBuf \notin Val /\ NoBlock \notin Block

VARIABLES
  disk,         \* home blocks on the disk
  dlog,         \* log data blocks on the disk: dlog[i] is block log.start + i
  dhead,        \* log header on the disk; hb->n is its length
  cache,        \* data of the buffer of a home block, or NoBuf
  dirty,        \* home blocks whose buffer has B_DIRTY set
  lh,           \* log.lh, the header in memory; log.lh.n is its length
  outstanding,  \* log.outstanding
  committing,   \* log.committing
  tail,         \* the loop variable of write_log and install_trans
  pc,           \* where each process is
  hold,         \* the buffer a process has modified and still holds
  written,      \* the blocks a process has logged since begin_op
  boot          \* progress of recover_from_log, "up" once it has returned,
                \* "panic" once the kernel has called panic()

diskVars == <<disk, dlog, dhead>>
logVars  == <<lh, outstanding, committing, tail>>
bufVars  == <<cache, dirty>>
procVars == <<pc, hold, written>>
vars     == <<diskVars, bufVars, logVars, procVars, boot>>

InOp       == {"op", "check", "append"}                   \* between begin_op and end_op
Committing == {"write_log", "write_head", "install_trans", "clear", "done"}
PC         == {"idle", "sleep", "begin"} \cup InOp \cup Committing
LogSlot    == 1..(Size - 1)

TypeOK ==
  /\ disk \in [Block -> Val] /\ dlog \in [LogSlot -> Val]
  /\ dhead \in Seq(Block) /\ lh \in Seq(Block)
  /\ cache \in [Block -> Val \cup {NoBuf}] /\ dirty \in SUBSET Block
  /\ outstanding \in Nat /\ committing \in {0, 1} /\ tail \in Nat
  /\ pc \in [Proc -> PC]
  /\ hold \in [Proc -> Block \cup {NoBlock}]
  /\ written \in [Proc -> SUBSET Block]
  /\ boot \in {"read_head", "install_trans", "clear", "up", "panic"}

-----------------------------------------------------------------------------
(* The contents bread() finds in the buffer of block b. *)
Read(b) == IF cache[b] = NoBuf THEN disk[b] ELSE cache[b]

Logged(head) == {head[i] : i \in DOMAIN head}

(* A freshly formatted disk (mkfs), about to be mounted. *)
Init ==
  /\ disk \in [Block -> Val]
  /\ \E v \in Val : dlog = [i \in LogSlot |-> v]
  /\ dhead = <<>>
  /\ cache = [b \in Block |-> NoBuf] /\ dirty = {}
  /\ lh = <<>> /\ outstanding = 0 /\ committing = 0 /\ tail = 0
  /\ pc = [p \in Proc |-> "idle"]
  /\ hold = [p \in Proc |-> NoBlock]
  /\ written = [p \in Proc |-> {}]
  /\ boot = "read_head"

Up == boot = "up"

-----------------------------------------------------------------------------
(* The file system call. *)

(* Mutant: the reservations of the calls under way are forgotten. *)
NoSpace_forgets_outstanding == Len(lh) + MAXOPBLOCKS > LOGSIZE

NoSpace == Len(lh) + (outstanding + 1) * MAXOPBLOCKS > LOGSIZE

begin_op(p) ==
  /\ Up /\ pc[p] \in {"idle", "begin"}
  /\ IF committing = 1 \/ NoSpace
     THEN pc' = [pc EXCEPT ![p] = "sleep"] /\ UNCHANGED outstanding
     ELSE pc' = [pc EXCEPT ![p] = "op"] /\ outstanding' = outstanding + 1
  /\ UNCHANGED <<diskVars, bufVars, lh, committing, tail, hold, written, boot>>

(* A call that only reads a block brings it into the cache. *)
bread(b) ==
  /\ Up /\ cache[b] = NoBuf
  /\ cache' = [cache EXCEPT ![b] = disk[b]]
  /\ UNCHANGED <<diskVars, dirty, logVars, procVars, boot>>

(* Mutant: bget recycles B_DIRTY buffers too. *)
bget_recycle_dirty(b) ==
  /\ Up /\ cache[b] # NoBuf /\ \A p \in Proc : hold[p] # b
  /\ cache' = [cache EXCEPT ![b] = NoBuf]
  /\ UNCHANGED <<diskVars, dirty, logVars, procVars, boot>>

(* bget recycles a buffer nobody refers to, unless it is B_DIRTY. *)
bget_recycle(b) ==
  /\ Up /\ cache[b] # NoBuf /\ b \notin dirty
  /\ \A p \in Proc : hold[p] # b
  /\ cache' = [cache EXCEPT ![b] = NoBuf]
  /\ UNCHANGED <<diskVars, dirty, logVars, procVars, boot>>

(* bp = bread(b); modify bp->data; a call logs at most OpBlocks blocks. *)
modify(p, b, v) ==
  /\ Up /\ pc[p] = "op"
  /\ \A q \in Proc : hold[q] # b
  /\ b \in written[p] \/ Cardinality(written[p]) < OpBlocks
  /\ cache' = [cache EXCEPT ![b] = v]
  /\ hold' = [hold EXCEPT ![p] = b]
  /\ pc' = [pc EXCEPT ![p] = "check"]
  /\ UNCHANGED <<diskVars, dirty, logVars, written, boot>>

(* log_write: the checks, made without log.lock. *)
log_write_check(p) ==
  /\ Up /\ pc[p] = "check"
  /\ IF Len(lh) >= LOGSIZE \/ Len(lh) >= Size - 1 \/ outstanding < 1
     THEN boot' = "panic" /\ UNCHANGED pc
     ELSE pc' = [pc EXCEPT ![p] = "append"] /\ UNCHANGED boot
  /\ UNCHANGED <<diskVars, bufVars, logVars, hold, written>>

(* log_write: the critical section, with absorption; then brelse. *)
log_write(p) ==
  /\ Up /\ pc[p] = "append"
  /\ lh' = IF hold[p] \in Logged(lh) THEN lh ELSE Append(lh, hold[p])
  /\ dirty' = dirty \cup {hold[p]}
  /\ written' = [written EXCEPT ![p] = @ \cup {hold[p]}]
  /\ hold' = [hold EXCEPT ![p] = NoBlock]
  /\ pc' = [pc EXCEPT ![p] = "op"]
  /\ UNCHANGED <<diskVars, cache, outstanding, committing, tail, boot>>

(* wakeup(&log): every sleeper runs its loop in begin_op again. *)
wakeup(f) == [q \in Proc |-> IF f[q] = "sleep" THEN "begin" ELSE f[q]]

(* Mutant: end_op wakes nobody when other calls are still under way. *)
end_op_no_wakeup(p) ==
  /\ Up /\ pc[p] = "op" /\ committing = 0
  /\ outstanding' = outstanding - 1
  /\ written' = [written EXCEPT ![p] = {}]
  /\ committing' = IF outstanding = 1 THEN 1 ELSE 0
  /\ tail' = 0
  /\ pc' = [pc EXCEPT ![p] = IF outstanding > 1 THEN "idle"
                            ELSE IF Len(lh) > 0 THEN "write_log" ELSE "done"]
  /\ UNCHANGED <<diskVars, bufVars, lh, hold, boot>>

(* Mutant: commit() takes a transaction of one block for an empty one. *)
end_op_off_by_one(p) ==
  /\ Up /\ pc[p] = "op" /\ committing = 0
  /\ outstanding' = outstanding - 1
  /\ written' = [written EXCEPT ![p] = {}]
  /\ committing' = IF outstanding = 1 THEN 1 ELSE 0
  /\ tail' = 0
  /\ pc' = IF outstanding > 1 THEN wakeup([pc EXCEPT ![p] = "idle"])
           ELSE [pc EXCEPT ![p] = IF Len(lh) > 1 THEN "write_log" ELSE "done"]
  /\ UNCHANGED <<diskVars, bufVars, lh, hold, boot>>

(* end_op: the first critical section and commit()'s test of log.lh.n. *)
end_op(p) ==
  /\ Up /\ pc[p] = "op"
  /\ outstanding' = outstanding - 1
  /\ written' = [written EXCEPT ![p] = {}]
  /\ IF committing = 1
     THEN boot' = "panic" /\ UNCHANGED <<pc, committing, tail>>
     ELSE /\ UNCHANGED boot
          /\ IF outstanding = 1
             THEN /\ committing' = 1
                  /\ tail' = 0
                  /\ pc' = [pc EXCEPT ![p] = IF Len(lh) > 0 THEN "write_log" ELSE "done"]
             ELSE /\ pc' = wakeup([pc EXCEPT ![p] = "idle"])
                  /\ UNCHANGED <<committing, tail>>
  /\ UNCHANGED <<diskVars, bufVars, lh, hold>>

-----------------------------------------------------------------------------
(* commit(), by the process whose end_op was the last. *)

(* Mutant: the loop variable is not incremented. *)
Advance_stuck(p, next) ==
  IF tail + 1 < Len(lh)
  THEN UNCHANGED <<tail, pc>>
  ELSE tail' = 0 /\ pc' = [pc EXCEPT ![p] = next]

Advance(p, next) ==
  IF tail + 1 < Len(lh)
  THEN tail' = tail + 1 /\ UNCHANGED pc
  ELSE tail' = 0 /\ pc' = [pc EXCEPT ![p] = next]

(* Mutant: the home block is copied to the log, not the cached one. *)
write_log_home_block(p) ==
  /\ Up /\ pc[p] = "write_log"
  /\ dlog' = [dlog EXCEPT ![tail + 1] = disk[lh[tail + 1]]]
  /\ Advance(p, "write_head")
  /\ UNCHANGED <<disk, dhead, bufVars, lh, outstanding, committing, hold, written, boot>>

(* One round of write_log: cache to log block. *)
write_log(p) ==
  /\ Up /\ pc[p] = "write_log"
  /\ dlog' = [dlog EXCEPT ![tail + 1] = Read(lh[tail + 1])]
  /\ cache' = [cache EXCEPT ![lh[tail + 1]] = Read(lh[tail + 1])]
  /\ Advance(p, "write_head")
  /\ UNCHANGED <<disk, dhead, dirty, lh, outstanding, committing, hold, written, boot>>

(* write_head: the real commit. *)
write_head(p) ==
  /\ Up /\ pc[p] = "write_head"
  /\ dhead' = lh
  /\ pc' = [pc EXCEPT ![p] = "install_trans"]
  /\ UNCHANGED <<disk, dlog, bufVars, logVars, hold, written, boot>>

(* One round of install_trans: log block to home block, through the cache; *)
(* the completed bwrite clears B_DIRTY.                                    *)
InstallBlock ==
  /\ disk' = [disk EXCEPT ![lh[tail + 1]] = dlog[tail + 1]]
  /\ cache' = [cache EXCEPT ![lh[tail + 1]] = dlog[tail + 1]]
  /\ dirty' = dirty \ {lh[tail + 1]}

install_trans(p) ==
  /\ Up /\ pc[p] = "install_trans"
  /\ InstallBlock
  /\ Advance(p, "clear")
  /\ UNCHANGED <<dlog, dhead, lh, outstanding, committing, hold, written, boot>>

(* log.lh.n = 0; write_head(). *)
clear(p) ==
  /\ Up /\ pc[p] = "clear"
  /\ lh' = <<>>
  /\ dhead' = <<>>
  /\ pc' = [pc EXCEPT ![p] = "done"]
  /\ UNCHANGED <<disk, dlog, bufVars, outstanding, committing, tail, hold, written, boot>>

(* end_op: the second critical section. *)
commit_done(p) ==
  /\ Up /\ pc[p] = "done"
  /\ committing' = 0
  /\ pc' = wakeup([pc EXCEPT ![p] = "idle"])
  /\ UNCHANGED <<diskVars, bufVars, lh, outstanding, tail, hold, written, boot>>

-----------------------------------------------------------------------------
(* Crash and recovery.  Only what is on the disk survives a crash; then    *)
(* forkret runs initlog before the first process can make a call.          *)

Crash ==
  /\ cache' = [b \in Block |-> NoBuf] /\ dirty' = {}
  /\ lh' = <<>> /\ outstanding' = 0 /\ committing' = 0 /\ tail' = 0
  /\ pc' = [p \in Proc |-> "idle"]
  /\ hold' = [p \in Proc |-> NoBlock]
  /\ written' = [p \in Proc |-> {}]
  /\ boot' = "read_head"
  /\ UNCHANGED diskVars

read_head ==
  /\ boot = "read_head"
  /\ lh' = dhead
  /\ boot' = IF Len(dhead) > 0 THEN "install_trans" ELSE "clear"
  /\ UNCHANGED <<diskVars, bufVars, outstanding, committing, tail, procVars>>

recover_install ==
  /\ boot = "install_trans"
  /\ InstallBlock
  /\ IF tail + 1 < Len(lh)
     THEN tail' = tail + 1 /\ UNCHANGED boot
     ELSE tail' = 0 /\ boot' = "clear"
  /\ UNCHANGED <<dlog, dhead, lh, outstanding, committing, procVars>>

recover_clear ==
  /\ boot = "clear"
  /\ lh' = <<>>
  /\ dhead' = <<>>
  /\ boot' = "up"
  /\ UNCHANGED <<disk, dlog, bufVars, outstanding, committing, tail, procVars>>

recover_from_log == read_head \/ recover_install \/ recover_clear

-----------------------------------------------------------------------------
commit(p) == write_log(p) \/ write_head(p) \/ install_trans(p) \/ clear(p) \/ commit_done(p)

Next ==
  \/ \E p \in Proc : begin_op(p) \/ log_write_check(p) \/ log_write(p) \/ end_op(p) \/ commit(p)
  \/ \E p \in Proc, b \in Block, v \in Val : modify(p, b, v)
  \/ \E b \in Block : bread(b) \/ bget_recycle(b)
  \/ recover_from_log
  \/ Crash

Spec == Init /\ [][Next]_vars

(* A process that can take a step of a call is scheduled eventually, and a *)
(* call makes finitely many log_writes before its end_op.  No process has  *)
(* to start a call, and nothing makes a crash happen or not happen.        *)
Fairness ==
  /\ \A p \in Proc :
       /\ WF_vars(pc[p] = "begin" /\ begin_op(p))
       /\ WF_vars(log_write_check(p) \/ log_write(p))
       /\ SF_vars(end_op(p))
       /\ WF_vars(commit(p))
  /\ WF_vars(recover_from_log)

FairSpec == Spec /\ Fairness

-----------------------------------------------------------------------------
(* The blocks as a crash and a recovery would leave them: the home blocks, *)
(* overwritten by the log blocks the header on the disk names.             *)
Overlay(head, log, home) ==
  [b \in Block |-> IF b \in Logged(head)
                   THEN log[CHOOSE i \in DOMAIN head : head[i] = b]
                   ELSE home[b]]

Stable == Overlay(dhead, dlog, disk)

(* The blocks as the running kernel sees them; nobody looks before         *)
(* recovery has finished.                                                  *)
Memory == IF boot \in {"up", "panic"} THEN [b \in Block |-> Read(b)] ELSE Stable

Active == {p \in Proc : pc[p] \in InOp}

AD == INSTANCE AtomicDisk WITH mem <- Memory, stable <- Stable, active <- Active

(* Atomicity and crash safety of file system calls: the log, the cache and *)
(* recovery together implement AtomicDisk, wherever a crash falls in       *)
(* log_write, commit() or recover_from_log() itself.                       *)
AtomicDiskSpec == AD!Spec

(* Durability: once the last end_op() has returned, everything every call  *)
(* wrote would survive a crash, and no buffer is left pinned by B_DIRTY.   *)
DurableWhenQuiet ==
  Up /\ outstanding = 0 /\ committing = 0 => Stable = Memory /\ dirty = {}

(* The log never outgrows its region of the disk: begin_op's reservations  *)
(* bound log.lh.n although log_write checks the room without the lock.     *)
LogFitsOnDisk == Len(lh) <= Size - 1

(* Neither log_write's nor end_op's consistency checks can fail.           *)
NoPanic == boot # "panic"

(* No lost wakeup: while a process sleeps in begin_op some other process   *)
(* is inside a call or committing, and its end_op will call wakeup(&log).  *)
SleeperHasWaker ==
  \A p \in Proc : pc[p] = "sleep" =>
    /\ committing = 1 \/ NoSpace
    /\ \E q \in Proc : pc[q] \in InOp \cup Committing

(* Every sleeper in begin_op is woken (by a crash at the latest), unless    *)
(* the kernel panics, which NoPanic excludes.                              *)
SleeperWoken == \A p \in Proc : pc[p] = "sleep" ~> pc[p] # "sleep" \/ ~NoPanic

(* If the machine stops crashing, recovery ends.                           *)
RecoveryCompletes == <>[][~Crash]_vars => <>[](boot \in {"up", "panic"})

(* Nobody waits for ever: neither in begin_op nor, after a crash, for      *)
(* recover_from_log.                                                       *)
LogProgress == SleeperWoken /\ RecoveryCompletes

-----------------------------------------------------------------------------
(* The inductive invariant behind the theorems of LogProofs. *)

InPhase(S) == \E p \in Proc : pc[p] \in S

(* What the reservations promise: the log has room left over for a check   *)
(* made before the append.  30, 10, 30 and at most 8 in the shipped kernel. *)
Bound == LOGSIZE - (MAXOPBLOCKS - OpBlocks)
Roomy == Bound < LOGSIZE /\ Bound < Size - 1

(* Who is where: one committer at most, and no call during a commit.       *)
ControlInv ==
  /\ boot # "panic"
  /\ outstanding = Cardinality(Active)
  /\ committing = 1 <=> InPhase(Committing)
  /\ \A p, q \in Proc : pc[p] \in Committing /\ pc[q] \in Committing => p = q
  /\ committing = 1 => Active = {}
  /\ \A p \in Proc : hold[p] # NoBlock <=> pc[p] \in {"check", "append"}
  /\ \A p, q \in Proc : hold[p] = hold[q] /\ hold[p] # NoBlock => p = q
  /\ \A p \in Proc : pc[p] = "sleep" => committing = 1 \/ NoSpace
  /\ boot # "up" => (\A p \in Proc : pc[p] = "idle") /\ dirty = {}

(* Reserved log slots: one for each block a call under way may still log.  *)
Slots ==
  {s \in Proc \X (1..OpBlocks) : s[1] \in Active /\ s[2] > Cardinality(written[s[1]])}

SpaceInv ==
  /\ Len(lh) <= Bound /\ Len(dhead) <= Bound
  /\ Active # {} => Len(lh) + Cardinality(Slots) <= Bound
  /\ \A p \in Proc :
       /\ IsFiniteSet(written[p]) /\ Cardinality(written[p]) <= OpBlocks
       /\ written[p] \subseteq Logged(lh)
       /\ hold[p] # NoBlock => hold[p] \in written[p] \/ Cardinality(written[p]) < OpBlocks
       /\ p \notin Active => written[p] = {}

(* Installing: the header is on the disk, home blocks up to tail are too.  *)
Installing ==
  /\ dhead = lh
  /\ \A i \in 1..tail : disk[lh[i]] = dlog[i]

Installed ==
  /\ dhead = lh
  /\ \A i \in DOMAIN lh : disk[lh[i]] = dlog[i]

(* What is where. A block is in a header once; *)
UniqueInv ==
  /\ \A i, j \in DOMAIN lh : lh[i] = lh[j] => i = j
  /\ \A i, j \in DOMAIN dhead : dhead[i] = dhead[j] => i = j

(* a buffer nobody has pinned or is modifying agrees with its home block; *)
CacheInv ==
  /\ \A b \in Block : b \notin dirty /\ (\A p \in Proc : hold[p] # b)
                       => cache[b] \in {NoBuf, disk[b]}
  /\ \A b \in Block : b \in dirty \/ (\E p \in Proc : hold[p] = b) => cache[b] # NoBuf

(* the phases of a commit; *)
CommitInv ==
  /\ boot = "up" /\ ~InPhase({"install_trans", "clear"})
       => dirty = Logged(lh) /\ dhead = <<>>
  /\ boot = "up" /\ Active = {} /\ ~InPhase(Committing \ {"done"}) => lh = <<>>
  /\ InPhase({"write_log"}) => tail < Len(lh) /\ \A i \in 1..tail : dlog[i] = cache[lh[i]]
  /\ InPhase({"write_head"})
       => tail = 0 /\ Len(lh) > 0 /\ \A i \in DOMAIN lh : dlog[i] = cache[lh[i]]
  /\ InPhase({"install_trans"})
       => /\ Installing /\ tail < Len(lh)
          /\ dirty = {lh[i] : i \in (tail + 1)..Len(lh)}
          /\ \A i \in (tail + 1)..Len(lh) : dlog[i] = cache[lh[i]]
  /\ InPhase({"clear"}) => Installed /\ dirty = {}

(* and those of recovery. *)
BootInv ==
  /\ boot = "read_head" => lh = <<>> /\ tail = 0
  /\ boot = "install_trans" => Installing /\ tail < Len(lh)
  /\ boot = "clear" => Installed

DataInv == UniqueInv /\ CacheInv /\ CommitInv /\ BootInv

(* The inductive invariant: together, the three say that at every step of  *)
(* commit() and of recovery a crash loses nothing that was committed.      *)
LogInv == TypeOK /\ ControlInv /\ SpaceInv /\ DataInv
=============================================================================
