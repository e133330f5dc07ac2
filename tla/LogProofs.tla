----------------------------- MODULE LogProofs -----------------------------
(***************************************************************************)
(* Proofs about Log for every set of processes and blocks and every        *)
(* geometry with Roomy: every step keeps what the buffer cache, the log    *)
(* and the home blocks hold in the relation that DataInv states; types,    *)
(* control state and log space; durability; and the refinement of          *)
(* AtomicDisk.                                                             *)
(***************************************************************************)
EXTENDS FiniteSetTheorems, Log, TLAPS

USE Zenon

(* The actions, one name each, for the case splits below. *)
LEMMA NextCases ==
  ASSUME Next
  PROVE  \/ \E p \in Proc : begin_op(p)
         \/ \E p \in Proc : log_write_check(p)
         \/ \E p \in Proc : log_write(p)
         \/ \E p \in Proc : end_op(p)
         \/ \E p \in Proc : write_log(p)
         \/ \E p \in Proc : write_head(p)
         \/ \E p \in Proc : install_trans(p)
         \/ \E p \in Proc : clear(p)
         \/ \E p \in Proc : commit_done(p)
         \/ \E p \in Proc, b \in Block, v \in Val : modify(p, b, v)
         \/ \E b \in Block : bread(b)
         \/ \E b \in Block : bget_recycle(b)
         \/ read_head
         \/ recover_install
         \/ recover_clear
         \/ Crash
  BY DEF Next, commit, recover_from_log

LEMMA TailInLog ==
  ASSUME LogInv, Roomy, boot = "install_trans" \/ InPhase({"write_log", "install_trans"})
  PROVE  /\ tail + 1 \in LogSlot
         /\ tail + 1 \in 1..Len(lh)
         /\ lh[tail + 1] \in Block
         /\ dlog[tail + 1] \in Val
<1>1. tail < Len(lh) /\ tail \in Nat /\ Len(lh) \in Nat
  BY SMT DEF LogInv, DataInv, CommitInv, BootInv, TypeOK, InPhase
<1>2. tail + 1 \in LogSlot
  BY <1>1, ParamAssumption, SMT DEF LogInv, SpaceInv, Roomy, Bound, LogSlot
<1>. QED  BY <1>1, <1>2, SMT DEF LogInv, TypeOK

(* During a commit nobody else is in a call, so every phase test speaks of *)
(* the committer.                                                          *)
LEMMA CommitterAlone ==
  ASSUME LogInv, NEW p \in Proc, pc[p] \in Committing
  PROVE  /\ boot = "up" /\ Active = {}
         /\ \A q \in Proc : hold[q] = NoBlock /\ (q # p => pc[q] \notin Committing)
         /\ \A S \in SUBSET Committing : InPhase(S) <=> pc[p] \in S
  BY DEF LogInv, ControlInv, InPhase, Active, InOp, Committing

(* A buffer that is not pinned holds no data the commit still needs. *)
LEMMA CleanBlock ==
  ASSUME LogInv, NEW b \in Block, b \notin dirty
  PROVE  /\ InPhase({"write_log"}) => \A i \in 1..tail : lh[i] # b /\ lh[i] \in Block
         /\ InPhase({"write_head"}) => \A i \in DOMAIN lh : lh[i] # b /\ lh[i] \in Block
         /\ InPhase({"install_trans"}) => \A i \in (tail + 1)..Len(lh) : lh[i] # b /\ lh[i] \in Block
<1>. USE DEF Committing
<1>t. tail \in Nat /\ lh \in Seq(Block) /\ DOMAIN lh = 1..Len(lh) /\ Len(lh) \in Nat
  BY SMT DEF LogInv, TypeOK
<1>1. ASSUME InPhase({"write_log"})  PROVE \A i \in 1..tail : lh[i] # b /\ lh[i] \in Block
  <2>1. dirty = Logged(lh) /\ tail < Len(lh)
    BY <1>1, CommitterAlone DEF LogInv, DataInv, CommitInv, InPhase
  <2>. QED  BY <2>1, <1>t, SMT DEF Logged
<1>2. ASSUME InPhase({"write_head"})  PROVE \A i \in DOMAIN lh : lh[i] # b /\ lh[i] \in Block
  <2>1. dirty = Logged(lh)
    BY <1>2, CommitterAlone DEF LogInv, DataInv, CommitInv, InPhase
  <2>. QED  BY <2>1, <1>t, SMT DEF Logged
<1>3. ASSUME InPhase({"install_trans"})
      PROVE  \A i \in (tail + 1)..Len(lh) : lh[i] # b /\ lh[i] \in Block
  <2>1. dirty = {lh[i] : i \in (tail + 1)..Len(lh)}
    BY <1>3 DEF LogInv, DataInv, CommitInv
  <2>. QED  BY <2>1, <1>t, SMT
<1>. QED  BY <1>1, <1>2, <1>3

(* One round of install_trans, in a commit or in recovery. *)
LEMMA InstallOne ==
  ASSUME LogInv, Roomy, InstallBlock,
         boot = "install_trans" \/ InPhase({"write_log", "install_trans"}),
         \A i \in 1..tail : disk[lh[i]] = dlog[i]
  PROVE  LET b == lh[tail + 1]
         IN  /\ b \in Block /\ tail + 1 \in 1..Len(lh)
             /\ disk'[b] = dlog[tail + 1] /\ cache'[b] = dlog[tail + 1]
             /\ \A c \in Block : c # b => disk'[c] = disk[c] /\ cache'[c] = cache[c]
             /\ dirty' = dirty \ {b}
             /\ \A i \in 1..(tail + 1) : disk'[lh[i]] = dlog[i]
<1>. DEFINE b == lh[tail + 1]
<1>1. b \in Block /\ tail + 1 \in 1..Len(lh) /\ tail \in Nat /\ Len(lh) \in Nat
  BY TailInLog, SMT DEF LogInv, TypeOK
<1>2. /\ disk'[b] = dlog[tail + 1] /\ cache'[b] = dlog[tail + 1]
      /\ \A c \in Block : c # b => disk'[c] = disk[c] /\ cache'[c] = cache[c]
      /\ dirty' = dirty \ {b}
  BY <1>1 DEF InstallBlock, LogInv, TypeOK
<1>3. \A i \in 1..tail : lh[i] # b /\ lh[i] \in Block
  BY <1>1, SMT DEF LogInv, DataInv, UniqueInv, TypeOK
<1>. QED  BY <1>1, <1>2, <1>3, SMT

LEMMA DataBeginOp ==
  ASSUME LogInv, Roomy, NEW p \in Proc, begin_op(p)
  PROVE  DataInv'
<1>. USE DEF diskVars, bufVars, logVars, procVars, Up
<1>t. TypeOK
  BY DEF LogInv
<1>d. UniqueInv /\ CacheInv /\ CommitInv /\ BootInv
  BY DEF LogInv, DataInv
<1>1. \A S \in SUBSET Committing : InPhase(S)' <=> InPhase(S)
  BY <1>t DEF TypeOK, begin_op, InPhase, Committing
<1>2. Active' = {} => Active = {}
  BY <1>t DEF TypeOK, begin_op, Active, InOp
<1>. QED
  <2>1. UniqueInv'
    BY <1>d, <1>1, <1>2 DEF UniqueInv, begin_op
  <2>2. CacheInv'
    BY <1>d, <1>1, <1>2 DEF CacheInv, begin_op
  <2>3. CommitInv'
    BY <1>d, <1>1, <1>2, SMT DEF CommitInv, begin_op, Installing, Installed, Logged, Committing
  <2>4. BootInv'
    BY <1>d, <1>1, <1>2 DEF BootInv, begin_op, Installing, Installed
  <2>. QED  BY <2>1, <2>2, <2>3, <2>4 DEF DataInv

LEMMA DataLogWriteCheck ==
  ASSUME LogInv, Roomy, NEW p \in Proc, log_write_check(p), ControlInv'
  PROVE  DataInv'
<1>. USE DEF diskVars, bufVars, logVars, procVars, Up
<1>t. TypeOK
  BY DEF LogInv
<1>d. UniqueInv /\ CacheInv /\ CommitInv /\ BootInv
  BY DEF LogInv, DataInv
<1>1. \A S \in SUBSET Committing : InPhase(S)' <=> InPhase(S)
  BY <1>t DEF TypeOK, log_write_check, InPhase, Committing
<1>2. Active' = Active
  BY <1>t DEF TypeOK, log_write_check, Active, InOp
<1>3. boot' = boot
  BY DEF log_write_check, ControlInv
<1>. QED
  <2>1. UniqueInv'
    BY <1>d, <1>1, <1>2, <1>3 DEF UniqueInv, log_write_check
  <2>2. CacheInv'
    BY <1>d, <1>1, <1>2, <1>3 DEF CacheInv, log_write_check
  <2>3. CommitInv'
    BY <1>d, <1>1, <1>2, <1>3, SMT DEF CommitInv, log_write_check, Installing, Installed, Logged, Committing
  <2>4. BootInv'
    BY <1>d, <1>1, <1>2, <1>3 DEF BootInv, log_write_check, Installing, Installed
  <2>. QED  BY <2>1, <2>2, <2>3, <2>4 DEF DataInv

LEMMA DataCommitDone ==
  ASSUME LogInv, Roomy, NEW p \in Proc, commit_done(p)
  PROVE  DataInv'
<1>. USE DEF diskVars, bufVars, logVars, procVars, Up
<1>t. TypeOK
  BY DEF LogInv
<1>d. UniqueInv /\ CacheInv /\ CommitInv /\ BootInv
  BY DEF LogInv, DataInv
<1>1. \A q \in Proc : pc'[q] \notin Committing
  BY <1>t, CommitterAlone DEF TypeOK, commit_done, wakeup, Committing
<1>2. \A S \in SUBSET Committing : ~InPhase(S)'
  BY <1>1 DEF InPhase
<1>3. Active' = {} /\ Active = {} /\ boot = "up" /\ lh = <<>>
  BY <1>d, CommitterAlone, SMT DEF commit_done, Active, InOp, wakeup, CommitInv, Committing
<1>4. dirty = Logged(lh) /\ dhead = <<>>
  BY <1>d, CommitterAlone, SMT DEF commit_done, CommitInv, Committing
<1>. QED
  <2>1. UniqueInv'
    BY <1>d, <1>2, <1>3, <1>4 DEF UniqueInv, commit_done
  <2>2. CacheInv'
    BY <1>d, <1>2, <1>3, <1>4 DEF CacheInv, commit_done
  <2>3. CommitInv'
    BY <1>d, <1>2, <1>3, <1>4, SMT DEF CommitInv, commit_done, Logged, Committing
  <2>4. BootInv'
    BY <1>d, <1>2, <1>3, <1>4 DEF BootInv, commit_done
  <2>. QED  BY <2>1, <2>2, <2>3, <2>4 DEF DataInv

LEMMA DataBread ==
  ASSUME LogInv, Roomy, NEW b \in Block, bread(b)
  PROVE  DataInv'
<1>. USE DEF diskVars, bufVars, logVars, procVars, Up
<1>t. TypeOK
  BY DEF LogInv
<1>d. UniqueInv /\ CacheInv /\ CommitInv /\ BootInv
  BY DEF LogInv, DataInv
<1>1. \A S \in SUBSET Committing : InPhase(S)' <=> InPhase(S)
  BY DEF bread, InPhase
<1>2. b \notin dirty /\ (\A p \in Proc : hold[p] # b)
  BY <1>d DEF bread, CacheInv
<1>3. \A c \in Block : c # b => cache'[c] = cache[c]
  BY <1>t DEF bread, TypeOK
<1>4. cache'[b] \in {NoBuf, disk[b]}
  BY <1>t DEF bread, TypeOK
<1>5. UNCHANGED <<diskVars, dirty, logVars, procVars, boot>>
  BY DEF bread
<1>6. Active' = Active
  BY <1>5 DEF Active
<1> USE <1>d, <1>1, <1>2, <1>3, <1>4, <1>5, <1>6
<1>. QED
  <2>1. UniqueInv'
    BY CleanBlock DEF UniqueInv
  <2>2. CacheInv'
    BY CleanBlock DEF CacheInv
  <2>3. CommitInv'
    BY CleanBlock, SMT DEF CommitInv, Installing, Installed, Logged, Committing
  <2>4. BootInv'
    BY CleanBlock DEF BootInv, Installing, Installed
  <2>. QED  BY <2>1, <2>2, <2>3, <2>4 DEF DataInv

LEMMA DataBgetRecycle ==
  ASSUME LogInv, Roomy, NEW b \in Block, bget_recycle(b)
  PROVE  DataInv'
<1>. USE DEF diskVars, bufVars, logVars, procVars, Up
<1>t. TypeOK
  BY DEF LogInv
<1>d. UniqueInv /\ CacheInv /\ CommitInv /\ BootInv
  BY DEF LogInv, DataInv
<1>1. \A S \in SUBSET Committing : InPhase(S)' <=> InPhase(S)
  BY DEF bget_recycle, InPhase
<1>2. b \notin dirty /\ (\A p \in Proc : hold[p] # b)
  BY <1>d DEF bget_recycle
<1>3. \A c \in Block : c # b => cache'[c] = cache[c]
  BY <1>t DEF bget_recycle, TypeOK
<1>4. cache'[b] \in {NoBuf, disk[b]}
  BY <1>t DEF bget_recycle, TypeOK
<1>5. UNCHANGED <<diskVars, dirty, logVars, procVars, boot>>
  BY DEF bget_recycle
<1>6. Active' = Active
  BY <1>5 DEF Active
<1> USE <1>d, <1>1, <1>2, <1>3, <1>4, <1>5, <1>6
<1>. QED
  <2>1. UniqueInv'
    BY CleanBlock DEF UniqueInv
  <2>2. CacheInv'
    BY CleanBlock DEF CacheInv
  <2>3. CommitInv'
    BY CleanBlock, SMT DEF CommitInv, Installing, Installed, Logged, Committing
  <2>4. BootInv'
    BY CleanBlock DEF BootInv, Installing, Installed
  <2>. QED  BY <2>1, <2>2, <2>3, <2>4 DEF DataInv

LEMMA DataLogWrite ==
  ASSUME LogInv, Roomy, NEW p \in Proc, log_write(p)
  PROVE  DataInv'
<1>. USE DEF diskVars, bufVars, logVars, procVars, Up
<1>t. TypeOK
  BY DEF LogInv
<1>d. UniqueInv /\ CacheInv /\ CommitInv /\ BootInv
  BY DEF LogInv, DataInv
<1>1. Active # {} /\ Active' # {}
  BY <1>t DEF TypeOK, log_write, Active, InOp
<1> USE <1>t, <1>d, <1>1
<1>2. \A S \in SUBSET Committing : ~InPhase(S)
  BY CommitterAlone DEF InPhase
<1>3. \A S \in SUBSET Committing : ~InPhase(S)'
  BY <1>2 DEF InPhase, log_write, TypeOK, Committing
<1>4. hold[p] \in Block
  BY DEF log_write, LogInv, ControlInv, TypeOK
<1>5. dirty = Logged(lh) /\ dhead = <<>> /\ boot = "up"
  BY <1>2 DEF log_write, CommitInv, Committing
<1>6. Logged(lh') = Logged(lh) \cup {hold[p]}
      /\ \A i, j \in DOMAIN lh' : lh'[i] = lh'[j] => i = j
  <2>1. CASE hold[p] \in Logged(lh)
    BY <2>1 DEF log_write, UniqueInv
  <2>2. CASE hold[p] \notin Logged(lh)
    <3>1. lh' = Append(lh, hold[p]) /\ lh \in Seq(Block)
      BY <2>2 DEF log_write, TypeOK
    <3>2. Len(lh') = Len(lh) + 1 /\ Len(lh) \in Nat /\ DOMAIN lh = 1..Len(lh)
          /\ DOMAIN lh' = 1..(Len(lh) + 1)
          /\ \A i \in 1..(Len(lh) + 1) : lh'[i] = IF i = Len(lh) + 1 THEN hold[p] ELSE lh[i]
      BY <3>1, <1>4, SMT
    <3>3. Logged(lh') = Logged(lh) \cup {hold[p]}
      BY <3>2, SMT DEF Logged
    <3>. QED  BY <2>2, <3>2, <3>3, SMTT(30) DEF UniqueInv, Logged
  <2>. QED  BY <2>1, <2>2
<1>7. /\ dirty' = dirty \cup {hold[p]}
      /\ UNCHANGED <<diskVars, cache, boot>>
      /\ \A q \in Proc : hold'[q] = IF q = p THEN NoBlock ELSE hold[q]
  BY DEF log_write, TypeOK
<1> USE <1>3, <1>4, <1>5, <1>6, <1>7
<1>. QED
  <2>1. UniqueInv'
    BY ParamAssumption DEF UniqueInv
  <2>2. CacheInv'
    BY ParamAssumption, ZenonT(60) DEF CacheInv
  <2>3. CommitInv'
    BY ParamAssumption DEF CommitInv, Committing
  <2>4. BootInv'
    BY ParamAssumption DEF BootInv
  <2>. QED  BY <2>1, <2>2, <2>3, <2>4 DEF DataInv

LEMMA DataEndOp ==
  ASSUME LogInv, Roomy, NEW p \in Proc, end_op(p), ControlInv', Cardinality({}) = 0
  PROVE  DataInv'
<1>. USE DEF diskVars, bufVars, logVars, procVars, Up
<1>t. TypeOK
  BY DEF LogInv
<1>d. UniqueInv /\ CacheInv /\ CommitInv /\ BootInv
  BY DEF LogInv, DataInv
<1>1. p \in Active /\ committing = 0
  BY <1>t DEF end_op, Active, InOp, LogInv, ControlInv, TypeOK
<1>2. \A S \in SUBSET Committing : ~InPhase(S)
  BY <1>1, CommitterAlone DEF InPhase
<1>3. /\ UNCHANGED <<diskVars, bufVars, lh, hold, boot>> /\ boot = "up"
      /\ outstanding # 1 => pc' = wakeup([pc EXCEPT ![p] = "idle"])
      /\ outstanding = 1
           => pc' = [pc EXCEPT ![p] = IF Len(lh) > 0 THEN "write_log" ELSE "done"] /\ tail' = 0
  BY <1>1, SMT DEF end_op
<1>4. outstanding # 1 => Active' # {}
  <2>1. outstanding' = Cardinality(Active') /\ outstanding' = outstanding - 1
    BY DEF ControlInv, end_op
  <2>2. Active' = {} => Cardinality(Active') = 0
    OBVIOUS
  <2>3. outstanding \in Nat
    BY <1>t DEF TypeOK
  <2>. QED  BY <2>1, <2>2, <2>3, SMT
<1>5. CASE outstanding # 1
  <2>1. \A S \in SUBSET Committing : ~InPhase(S)'
    BY <1>2, <1>3, <1>5, <1>t DEF InPhase, wakeup, TypeOK, Committing
  <2>. QED
    <3>1. UniqueInv'
      BY <1>d, <1>2, <1>3, <1>4, <1>5, <2>1 DEF UniqueInv
    <3>2. CacheInv'
      BY <1>d, <1>2, <1>3, <1>4, <1>5, <2>1 DEF CacheInv
    <3>3. CommitInv'
      BY <1>d, <1>2, <1>3, <1>4, <1>5, <2>1, SMT DEF CommitInv, Logged, Committing
    <3>4. BootInv'
      BY <1>d, <1>2, <1>3, <1>4, <1>5, <2>1 DEF BootInv
    <3>. QED  BY <3>1, <3>2, <3>3, <3>4 DEF DataInv
<1>6. CASE outstanding = 1 /\ Len(lh) > 0
  <2>a. pc'[p] = "write_log" /\ \A q \in Proc \ {p} : pc'[q] = pc[q]
    BY <1>3, <1>6, <1>t DEF TypeOK
  <2>b. \A q \in Proc \ {p} : pc'[q] \notin Committing
    BY <1>2, <2>a DEF InPhase
  <2>1. \A S \in SUBSET Committing : InPhase(S)' <=> "write_log" \in S
    BY <2>a, <2>b DEF InPhase
  <2>. QED
    <3>1. UniqueInv'
      BY <1>d, <1>2, <1>3, <1>6, <2>1 DEF UniqueInv
    <3>2. CacheInv'
      BY <1>d, <1>2, <1>3, <1>6, <2>1 DEF CacheInv
    <3>3. CommitInv'
      BY <1>d, <1>2, <1>3, <1>6, <2>1, SMT DEF CommitInv, Logged, Committing
    <3>4. BootInv'
      BY <1>d, <1>2, <1>3, <1>6, <2>1 DEF BootInv
    <3>. QED  BY <3>1, <3>2, <3>3, <3>4 DEF DataInv
<1>7. CASE outstanding = 1 /\ ~(Len(lh) > 0)
  <2>a. pc'[p] = "done" /\ \A q \in Proc \ {p} : pc'[q] = pc[q]
    BY <1>3, <1>7, <1>t DEF TypeOK
  <2>b. \A q \in Proc \ {p} : pc'[q] \notin Committing
    BY <1>2, <2>a DEF InPhase
  <2>1. \A S \in SUBSET Committing : InPhase(S)' <=> "done" \in S
    BY <2>a, <2>b DEF InPhase
  <2>2. lh = <<>>
    BY <1>7, <1>t, SMT DEF TypeOK
  <2>. QED
    <3>1. UniqueInv'
      BY <1>d, <1>2, <1>3, <1>7, <2>1, <2>2 DEF UniqueInv
    <3>2. CacheInv'
      BY <1>d, <1>2, <1>3, <1>7, <2>1, <2>2 DEF CacheInv
    <3>3. CommitInv'
      BY <1>d, <1>2, <1>3, <1>7, <2>1, <2>2, SMT DEF CommitInv, Logged, Committing
    <3>4. BootInv'
      BY <1>d, <1>2, <1>3, <1>7, <2>1, <2>2 DEF BootInv
    <3>. QED  BY <3>1, <3>2, <3>3, <3>4 DEF DataInv
<1>. QED  BY <1>5, <1>6, <1>7

LEMMA DataModify ==
  ASSUME LogInv, Roomy, NEW p \in Proc, NEW b \in Block, NEW v \in Val, modify(p, b, v)
  PROVE  DataInv'
<1>. USE DEF diskVars, bufVars, logVars, procVars, Up
<1>t. TypeOK
  BY DEF LogInv
<1>d. UniqueInv /\ CacheInv /\ CommitInv /\ BootInv
  BY DEF LogInv, DataInv
<1>1. Active # {} /\ Active' # {}
  BY <1>t DEF TypeOK, modify, Active, InOp
<1>2. \A S \in SUBSET Committing : ~InPhase(S)
  BY <1>1, CommitterAlone DEF InPhase
<1>3. \A S \in SUBSET Committing : ~InPhase(S)'
  BY <1>2, <1>t DEF InPhase, modify, TypeOK, Committing
<1>4. /\ UNCHANGED <<diskVars, dirty, lh, boot>> /\ boot = "up"
      /\ \A c \in Block : cache'[c] = IF c = b THEN v ELSE cache[c]
      /\ \A q \in Proc : hold'[q] = IF q = p THEN b ELSE hold[q]
      /\ hold[p] = NoBlock
  BY <1>t DEF modify, TypeOK, LogInv, ControlInv
<1>. QED
  <2>1. UniqueInv'
    BY <1>d, <1>1, <1>2, <1>3, <1>4, ParamAssumption DEF UniqueInv
  <2>2. CacheInv'
    BY <1>d, <1>1, <1>2, <1>3, <1>4, ParamAssumption, SMT DEF CacheInv
  <2>3. CommitInv'
    BY <1>d, <1>1, <1>2, <1>3, <1>4, ParamAssumption, SMT DEF CommitInv, Logged, Committing
  <2>4. BootInv'
    BY <1>d, <1>1, <1>2, <1>3, <1>4, ParamAssumption DEF BootInv
  <2>. QED  BY <2>1, <2>2, <2>3, <2>4 DEF DataInv

LEMMA DataCrash ==
  ASSUME LogInv, Roomy, Crash
  PROVE  DataInv'
<1>. USE DEF diskVars, bufVars, logVars, procVars, Up
<1>d. UniqueInv /\ CacheInv /\ CommitInv /\ BootInv
  BY DEF LogInv, DataInv
<1>1. \A S \in SUBSET Committing : ~InPhase(S)'
  BY DEF Crash, InPhase, Committing
<1>2. \A c \in Block : cache'[c] = NoBuf
  BY DEF Crash
<1>3. \A q \in Proc : hold'[q] = NoBlock
  BY DEF Crash
<1> USE <1>d, <1>1, <1>2, <1>3
<1>. QED
  <2>1. UniqueInv'
    BY ParamAssumption, SMT DEF UniqueInv, Crash
  <2>2. CacheInv'
    BY ParamAssumption DEF CacheInv, Crash
  <2>3. CommitInv'
    BY ParamAssumption DEF CommitInv, Crash, Committing
  <2>4. BootInv'
    BY ParamAssumption DEF BootInv, Crash
  <2>. QED  BY <2>1, <2>2, <2>3, <2>4 DEF DataInv

LEMMA DataWriteLog ==
  ASSUME LogInv, Roomy, NEW p \in Proc, write_log(p)
  PROVE  DataInv'
<1>. USE DEF diskVars, bufVars, logVars, procVars, Up
<1>t. TypeOK
  BY DEF LogInv
<1>d. UniqueInv /\ CacheInv /\ CommitInv /\ BootInv
  BY DEF LogInv, DataInv
<1>. DEFINE b == lh[tail + 1]
<1>0. pc[p] = "write_log" /\ pc[p] \in Committing
  BY DEF write_log, Committing
<1>1. /\ boot = "up" /\ Active = {}
      /\ \A q \in Proc : hold[q] = NoBlock /\ (q # p => pc[q] \notin Committing)
      /\ \A S \in SUBSET Committing : InPhase(S) <=> "write_log" \in S
  BY <1>0, CommitterAlone
<1>2. dirty = Logged(lh) /\ dhead = <<>> /\ tail < Len(lh) /\ \A i \in 1..tail : dlog[i] = cache[lh[i]]
  BY <1>1, <1>d, SMT DEF CommitInv, Committing
<1>3. tail + 1 \in LogSlot /\ tail + 1 \in DOMAIN lh /\ b \in Block
  BY <1>0, <1>t, TailInLog, SMT DEF InPhase, TypeOK
<1>4. b \in dirty /\ cache[b] # NoBuf
  BY <1>2, <1>3, <1>d DEF CacheInv, Logged
<1>5. cache' = cache /\ dlog' = [dlog EXCEPT ![tail + 1] = cache[b]]
  BY <1>4, <1>t DEF write_log, Read, TypeOK
<1>6. dlog'[tail + 1] = cache[b] /\ \A i \in LogSlot : i # tail + 1 => dlog'[i] = dlog[i]
  BY <1>3, <1>5, <1>t DEF TypeOK
<1>7. tail \in Nat /\ Len(lh) \in Nat /\ DOMAIN lh = 1..Len(lh) /\ 1..Len(lh) \subseteq LogSlot
  BY <1>t, ParamAssumption, SMT DEF TypeOK, LogInv, SpaceInv, Roomy, Bound, LogSlot
<1>8. \A i \in 1..(tail + 1) : dlog'[i] = cache[lh[i]]
  BY <1>2, <1>6, <1>7, SMT
<1>9. UNCHANGED <<disk, dhead, dirty, lh, hold, boot>>
  BY DEF write_log
<1>10. CASE tail + 1 < Len(lh)
  <2>1. tail' = tail + 1 /\ pc' = pc
    BY <1>10 DEF write_log, Advance
  <2>2. (\A S \in SUBSET Committing : InPhase(S)' <=> "write_log" \in S) /\ Active' = {}
    BY <2>1, <1>1 DEF InPhase, Active
  <2>. QED
    <3>1. UniqueInv'
      BY <1>d, <1>1, <1>2, <1>5, <1>8, <1>9, <1>10, <2>1, <2>2 DEF UniqueInv
    <3>2. CacheInv'
      BY <1>d, <1>1, <1>2, <1>5, <1>8, <1>9, <1>10, <2>1, <2>2 DEF CacheInv
    <3>3. CommitInv'
      BY <1>d, <1>1, <1>2, <1>5, <1>8, <1>9, <1>10, <2>1, <2>2, SMT DEF CommitInv, Committing, Logged
    <3>4. BootInv'
      BY <1>d, <1>1, <1>2, <1>5, <1>8, <1>9, <1>10, <2>1, <2>2 DEF BootInv
    <3>. QED  BY <3>1, <3>2, <3>3, <3>4 DEF DataInv
<1>11. CASE ~(tail + 1 < Len(lh))
  <2>1. tail' = 0 /\ pc' = [pc EXCEPT ![p] = "write_head"]
    BY <1>11 DEF write_log, Advance
  <2>2. (\A S \in SUBSET Committing : InPhase(S)' <=> "write_head" \in S) /\ Active' = {}
    BY <2>1, <1>1, <1>t DEF InPhase, Active, InOp, TypeOK, Committing
  <2>3. \A i \in DOMAIN lh : dlog'[i] = cache[lh[i]]
    BY <1>2, <1>7, <1>8, <1>11, SMT
  <2>. QED
    <3>1. UniqueInv'
      BY <1>d, <1>1, <1>2, <1>5, <1>7, <1>9, <2>1, <2>2, <2>3 DEF UniqueInv
    <3>2. CacheInv'
      BY <1>d, <1>1, <1>2, <1>5, <1>7, <1>9, <2>1, <2>2, <2>3 DEF CacheInv
    <3>3. CommitInv'
      BY <1>d, <1>1, <1>2, <1>5, <1>7, <1>9, <2>1, <2>2, <2>3, SMT DEF CommitInv, Committing, Logged
    <3>4. BootInv'
      BY <1>d, <1>1, <1>2, <1>5, <1>7, <1>9, <2>1, <2>2, <2>3 DEF BootInv
    <3>. QED  BY <3>1, <3>2, <3>3, <3>4 DEF DataInv
<1>. QED  BY <1>10, <1>11

LEMMA DataWriteHead ==
  ASSUME LogInv, Roomy, NEW p \in Proc, write_head(p)
  PROVE  DataInv'
<1>. USE DEF diskVars, bufVars, logVars, procVars, Up
<1>t. TypeOK
  BY DEF LogInv
<1>d. UniqueInv /\ CacheInv /\ CommitInv /\ BootInv
  BY DEF LogInv, DataInv
<1>0. pc[p] = "write_head" /\ pc[p] \in Committing
  BY DEF write_head, Committing
<1>1. /\ boot = "up" /\ Active = {}
      /\ \A q \in Proc : hold[q] = NoBlock /\ (q # p => pc[q] \notin Committing)
      /\ \A S \in SUBSET Committing : InPhase(S) <=> "write_head" \in S
  BY <1>0, CommitterAlone
<1>2. /\ dirty = Logged(lh) /\ tail = 0 /\ Len(lh) > 0
      /\ \A i \in DOMAIN lh : dlog[i] = cache[lh[i]]
  BY <1>1, <1>d, SMT DEF CommitInv, Committing
<1>3. (\A S \in SUBSET Committing : InPhase(S)' <=> "install_trans" \in S) /\ Active' = {}
  BY <1>1, <1>t DEF write_head, InPhase, Active, InOp, TypeOK, Committing
<1>4. dhead' = lh /\ UNCHANGED <<disk, dlog, bufVars, lh, tail, hold, boot>>
  BY DEF write_head
<1>5. DOMAIN lh = 1..Len(lh) /\ Len(lh) \in Nat
  BY <1>t, SMT DEF TypeOK
<1>6. dirty = {lh[i] : i \in (tail + 1)..Len(lh)}
  BY <1>2, <1>5, SMT DEF Logged
<1>. QED
  <2>1. UniqueInv'
    BY <1>d, <1>1, <1>2, <1>3, <1>4, <1>5, <1>6 DEF UniqueInv
  <2>2. CacheInv'
    BY <1>d, <1>1, <1>2, <1>3, <1>4, <1>5, <1>6 DEF CacheInv
  <2>3. CommitInv'
    BY <1>d, <1>1, <1>2, <1>3, <1>4, <1>5, <1>6, SMT DEF CommitInv, Installing, Committing
  <2>4. BootInv'
    BY <1>d, <1>1, <1>2, <1>3, <1>4, <1>5, <1>6 DEF BootInv, Installing
  <2>. QED  BY <2>1, <2>2, <2>3, <2>4 DEF DataInv

LEMMA DataClear ==
  ASSUME LogInv, Roomy, NEW p \in Proc, clear(p)
  PROVE  DataInv'
<1>. USE DEF diskVars, bufVars, logVars, procVars, Up
<1>t. TypeOK
  BY DEF LogInv
<1>d. UniqueInv /\ CacheInv /\ CommitInv /\ BootInv
  BY DEF LogInv, DataInv
<1>0. pc[p] = "clear" /\ pc[p] \in Committing
  BY DEF clear, Committing
<1>1. /\ boot = "up" /\ Active = {}
      /\ \A q \in Proc : hold[q] = NoBlock /\ (q # p => pc[q] \notin Committing)
      /\ \A S \in SUBSET Committing : InPhase(S) <=> "clear" \in S
  BY <1>0, CommitterAlone
<1>2. dirty = {}
  BY <1>1, <1>d DEF CommitInv, Committing
<1>3. (\A S \in SUBSET Committing : InPhase(S)' <=> "done" \in S) /\ Active' = {}
  BY <1>1, <1>t DEF clear, InPhase, Active, InOp, TypeOK, Committing
<1>4. dhead' = <<>> /\ lh' = <<>> /\ UNCHANGED <<disk, dlog, bufVars, tail, hold, boot>>
  BY DEF clear
<1>5. Logged(lh') = {} /\ DOMAIN lh' = {}
  BY <1>4, SMT DEF Logged
<1>. QED
  <2>1. UniqueInv'
    BY <1>d, <1>1, <1>2, <1>3, <1>4, <1>5 DEF UniqueInv
  <2>2. CacheInv'
    BY <1>d, <1>1, <1>2, <1>3, <1>4, <1>5 DEF CacheInv
  <2>3. CommitInv'
    BY <1>d, <1>1, <1>2, <1>3, <1>4, <1>5, SMT DEF CommitInv, Committing
  <2>4. BootInv'
    BY <1>d, <1>1, <1>2, <1>3, <1>4, <1>5 DEF BootInv
  <2>. QED  BY <2>1, <2>2, <2>3, <2>4 DEF DataInv

LEMMA DataReadHead ==
  ASSUME LogInv, Roomy, read_head
  PROVE  DataInv'
<1>. USE DEF diskVars, bufVars, logVars, procVars, Up
<1>t. TypeOK
  BY DEF LogInv
<1>d. UniqueInv /\ CacheInv /\ CommitInv /\ BootInv
  BY DEF LogInv, DataInv
<1>r. /\ dirty = {} /\ \A q \in Proc : pc[q] = "idle" /\ hold[q] = NoBlock
      /\ \A S \in SUBSET Committing : ~InPhase(S)
  BY DEF LogInv, ControlInv, InPhase, Committing, read_head
<1>1. boot # "up" /\ boot = "read_head" /\ UNCHANGED <<diskVars, bufVars, tail, procVars>> /\ lh' = dhead
  BY DEF read_head
<1>2. \A S \in SUBSET Committing : ~InPhase(S)'
  BY <1>1, <1>r DEF InPhase
<1>3. tail = 0 /\ Len(dhead) \in Nat /\ DOMAIN dhead = 1..Len(dhead)
  BY <1>1, <1>d, <1>t, SMT DEF BootInv, TypeOK
<1> USE <1>d, <1>r, <1>1, <1>2, <1>3
<1>4. CASE Len(dhead) > 0
  <2> USE <1>4
  <2>1. boot' = "install_trans"
    BY DEF read_head
  <2> USE <2>1
  <2>. QED
    <3>1. UniqueInv'
      BY DEF UniqueInv
    <3>2. CacheInv'
      BY DEF CacheInv
    <3>3. CommitInv'
      BY DEF CommitInv, Installing, Committing
    <3>4. BootInv'
      BY SMT DEF BootInv, Installing
    <3>. QED  BY <3>1, <3>2, <3>3, <3>4 DEF DataInv
<1>5. CASE ~(Len(dhead) > 0)
  <2>1. boot' = "clear" /\ DOMAIN dhead = {}
    BY <1>5, SMT DEF read_head
  <2> USE <2>1
  <2>. QED
    <3>1. UniqueInv'
      BY DEF UniqueInv
    <3>2. CacheInv'
      BY DEF CacheInv
    <3>3. CommitInv'
      BY DEF CommitInv, Installed, Committing
    <3>4. BootInv'
      BY DEF BootInv, Installed
    <3>. QED  BY <3>1, <3>2, <3>3, <3>4 DEF DataInv
<1>. QED  BY <1>4, <1>5

LEMMA DataRecoverClear ==
  ASSUME LogInv, Roomy, recover_clear
  PROVE  DataInv'
<1>. USE DEF diskVars, bufVars, logVars, procVars, Up
<1>d. UniqueInv /\ CacheInv /\ CommitInv /\ BootInv
  BY DEF LogInv, DataInv
<1>r. /\ dirty = {} /\ \A q \in Proc : pc[q] = "idle" /\ hold[q] = NoBlock
      /\ \A S \in SUBSET Committing : ~InPhase(S)
  BY DEF LogInv, ControlInv, InPhase, Committing, recover_clear
<1>1. boot # "up" /\ boot' = "up" /\ UNCHANGED <<disk, dlog, bufVars, tail, procVars>>
      /\ lh' = <<>> /\ dhead' = <<>>
  BY DEF recover_clear
<1>2. \A S \in SUBSET Committing : ~InPhase(S)'
  BY <1>1, <1>r DEF InPhase
<1>3. Logged(lh') = {} /\ DOMAIN lh' = {}
  BY <1>1, SMT DEF Logged
<1> USE <1>d, <1>r, <1>1, <1>2, <1>3
<1>. QED
  <2>1. UniqueInv'
    BY DEF UniqueInv
  <2>2. CacheInv'
    BY DEF CacheInv
  <2>3. CommitInv'
    BY DEF CommitInv, Committing
  <2>4. BootInv'
    BY DEF BootInv
  <2>. QED  BY <2>1, <2>2, <2>3, <2>4 DEF DataInv

LEMMA DataInstallTrans ==
  ASSUME LogInv, Roomy, NEW p \in Proc, install_trans(p)
  PROVE  DataInv'
<1>. USE DEF diskVars, bufVars, logVars, procVars, Up
<1>t. TypeOK
  BY DEF LogInv
<1>d. UniqueInv /\ CacheInv /\ CommitInv /\ BootInv
  BY DEF LogInv, DataInv
<1>. DEFINE b == lh[tail + 1]
<1>0. pc[p] = "install_trans" /\ pc[p] \in Committing
  BY DEF install_trans, Committing
<1>1. /\ boot = "up" /\ Active = {}
      /\ \A q \in Proc : hold[q] = NoBlock /\ (q # p => pc[q] \notin Committing)
      /\ \A S \in SUBSET Committing : InPhase(S) <=> "install_trans" \in S
  BY <1>0, CommitterAlone
<1>2. /\ Installing /\ tail < Len(lh)
      /\ dirty = {lh[i] : i \in (tail + 1)..Len(lh)}
      /\ \A i \in (tail + 1)..Len(lh) : dlog[i] = cache[lh[i]]
  BY <1>1, <1>d DEF CommitInv, Committing
<1>3. /\ b \in Block /\ tail + 1 \in 1..Len(lh)
      /\ disk'[b] = dlog[tail + 1] /\ cache'[b] = dlog[tail + 1]
      /\ \A c \in Block : c # b => disk'[c] = disk[c] /\ cache'[c] = cache[c]
      /\ dirty' = dirty \ {b}
      /\ \A i \in 1..(tail + 1) : disk'[lh[i]] = dlog[i]
  BY <1>1, <1>2, InstallOne DEF install_trans, Installing, InPhase, Committing
<1>4. tail \in Nat /\ Len(lh) \in Nat /\ DOMAIN lh = 1..Len(lh) /\ dlog[tail + 1] # NoBuf
      /\ \A i \in DOMAIN lh : lh[i] \in Block
  BY <1>t, <1>0, TailInLog, ParamAssumption, SMT DEF TypeOK, InPhase
<1>5. UNCHANGED <<dlog, dhead, lh, hold, boot>>
  BY DEF install_trans
<1>6. \A i, j \in DOMAIN lh : lh[i] = lh[j] => i = j
  BY <1>d DEF UniqueInv
<1>7. dirty' = {lh[i] : i \in (tail + 2)..Len(lh)}
  <2>1. \A i \in (tail + 1)..Len(lh) : i = tail + 1 \/ i \in (tail + 2)..Len(lh)
    BY <1>4, SMT
  <2>2. \A i \in (tail + 2)..Len(lh) : i \in (tail + 1)..Len(lh) /\ lh[i] # b
    BY <1>3, <1>4, <1>6, SMT
  <2>. QED  BY <1>2, <1>3, <2>1, <2>2, SMT
<1>8. \A i \in (tail + 2)..Len(lh) : dlog[i] = cache'[lh[i]]
  BY <1>2, <1>3, <1>4, <1>6, SMT
<1>9. \A c \in Block : c \notin dirty' => cache'[c] \in {NoBuf, disk'[c]}
  BY <1>1, <1>3, <1>d, ParamAssumption, ZenonT(60) DEF CacheInv
<1>10. \A c \in Block : c \in dirty' => cache'[c] # NoBuf
  BY <1>3, <1>d DEF CacheInv
<1>c. CacheInv'
  <2>1. \A q \in Proc, c \in Block : hold'[q] # c
    BY <1>1, <1>5, ParamAssumption
  <2>. QED  BY <1>9, <1>10, <2>1 DEF CacheInv
<1>11. CASE tail + 1 < Len(lh)
  <2>1. tail' = tail + 1 /\ pc' = pc
    BY <1>11 DEF install_trans, Advance
  <2>2. (\A S \in SUBSET Committing : InPhase(S)' <=> "install_trans" \in S) /\ Active' = {}
    BY <2>1, <1>1 DEF InPhase, Active
  <2>3. dirty' = {lh[i] : i \in (tail' + 1)..Len(lh)}
        /\ \A i \in (tail' + 1)..Len(lh) : dlog[i] = cache'[lh[i]]
    BY <1>4, <1>7, <1>8, <2>1, SMT
  <2>4. Installing'
    BY <1>2, <1>3, <1>5, <2>1 DEF Installing
  <2>. QED
    <3>1. UniqueInv'
      BY <1>d, <1>5 DEF UniqueInv
    <3>3. CommitInv'
      <4>1. /\ InPhase({"install_trans", "clear"})' /\ InPhase(Committing \ {"done"})'
            /\ ~InPhase({"write_log"})' /\ ~InPhase({"write_head"})' /\ ~InPhase({"clear"})'
        BY <2>2, SMT DEF Committing
      <4>2. tail' < Len(lh')
        BY <1>4, <1>5, <1>11, <2>1
      <4>. QED  BY <1>5, <2>3, <2>4, <4>1, <4>2 DEF CommitInv
    <3>4. BootInv'
      BY <1>1, <1>5 DEF BootInv
    <3>. QED  BY <1>c, <3>1, <3>3, <3>4 DEF DataInv
<1>12. CASE ~(tail + 1 < Len(lh))
  <2>1. tail' = 0 /\ pc' = [pc EXCEPT ![p] = "clear"]
    BY <1>12 DEF install_trans, Advance
  <2>2. (\A S \in SUBSET Committing : InPhase(S)' <=> "clear" \in S) /\ Active' = {}
    BY <2>1, <1>1, <1>t DEF InPhase, Active, InOp, TypeOK, Committing
  <2>3. dirty' = {}
    BY <1>3, <1>4, <1>7, <1>12, SMT
  <2>4. Installed'
    BY <1>2, <1>3, <1>4, <1>5, <1>12, SMT DEF Installed, Installing
  <2>. QED
    <3>1. UniqueInv'
      BY <1>d, <1>5 DEF UniqueInv
    <3>3. CommitInv'
      <4>1. /\ InPhase({"install_trans", "clear"})' /\ InPhase(Committing \ {"done"})'
            /\ ~InPhase({"write_log"})' /\ ~InPhase({"write_head"})' /\ ~InPhase({"install_trans"})'
        BY <2>2, SMT DEF Committing
      <4>. QED  BY <2>3, <2>4, <4>1 DEF CommitInv
    <3>4. BootInv'
      BY <1>1, <1>5 DEF BootInv
    <3>. QED  BY <1>c, <3>1, <3>3, <3>4 DEF DataInv
<1>. QED  BY <1>11, <1>12

LEMMA DataRecoverInstall ==
  ASSUME LogInv, Roomy, recover_install
  PROVE  DataInv'
<1>. USE DEF diskVars, bufVars, logVars, procVars, Up
<1>t. TypeOK
  BY DEF LogInv
<1>d. UniqueInv /\ CacheInv /\ CommitInv /\ BootInv
  BY DEF LogInv, DataInv
<1> USE <1>d
<1>r. /\ dirty = {} /\ \A q \in Proc : pc[q] = "idle" /\ hold[q] = NoBlock
      /\ \A S \in SUBSET Committing : ~InPhase(S)
  BY DEF LogInv, ControlInv, InPhase, Committing, recover_install
<1>. DEFINE b == lh[tail + 1]
<1>1. /\ boot = "install_trans" /\ InstallBlock /\ UNCHANGED <<dlog, dhead, lh, procVars>>
  BY DEF recover_install
<1>2. Installing /\ tail < Len(lh) /\ dirty = {}
  BY <1>1, <1>r DEF BootInv
<1> USE <1>1, <1>2
<1>3. /\ b \in Block /\ tail + 1 \in 1..Len(lh)
      /\ disk'[b] = dlog[tail + 1] /\ cache'[b] = dlog[tail + 1]
      /\ \A c \in Block : c # b => disk'[c] = disk[c] /\ cache'[c] = cache[c]
      /\ dirty' = dirty \ {b}
      /\ \A i \in 1..(tail + 1) : disk'[lh[i]] = dlog[i]
  BY InstallOne DEF Installing
<1>4. tail \in Nat /\ Len(lh) \in Nat /\ DOMAIN lh = 1..Len(lh)
  BY <1>t, SMT DEF TypeOK
<1>5. \A S \in SUBSET Committing : ~InPhase(S)'
  BY <1>r DEF InPhase
<1>6. \A c \in Block : cache'[c] \in {NoBuf, disk'[c]}
  BY <1>3, <1>r, ParamAssumption DEF CacheInv
<1>7. dirty' = {} /\ \A q \in Proc : hold'[q] = NoBlock
  BY <1>3, <1>r
<1> USE <1>5, <1>6, <1>7
<1>8. CASE tail + 1 < Len(lh)
  <2> USE <1>8
  <2>1. tail' = tail + 1 /\ boot' = boot
    BY DEF recover_install
  <2> USE <2>1
  <2>2. Installing'
    BY <1>3 DEF Installing
  <2>. QED
    <3>1. UniqueInv'
      BY <2>2, ParamAssumption DEF UniqueInv
    <3>2. CacheInv'
      BY <2>2, ParamAssumption DEF CacheInv
    <3>3. CommitInv'
      BY <2>2, ParamAssumption DEF CommitInv, Committing
    <3>4. BootInv'
      BY <2>2, ParamAssumption DEF BootInv
    <3>. QED  BY <3>1, <3>2, <3>3, <3>4 DEF DataInv
<1>9. CASE ~(tail + 1 < Len(lh))
  <2>1. tail' = 0 /\ boot' = "clear"
    BY <1>9 DEF recover_install
  <2>2. Installed'
    BY <1>3, <1>4, <1>9, SMT DEF Installing, Installed
  <2>. QED
    <3>1. UniqueInv'
      BY <2>1, <2>2, ParamAssumption DEF UniqueInv
    <3>2. CacheInv'
      BY <2>1, <2>2, ParamAssumption DEF CacheInv
    <3>3. CommitInv'
      BY <2>1, <2>2, ParamAssumption DEF CommitInv, Committing
    <3>4. BootInv'
      BY <2>1, <2>2, ParamAssumption DEF BootInv
    <3>. QED  BY <3>1, <3>2, <3>3, <3>4 DEF DataInv
<1>. QED  BY <1>8, <1>9

LEMMA DataStep ==
  ASSUME LogInv, Roomy, Next, ControlInv', Cardinality({}) = 0
  PROVE  DataInv'
  BY NextCases, DataBeginOp, DataLogWriteCheck, DataLogWrite, DataEndOp, DataWriteLog, DataWriteHead, DataInstallTrans, DataClear,
     DataCommitDone, DataModify, DataBread, DataBgetRecycle, DataReadHead, DataRecoverInstall, DataRecoverClear, DataCrash

-----------------------------------------------------------------------------
LEMMA InitInv ==
  ASSUME Init, Roomy
  PROVE  LogInv
<1>1. TypeOK
  BY SMT DEF Init, TypeOK, PC
<1>2. Active = {}
  BY DEF Init, Active, InOp
<1>3. ControlInv
  BY <1>2, FS_EmptySet, SMT DEF Init, ControlInv, InPhase, Committing, InOp
<1>4. SpaceInv
  BY <1>2, FS_EmptySet, ParamAssumption, SMT DEF Init, SpaceInv, Roomy, Bound, Logged
<1>5. DataInv
  <2>1. lh = <<>> /\ dhead = <<>> /\ boot = "read_head" /\ tail = 0 /\ dirty = {}
    BY DEF Init
  <2>2. \A p \in Proc : pc[p] = "idle" /\ hold[p] = NoBlock
    BY DEF Init
  <2>3. \A b \in Block : cache[b] = NoBuf /\ b # NoBlock
    BY ParamAssumption DEF Init
  <2>4. DOMAIN lh = {} /\ DOMAIN dhead = {}
    BY <2>1, SMT
  <2>5. ~InPhase(Committing) /\ ~InPhase({"install_trans"}) /\ ~InPhase({"clear"})
        /\ ~InPhase({"write_log"}) /\ ~InPhase({"write_head"})
    BY <2>2 DEF InPhase, Committing
  <2>. QED  BY <2>1, <2>2, <2>3, <2>4, <2>5 DEF DataInv, UniqueInv, CacheInv, CommitInv, BootInv
<1>. QED  BY <1>1, <1>3, <1>4, <1>5 DEF LogInv

-----------------------------------------------------------------------------
(* Types. *)


LEMMA TypeStep ==
  ASSUME LogInv, Roomy, Next
  PROVE  TypeOK'
<1>. USE DEF LogInv, TypeOK, PC, InOp, Committing, diskVars, bufVars, logVars, procVars
<1>1. ASSUME NEW p \in Proc, begin_op(p)  PROVE TypeOK'
  BY <1>1, SMTT(60) DEF begin_op
<1>2. ASSUME NEW p \in Proc, log_write_check(p)  PROVE TypeOK'
  BY <1>2 DEF log_write_check
<1>3. ASSUME NEW p \in Proc, log_write(p)  PROVE TypeOK'
  <2>1. hold[p] \in Block
    BY <1>3 DEF log_write, ControlInv
  <2>. QED  BY <1>3, <2>1, SMT DEF log_write
<1>4. ASSUME NEW p \in Proc, end_op(p)  PROVE TypeOK'
  <2>1. outstanding - 1 \in Nat
    <3>1. p \in Active /\ Active \subseteq Proc
      BY <1>4 DEF end_op, Active
    <3>2. Cardinality(Active) # 0 /\ Cardinality(Active) \in Nat
      BY <3>1, FS_EmptySet, FS_Subset, FS_CardinalityType, ParamAssumption
    <3>. QED  BY <3>2, SMT DEF ControlInv
  <2>. QED  BY <1>4, <2>1, SMT DEF end_op, wakeup
<1>5. ASSUME NEW p \in Proc, write_log(p)  PROVE TypeOK'
  <2>0. InPhase({"write_log"})
    BY <1>5 DEF write_log, InPhase
  <2>1. lh[tail + 1] \in Block
    <3>. HIDE DEF LogInv, TypeOK, PC, InOp, Committing, diskVars, bufVars, logVars, procVars
    <3>. QED  BY <2>0, TailInLog DEF InPhase
  <2>2. Read(lh[tail + 1]) \in Val
    BY <2>1 DEF Read
  <2>3. pc' \in [Proc -> PC] /\ tail' \in Nat
    BY <1>5, SMTT(30) DEF write_log, Advance
  <2>. QED  BY <1>5, <2>1, <2>2, <2>3 DEF write_log
<1>6. ASSUME NEW p \in Proc, write_head(p)  PROVE TypeOK'
  BY <1>6 DEF write_head
<1>7. ASSUME NEW p \in Proc, install_trans(p)  PROVE TypeOK'
  <2>1. lh[tail + 1] \in Block /\ dlog[tail + 1] \in Val
    BY <1>7, TailInLog DEF install_trans, InPhase
  <2>. QED  BY <1>7, <2>1, SMT DEF install_trans, InstallBlock, Advance
<1>8. ASSUME NEW p \in Proc, clear(p)  PROVE TypeOK'
  BY <1>8, SMT DEF clear
<1>9. ASSUME NEW p \in Proc, commit_done(p)  PROVE TypeOK'
  BY <1>9 DEF commit_done, wakeup
<1>10. ASSUME NEW p \in Proc, NEW b \in Block, NEW v \in Val, modify(p, b, v)  PROVE TypeOK'
  BY <1>10 DEF modify
<1>11. ASSUME NEW b \in Block, bread(b)  PROVE TypeOK'
  BY <1>11 DEF bread
<1>12. ASSUME NEW b \in Block, bget_recycle(b)  PROVE TypeOK'
  BY <1>12 DEF bget_recycle
<1>13. CASE read_head
  BY <1>13 DEF read_head
<1>14. CASE recover_install
  <2>1. lh[tail + 1] \in Block /\ dlog[tail + 1] \in Val
    BY <1>14, TailInLog DEF recover_install
  <2>. QED  BY <1>14, <2>1, SMT DEF recover_install, InstallBlock
<1>15. CASE recover_clear
  BY <1>15, SMT DEF recover_clear
<1>16. CASE Crash
  BY <1>16, SMT DEF Crash
<1>. QED
  BY NextCases, <1>1, <1>2, <1>3, <1>4, <1>5, <1>6, <1>7, <1>8, <1>9, <1>10, <1>11, <1>12, <1>13, <1>14, <1>15, <1>16

-----------------------------------------------------------------------------
(* Control. *)

LEMMA ActiveFinite ==
  /\ IsFiniteSet(Active) /\ Cardinality(Active) \in Nat
  /\ Cardinality(Active) = 0 <=> Active = {}
  BY FS_EmptySet, FS_Subset, FS_CardinalityType, ParamAssumption DEF Active

LEMMA NoSpaceMonotone ==
  ASSUME LogInv, NoSpace, Len(lh) <= Len(lh'), Len(lh') \in Nat,
         outstanding <= outstanding', outstanding' \in Nat
  PROVE  NoSpace'
<1>. DEFINE A == (outstanding + 1) * MAXOPBLOCKS
            B == (outstanding' + 1) * MAXOPBLOCKS
<1>1. \A o, n, m \in Nat : o <= n => (o + 1) * m <= (n + 1) * m /\ (o + 1) * m \in Nat /\ (n + 1) * m \in Nat
  BY SMT
<1>2. A <= B /\ A \in Nat /\ B \in Nat
  BY <1>1, ParamAssumption DEF LogInv, TypeOK
<1>3. Len(lh) + A > LOGSIZE
  BY DEF NoSpace
<1>4. Len(lh') + B > LOGSIZE
  <2>1. Len(lh) \in Nat /\ LOGSIZE \in Nat
    BY ParamAssumption, SMT DEF LogInv, TypeOK
  <2>. HIDE DEF A, B
  <2>. QED  BY <1>2, <1>3, <2>1, SMT
<1>. QED  BY <1>4 DEF NoSpace

LEMMA ControlStep ==
  ASSUME LogInv, Roomy, Next
  PROVE  ControlInv'
<1>. USE DEF LogInv, TypeOK, PC, InOp, Committing, diskVars, bufVars, logVars, procVars, InPhase,
             ControlInv, Up
<1>1. ASSUME NEW p \in Proc, begin_op(p)  PROVE ControlInv'
  <2>1. CASE committing = 1 \/ NoSpace
    <3>1. Active' = Active
      BY <1>1, <2>1 DEF begin_op, Active
    <3>2. (NoSpace' <=> NoSpace)
      BY <1>1, <2>1 DEF begin_op, NoSpace
    <3>3. \A q \in Proc : /\ pc'[q] \in Committing <=> pc[q] \in Committing
                          /\ pc'[q] \in {"check", "append"} <=> pc[q] \in {"check", "append"}
      BY <1>1, <2>1, ZenonT(60) DEF begin_op
    <3>4. /\ boot = "up" /\ boot' = boot /\ hold' = hold
          /\ outstanding' = outstanding /\ committing' = committing
      BY <1>1, <2>1 DEF begin_op
    <3>. QED  BY <2>1, <3>1, <3>2, <3>3, <3>4
  <2>2. CASE ~(committing = 1 \/ NoSpace)
    <3>1. Active' = Active \cup {p} /\ p \notin Active
      BY <1>1, <2>2, ZenonT(60) DEF begin_op, Active
    <3>2. outstanding' = Cardinality(Active')
      BY <1>1, <2>2, <3>1, ActiveFinite, FS_AddElement DEF begin_op
    <3>3. NoSpace => NoSpace'
      BY <2>2
    <3>. QED  BY <1>1, <2>2, <3>1, <3>2, <3>3, ZenonT(60) DEF begin_op
  <2>. QED  BY <2>1, <2>2
<1>2. ASSUME NEW p \in Proc, log_write_check(p)  PROVE ControlInv'
  <2>1. p \in Active
    BY <1>2 DEF log_write_check, Active
  <2>2. outstanding >= 1
    BY <2>1, ActiveFinite, SMT
  <2>3. Len(lh) < LOGSIZE /\ Len(lh) < Size - 1
    BY ParamAssumption, SMT DEF SpaceInv, Roomy, Bound
  <2>4. pc' = [pc EXCEPT ![p] = "append"] /\ boot' = boot
    BY <1>2, <2>2, <2>3, ParamAssumption, SMT DEF log_write_check
  <2>5. Active' = Active /\ (NoSpace' <=> NoSpace)
    BY <1>2, <2>4 DEF log_write_check, Active, NoSpace
  <2>. QED  BY <1>2, <2>4, <2>5, ZenonT(60) DEF log_write_check
<1>3. ASSUME NEW p \in Proc, log_write(p)  PROVE ControlInv'
  <2>1. Active' = Active
    BY <1>3 DEF log_write, Active
  <2>2. hold[p] \in Block
    BY <1>3 DEF log_write
  <2>3. Len(lh) <= Len(lh') /\ Len(lh') \in Nat
    BY <1>3, <2>2, SMT DEF log_write
  <2>4. NoSpace => NoSpace'
    BY <1>3, <2>3, NoSpaceMonotone, SMT DEF log_write
  <2>. QED  BY <1>3, <2>1, <2>4, ZenonT(60) DEF log_write
<1>4. ASSUME NEW p \in Proc, end_op(p)  PROVE ControlInv'
  <2>1. p \in Active /\ committing = 0
    BY <1>4 DEF end_op, Active
  <2>2. outstanding - 1 = Cardinality(Active \ {p})
    BY <2>1, ActiveFinite, FS_RemoveElement
  <2>3. Active' = Active \ {p}
    BY <1>4, <2>1, ZenonT(60) DEF end_op, Active, wakeup
  <2>4. outstanding = 1 => Active' = {}
    BY <2>2, <2>3, ActiveFinite, FS_EmptySet, FS_RemoveElement, SMTT(60)
  <2>5. \A q \in Proc : outstanding # 1 => pc'[q] # "sleep"
    BY <1>4, <2>1 DEF end_op, wakeup
  <2>6. boot' = boot /\ hold' = hold /\ outstanding' = outstanding - 1 /\ dirty' = dirty
        /\ committing' = IF outstanding = 1 THEN 1 ELSE 0
    BY <1>4, <2>1 DEF end_op
  <2>7. \A q \in Proc : /\ pc'[q] \in Committing <=> (q = p /\ outstanding = 1)
                        /\ pc'[q] \in {"check", "append"} <=> pc[q] \in {"check", "append"}
    BY <1>4, <2>1, SMT DEF end_op, wakeup
  <2>. QED  BY <1>4, <2>1, <2>2, <2>3, <2>4, <2>5, <2>6, <2>7, SMT DEF end_op
<1>5. ASSUME NEW p \in Proc, write_log(p)  PROVE ControlInv'
  <2>1. Active' = Active /\ (NoSpace' <=> NoSpace)
    BY <1>5, ZenonT(60) DEF write_log, Advance, Active, NoSpace
  <2>. QED  BY <1>5, <2>1, SMTT(60) DEF write_log, Advance
<1>6. ASSUME NEW p \in Proc, write_head(p)  PROVE ControlInv'
  <2>1. Active' = Active /\ (NoSpace' <=> NoSpace)
    BY <1>6 DEF write_head, Active, NoSpace
  <2>. QED  BY <1>6, <2>1, SMT DEF write_head
<1>7. ASSUME NEW p \in Proc, install_trans(p)  PROVE ControlInv'
  <2>1. Active' = Active /\ (NoSpace' <=> NoSpace)
    BY <1>7, ZenonT(60) DEF install_trans, Advance, Active, NoSpace
  <2>2. \A q \in Proc : /\ pc'[q] \in Committing <=> pc[q] \in Committing
                        /\ pc'[q] = "sleep" <=> pc[q] = "sleep"
                        /\ pc'[q] \in {"check", "append"} <=> pc[q] \in {"check", "append"}
    BY <1>7, SMT DEF install_trans, Advance
  <2>3. /\ boot = "up" /\ boot' = boot /\ hold' = hold
        /\ outstanding' = outstanding /\ committing' = committing
    BY <1>7 DEF install_trans
  <2>. QED  BY <2>1, <2>2, <2>3, SMT
<1>8. ASSUME NEW p \in Proc, clear(p)  PROVE ControlInv'
  <2>1. Active' = Active /\ committing = 1
    BY <1>8 DEF clear, Active
  <2>. QED  BY <1>8, <2>1, ZenonT(60) DEF clear
<1>9. ASSUME NEW p \in Proc, commit_done(p)  PROVE ControlInv'
  <2>1. Active' = Active
    BY <1>9 DEF commit_done, Active, wakeup
  <2>2. \A q \in Proc : pc'[q] # "sleep" /\ pc'[q] \notin Committing
    BY <1>9 DEF commit_done, wakeup
  <2>3. \A q \in Proc : pc'[q] \in {"check", "append"} <=> pc[q] \in {"check", "append"}
    BY <1>9 DEF commit_done, wakeup
  <2>4. /\ boot = "up" /\ boot' = boot /\ hold' = hold
        /\ outstanding' = outstanding /\ committing' = 0
    BY <1>9 DEF commit_done
  <2>. QED  BY <2>1, <2>2, <2>3, <2>4, SMT
<1>10. ASSUME NEW p \in Proc, NEW b \in Block, NEW v \in Val, modify(p, b, v)  PROVE ControlInv'
  <2>1. Active' = Active /\ (NoSpace' <=> NoSpace)
    BY <1>10 DEF modify, Active, NoSpace
  <2>. QED  BY <1>10, <2>1, ParamAssumption, ZenonT(60) DEF modify
<1>11. ASSUME NEW b \in Block, bread(b)  PROVE ControlInv'
  BY <1>11 DEF bread, Active, NoSpace
<1>12. ASSUME NEW b \in Block, bget_recycle(b)  PROVE ControlInv'
  BY <1>12 DEF bget_recycle, Active, NoSpace
<1>13. CASE read_head
  <2>1. Active' = Active
    BY <1>13 DEF read_head, Active
  <2>. QED  BY <1>13, <2>1 DEF read_head
<1>14. CASE recover_install
  <2>1. Active' = Active
    BY <1>14 DEF recover_install, Active
  <2>. QED  BY <1>14, <2>1 DEF recover_install, InstallBlock
<1>15. CASE recover_clear
  <2>1. Active' = Active
    BY <1>15 DEF recover_clear, Active
  <2>. QED  BY <1>15, <2>1 DEF recover_clear
<1>16. CASE Crash
  <2>1. Active' = {}
    BY <1>16 DEF Crash, Active
  <2>. QED  BY <1>16, <2>1, FS_EmptySet, SMT DEF Crash
<1>. QED
  BY NextCases, <1>1, <1>2, <1>3, <1>4, <1>5, <1>6, <1>7, <1>8, <1>9, <1>10, <1>11, <1>12, <1>13, <1>14, <1>15, <1>16

-----------------------------------------------------------------------------
(* Log space. *)

LEMMA SlotsBound ==
  ASSUME NEW A \in SUBSET Proc, NEW S \in SUBSET (A \X (1..OpBlocks))
  PROVE  /\ IsFiniteSet(S) /\ Cardinality(S) \in Nat /\ Cardinality(A) \in Nat
         /\ Cardinality(S) <= Cardinality(A) * OpBlocks
<1>1. IsFiniteSet(1..OpBlocks) /\ Cardinality(1..OpBlocks) = OpBlocks
  BY FS_Interval, ParamAssumption, SMT
<1>2. IsFiniteSet(A)
  BY FS_Subset, ParamAssumption
<1>3. /\ IsFiniteSet(A \X (1..OpBlocks))
      /\ Cardinality(A \X (1..OpBlocks)) = Cardinality(A) * OpBlocks
  BY <1>1, <1>2, FS_Product
<1>. QED  BY <1>2, <1>3, FS_Subset, FS_CardinalityType

(* Steps that neither log a block nor start or end a call. *)
LEMMA SpaceFrame ==
  ASSUME LogInv, Active' = Active, written' = written, hold' = hold, lh' = lh,
         dhead' \in {dhead, lh, <<>>}
  PROVE  SpaceInv'
<1>1. Slots' = Slots
  BY DEF Slots
<1>2. Len(dhead') <= Bound
  BY ParamAssumption, SMT DEF LogInv, SpaceInv, Bound
<1>. QED  BY <1>1, <1>2 DEF LogInv, SpaceInv, Logged

(* Steps that leave no call under way. *)
LEMMA SpaceQuiet ==
  ASSUME Active' = {}, Len(lh') <= Bound, Len(dhead') <= Bound,
         \A p \in Proc : written'[p] = {} /\ hold'[p] = NoBlock
  PROVE  SpaceInv'
<1>1. \A p \in Proc : IsFiniteSet(written'[p]) /\ Cardinality(written'[p]) = 0
  BY FS_EmptySet
<1>. QED  BY <1>1, ParamAssumption, SMT DEF SpaceInv

(* (k+1)(m-o) >= m-o: a call that logs less than it reserves leaves room.  *)
LEMMA ReservationArithmetic ==
  ASSUME NEW k \in Nat, NEW m \in Nat, NEW o \in Nat, o <= m, k >= 1
  PROVE  /\ k * o + (m - o) <= k * m
         /\ k * o \in Nat /\ k * m \in Nat
<1>1. k * (m - o) >= 1 * (m - o)
  <2>. DEFINE d == m - o
  <2>1. d \in Nat /\ k - 1 \in Nat /\ k = (k - 1) + 1
    BY SMT
  <2>. HIDE DEF d
  <2>2. PICK j \in Nat : k = j + 1
    BY <2>1
  <2>3. (j + 1) * d = j * d + d /\ j * d \in Nat
    BY <2>1, SMT
  <2>4. k * d >= d
    BY <2>1, <2>2, <2>3, SMT
  <2>. QED  BY <2>1, <2>4, SMT DEF d
<1>2. k * (m - o) = k * m - k * o
  BY SMT
<1>3. k * o \in Nat /\ k * m \in Nat
  BY SMT
<1>. QED  BY <1>1, <1>2, <1>3, SMT

LEMMA SpaceStep ==
  ASSUME LogInv, Roomy, Next
  PROVE  SpaceInv'
<1>. USE DEF diskVars, bufVars, logVars, procVars
<1>t. /\ pc \in [Proc -> PC] /\ written \in [Proc -> SUBSET Block]
      /\ hold \in [Proc -> Block \cup {NoBlock}] /\ lh \in Seq(Block)
  BY DEF LogInv, TypeOK
<1>q. \A p \in Proc : Active = {} => written[p] = {} /\ hold[p] = NoBlock
  BY DEF LogInv, SpaceInv, ControlInv, Active, InOp
<1>1. ASSUME NEW p \in Proc, begin_op(p)  PROVE SpaceInv'
  <2>1. CASE committing = 1 \/ NoSpace
    <3>1. Active' = Active
      BY <1>1, <2>1, <1>t DEF begin_op, Active, InOp
    <3>. QED  BY <1>1, <3>1, SpaceFrame DEF begin_op
  <2>2. CASE ~(committing = 1 \/ NoSpace)
    <3>1. outstanding' = Cardinality(Active')
      BY ControlStep DEF ControlInv
    <3>2. Active' \in SUBSET Proc /\ Slots' \in SUBSET (Active' \X (1..OpBlocks))
      BY DEF Active, Slots
    <3>3. outstanding' \in Nat /\ outstanding' >= 1
      BY <1>1, <2>2, SMT DEF begin_op, LogInv, TypeOK
    <3>4. Cardinality(Slots') <= outstanding' * OpBlocks /\ Cardinality(Slots') \in Nat
      BY <3>1, <3>2, SlotsBound
    <3>5. Len(lh) + outstanding' * MAXOPBLOCKS <= LOGSIZE
      <4>1. outstanding' = outstanding + 1
        BY <1>1, <2>2 DEF begin_op
      <4>2. (outstanding + 1) * MAXOPBLOCKS \in Nat /\ Len(lh) \in Nat
        BY <3>3, <4>1, ReservationArithmetic, ParamAssumption, SMT DEF LogInv, TypeOK
      <4>. QED  BY <2>2, <4>1, <4>2, ParamAssumption, SMT DEF NoSpace
    <3>6. /\ outstanding' * OpBlocks + (MAXOPBLOCKS - OpBlocks) <= outstanding' * MAXOPBLOCKS
          /\ outstanding' * OpBlocks \in Nat /\ outstanding' * MAXOPBLOCKS \in Nat
      <4>1. OpBlocks \in Nat /\ MAXOPBLOCKS \in Nat /\ OpBlocks <= MAXOPBLOCKS
        BY ParamAssumption, SMT
      <4>. QED  BY <3>3, <4>1, ReservationArithmetic
    <3>7. Len(lh) + Cardinality(Slots') <= Bound
      <4>1. Len(lh) \in Nat
        BY <1>t, SMT
      <4>. QED  BY <3>4, <3>5, <3>6, <4>1, ParamAssumption, SMT DEF Bound
    <3>8. \A q \in Proc : q \notin Active' => q \notin Active
      BY <1>1, <2>2, <1>t DEF begin_op, Active, InOp
    <3>9. UNCHANGED <<lh, dhead, written, hold>>
      BY <1>1 DEF begin_op
    <3>. QED  BY <3>7, <3>8, <3>9, ZenonT(60) DEF LogInv, SpaceInv, Logged
  <2>. QED  BY <2>1, <2>2
<1>2. ASSUME NEW p \in Proc, log_write_check(p)  PROVE SpaceInv'
  <2>1. Active' = Active
    BY <1>2, <1>t DEF log_write_check, Active, InOp
  <2>. QED  BY <1>2, <2>1, SpaceFrame DEF log_write_check
<1>3. ASSUME NEW p \in Proc, log_write(p)  PROVE SpaceInv'
  <2>. DEFINE b == hold[p]  w == written[p]
  <2>1. Active' = Active /\ p \in Active /\ b \in Block
    BY <1>3, <1>t DEF log_write, Active, InOp, LogInv, ControlInv
  <2>2. /\ IsFiniteSet(w \cup {b})
        /\ Cardinality(w \cup {b}) = IF b \in w THEN Cardinality(w) ELSE Cardinality(w) + 1
        /\ Cardinality(w) \in Nat
    BY FS_AddElement, FS_CardinalityType DEF LogInv, SpaceInv
  <2>3. b \in w \/ Cardinality(w) < OpBlocks
    BY <2>1, ParamAssumption DEF LogInv, SpaceInv
  <2>4. written' = [written EXCEPT ![p] = w \cup {b}] /\ hold' = [hold EXCEPT ![p] = NoBlock]
        /\ dhead' = dhead
    BY <1>3 DEF log_write
  <2>5. Logged(lh') = Logged(lh) \cup {b} /\ Len(lh) \in Nat
        /\ Len(lh') = IF b \in Logged(lh) THEN Len(lh) ELSE Len(lh) + 1
    <3>1. CASE b \in Logged(lh)
      BY <1>3, <3>1, <1>t, SMT DEF log_write
    <3>2. CASE b \notin Logged(lh)
      <4>1. lh' = Append(lh, b) /\ lh \in Seq(Block) /\ b \in Block
        BY <1>3, <3>2, <2>1, <1>t DEF log_write
      <4>2. Len(lh') = Len(lh) + 1 /\ Len(lh) \in Nat /\ DOMAIN lh = 1..Len(lh)
            /\ DOMAIN lh' = 1..(Len(lh) + 1)
            /\ \A i \in 1..(Len(lh) + 1) : lh'[i] = IF i = Len(lh) + 1 THEN b ELSE lh[i]
        BY <4>1, SMT
      <4>3. Logged(lh') = Logged(lh) \cup {b}
        BY <4>2, SMT DEF Logged
      <4>. QED  BY <3>2, <4>2, <4>3
    <3>. QED  BY <3>1, <3>2
  <2>6. IsFiniteSet(Slots) /\ Cardinality(Slots) \in Nat
    <3>1. Active \in SUBSET Proc /\ Slots \in SUBSET (Active \X (1..OpBlocks))
      BY DEF Active, Slots
    <3>. QED  BY <3>1, SlotsBound
  <2>7. b \in w => Slots' = Slots
    <3>. SUFFICES ASSUME b \in w  PROVE Slots' = Slots
      OBVIOUS
    <3>1. written' = written
      BY <2>4, <1>t
    <3>. QED  BY <3>1, <2>1 DEF Slots
  <2>8. b \notin w => Slots' = Slots \ {<<p, Cardinality(w) + 1>>}
                    /\ <<p, Cardinality(w) + 1>> \in Slots
    <3>. SUFFICES ASSUME b \notin w  PROVE Slots' = Slots \ {<<p, Cardinality(w) + 1>>}
                                            /\ <<p, Cardinality(w) + 1>> \in Slots
      OBVIOUS
    <3>1. \A q \in Proc : written'[q] = IF q = p THEN w \cup {b} ELSE written[q]
      BY <2>4, <1>t
    <3>2. \A s \in Proc \X (1..OpBlocks) :
            s \in Slots' <=> s[1] \in Active /\ s[2] > Cardinality(written'[s[1]])
      BY <2>1 DEF Slots
    <3>3. \A s \in Proc \X (1..OpBlocks) :
            s \in Slots <=> s[1] \in Active /\ s[2] > Cardinality(written[s[1]])
      BY DEF Slots
    <3>4. <<p, Cardinality(w) + 1>> \in Slots
      BY <3>3, <2>1, <2>2, <2>3, ParamAssumption, SMT
    <3>5. Slots \subseteq Proc \X (1..OpBlocks) /\ Slots' \subseteq Proc \X (1..OpBlocks)
      BY DEF Slots
    <3>6. ASSUME NEW s \in Proc \X (1..OpBlocks)
          PROVE  s \in Slots' <=> s \in Slots /\ s # <<p, Cardinality(w) + 1>>
      <4>1. CASE s[1] = p
        <5>1. s = <<p, s[2]>> /\ s[2] \in Nat
          BY <4>1, ParamAssumption, SMT
        <5>2. Cardinality(written'[p]) = Cardinality(w) + 1
          BY <3>1, <2>2
        <5>. QED  BY <5>1, <5>2, <4>1, <3>2, <3>3, <2>2, SMT
      <4>2. CASE s[1] # p
        BY <4>2, <3>1, <3>2, <3>3, SMT
      <4>. QED  BY <4>1, <4>2
    <3>. QED  BY <3>4, <3>5, <3>6
  <2>9. b \notin w => Cardinality(Slots') = Cardinality(Slots) - 1
    BY <2>6, <2>8, FS_RemoveElement, SMT
  <2>10. b \in w => b \in Logged(lh)
    BY DEF LogInv, SpaceInv
  <2>11. Len(lh') + Cardinality(Slots') <= Bound
    <3>1. Len(lh) + Cardinality(Slots) <= Bound /\ Bound \in Int
      BY <2>1, ParamAssumption, SMT DEF LogInv, SpaceInv, Bound
    <3>. QED  BY <3>1, <2>5, <2>6, <2>7, <2>9, <2>10, SMT
  <2>12. Len(lh') <= Bound
    <3>1. Cardinality(Slots') \in Nat /\ Bound \in Int /\ Len(lh') \in Nat
      <4>1. Active' \in SUBSET Proc /\ Slots' \in SUBSET (Active' \X (1..OpBlocks))
        BY DEF Active, Slots
      <4>. QED  BY <4>1, SlotsBound, ParamAssumption, <2>5, SMTT(60) DEF Bound
    <3>. QED  BY <3>1, <2>11, SMT
  <2>13. ASSUME NEW q \in Proc
         PROVE  /\ IsFiniteSet(written'[q]) /\ Cardinality(written'[q]) <= OpBlocks
                /\ written'[q] \subseteq Logged(lh')
                /\ hold'[q] # NoBlock => hold'[q] \in written'[q] \/ Cardinality(written'[q]) < OpBlocks
                /\ q \notin Active' => written'[q] = {}
    <3>1. CASE q = p
      <4>1. written'[q] = w \cup {b} /\ hold'[q] = NoBlock
        BY <3>1, <2>4, <1>t
      <4>2. Cardinality(w \cup {b}) <= OpBlocks
        BY <2>2, <2>3, ParamAssumption, SMT DEF LogInv, SpaceInv
      <4>3. w \subseteq Logged(lh)
        BY DEF LogInv, SpaceInv
      <4>. QED  BY <4>1, <4>2, <4>3, <3>1, <2>1, <2>2, <2>5
    <3>2. CASE q # p
      <4>1. written'[q] = written[q] /\ hold'[q] = hold[q]
        BY <3>2, <2>4, <1>t
      <4>. QED  BY <4>1, <2>1, <2>5 DEF LogInv, SpaceInv
    <3>. QED  BY <3>1, <3>2
  <2>. QED  BY <2>4, <2>11, <2>12, <2>13 DEF LogInv, SpaceInv
<1>4. ASSUME NEW p \in Proc, end_op(p)  PROVE SpaceInv'
  <2>1. \A q \in Proc : q \in Active' <=> q \in Active /\ q # p
    BY <1>4, <1>t, ZenonT(60) DEF end_op, Active, InOp, PC, Committing, wakeup, LogInv, ControlInv, Up
  <2>2. \A q \in Proc : written'[q] = IF q = p THEN {} ELSE written[q]
    BY <1>4, <1>t DEF end_op
  <2>3. Slots' \subseteq Slots
    BY <2>1, <2>2 DEF Slots, Active
  <2>4. Cardinality(Slots') <= Cardinality(Slots) /\ Cardinality(Slots') \in Nat
        /\ Cardinality(Slots) \in Nat
    <3>1. Active \in SUBSET Proc /\ Slots \in SUBSET (Active \X (1..OpBlocks))
      BY DEF Active, Slots
    <3>2. IsFiniteSet(Slots)
      BY <3>1, SlotsBound
    <3>. QED  BY <2>3, <3>2, FS_Subset, FS_CardinalityType
  <2>5. p \in Active /\ hold[p] = NoBlock
    BY <1>4, <1>t DEF end_op, Active, InOp, LogInv, ControlInv
  <2>6. UNCHANGED <<lh, dhead, hold>>
    BY <1>4 DEF end_op
  <2>7. \A q \in Proc :
         /\ IsFiniteSet(written'[q]) /\ Cardinality(written'[q]) <= OpBlocks
         /\ written'[q] \subseteq Logged(lh')
         /\ hold'[q] # NoBlock => hold'[q] \in written'[q] \/ Cardinality(written'[q]) < OpBlocks
         /\ q \notin Active' => written'[q] = {}
    <3>1. IsFiniteSet({}) /\ Cardinality({}) = 0 /\ OpBlocks \in Nat
      BY FS_EmptySet, ParamAssumption, SMT
    <3>2. written'[p] = {} /\ hold'[p] = NoBlock
      BY <2>2, <2>5, <2>6
    <3>3. \A q \in Proc : q # p => written'[q] = written[q] /\ (q \notin Active' => q \notin Active)
      BY <2>1, <2>2
    <3>4. Logged(lh') = Logged(lh) /\ hold' = hold
      BY <2>6
    <3>. TAKE q \in Proc
    <3>5. CASE q = p
      BY <3>1, <3>2, <3>5, SMT
    <3>6. CASE q # p
      BY <3>3, <3>4, <3>6 DEF LogInv, SpaceInv
    <3>. QED  BY <3>5, <3>6
  <2>8. Len(lh) + Cardinality(Slots') <= Bound
    BY <2>4, <2>5, <1>t, ParamAssumption, SMT DEF LogInv, SpaceInv, Bound
  <2>. QED  BY <2>6, <2>7, <2>8 DEF LogInv, SpaceInv
<1>5. ASSUME NEW p \in Proc, write_log(p)  PROVE SpaceInv'
  <2>1. Active' = Active
    BY <1>5, <1>t DEF write_log, Advance, Active, InOp
  <2>. QED  BY <1>5, <2>1, SpaceFrame DEF write_log
<1>6. ASSUME NEW p \in Proc, write_head(p)  PROVE SpaceInv'
  <2>1. Active' = Active
    BY <1>6, <1>t DEF write_head, Active, InOp
  <2>. QED  BY <1>6, <2>1, SpaceFrame DEF write_head
<1>7. ASSUME NEW p \in Proc, install_trans(p)  PROVE SpaceInv'
  <2>1. Active' = Active
    BY <1>7, <1>t DEF install_trans, Advance, Active, InOp
  <2>. QED  BY <1>7, <2>1, SpaceFrame DEF install_trans
<1>8. ASSUME NEW p \in Proc, clear(p)  PROVE SpaceInv'
  <2>1. Active' = {} /\ Active = {}
    BY <1>8, <1>t DEF clear, Active, InOp, Committing, InPhase, LogInv, ControlInv
  <2>2. Len(lh') <= Bound /\ Len(dhead') <= Bound
    BY <1>8, ParamAssumption, SMT DEF clear, Bound
  <2>. QED  BY <1>8, <1>q, <2>1, <2>2, SpaceQuiet DEF clear
<1>9. ASSUME NEW p \in Proc, commit_done(p)  PROVE SpaceInv'
  <2>1. Active' = Active
    BY <1>9, <1>t DEF commit_done, wakeup, Active, InOp
  <2>. QED  BY <1>9, <2>1, SpaceFrame DEF commit_done
<1>10. ASSUME NEW p \in Proc, NEW b \in Block, NEW v \in Val, modify(p, b, v)  PROVE SpaceInv'
  <2>1. Active' = Active
    BY <1>10, <1>t DEF modify, Active, InOp
  <2>2. Slots' = Slots /\ UNCHANGED <<lh, dhead, written>>
    BY <1>10, <2>1 DEF modify, Slots
  <2>3. \A q \in Proc : hold'[q] # NoBlock
          => hold'[q] \in written[q] \/ Cardinality(written[q]) < OpBlocks
    BY <1>10, <1>t DEF modify, LogInv, SpaceInv
  <2>. QED  BY <2>1, <2>2, <2>3 DEF LogInv, SpaceInv, Logged
<1>11. ASSUME NEW b \in Block, bread(b)  PROVE SpaceInv'
  BY <1>11, SpaceFrame DEF bread, Active
<1>12. ASSUME NEW b \in Block, bget_recycle(b)  PROVE SpaceInv'
  BY <1>12, SpaceFrame DEF bget_recycle, Active
<1>r. boot # "up" => Active = {}
  BY DEF LogInv, ControlInv, Active, InOp
<1>13. CASE read_head
  <2>1. Active' = {} /\ Active = {}
    BY <1>13, <1>r DEF read_head, Active
  <2>2. Len(lh') <= Bound /\ Len(dhead') <= Bound
    BY <1>13 DEF read_head, LogInv, SpaceInv
  <2>. QED  BY <1>13, <1>q, <2>1, <2>2, SpaceQuiet DEF read_head
<1>14. CASE recover_install
  BY <1>14, SpaceFrame DEF recover_install, Active
<1>15. CASE recover_clear
  <2>1. Active' = {} /\ Active = {}
    BY <1>15, <1>r DEF recover_clear, Active
  <2>2. Len(lh') <= Bound /\ Len(dhead') <= Bound
    BY <1>15, ParamAssumption, SMT DEF recover_clear, Bound
  <2>. QED  BY <1>15, <1>q, <2>1, <2>2, SpaceQuiet DEF recover_clear
<1>16. CASE Crash
  <2>1. Active' = {}
    BY <1>16 DEF Crash, Active, InOp
  <2>2. Len(lh') <= Bound /\ Len(dhead') <= Bound
    BY <1>16, ParamAssumption, SMTT(60) DEF Crash, Bound, LogInv, SpaceInv
  <2>. QED  BY <1>16, <2>1, <2>2, SpaceQuiet DEF Crash
<1>. QED
  BY NextCases, <1>1, <1>2, <1>3, <1>4, <1>5, <1>6, <1>7, <1>8, <1>9, <1>10, <1>11, <1>12, <1>13, <1>14, <1>15, <1>16

-----------------------------------------------------------------------------
LEMMA InvStep ==
  ASSUME LogInv, Roomy, [Next]_vars
  PROVE  LogInv'
<1>1. CASE Next
  BY <1>1, TypeStep, ControlStep, SpaceStep, DataStep, FS_EmptySet DEF LogInv
<1>2. CASE UNCHANGED vars
  <2>. USE <1>2 DEF vars, diskVars, bufVars, logVars, procVars, Active, InPhase
  <2>1. TypeOK'
    BY DEF LogInv, TypeOK
  <2>2. ControlInv'
    BY DEF LogInv, ControlInv, NoSpace
  <2>3. SpaceInv'
    BY SpaceFrame DEF LogInv
  <2>4. DataInv'
    <3>1. UniqueInv' /\ CacheInv'
      BY DEF LogInv, DataInv, UniqueInv, CacheInv
    <3>2. CommitInv'
      BY SMTT(60) DEF LogInv, DataInv, CommitInv, Installing, Installed, Logged
    <3>3. BootInv'
      BY DEF LogInv, DataInv, BootInv, Installing, Installed
    <3>. QED  BY <3>1, <3>2, <3>3 DEF DataInv
  <2>. QED  BY <2>1, <2>2, <2>3, <2>4 DEF LogInv
<1>. QED  BY <1>1, <1>2

(* The inductive invariant holds in every reachable state, for any number   *)
(* of processes, blocks and values and any geometry with Roomy.             *)
THEOREM LogInvariant ==
  ASSUME Roomy
  PROVE  Spec => []LogInv
  BY InitInv, InvStep, PTL DEF Spec

(* The state keeps its types: the loops of write_log and install_trans stay *)
(* inside the log, log.outstanding is never negative.                       *)
THEOREM TypeCorrect ==
  ASSUME Roomy
  PROVE  Spec => []TypeOK
<1>1. LogInv => TypeOK
  BY DEF LogInv
<1>. QED  BY <1>1, LogInvariant, PTL

(* begin_op's reservations keep log.lh.n below both limits log_write checks *)
(* without the lock, so that its panic, and end_op's, are unreachable.      *)
THEOREM LogSpaceSafe ==
  ASSUME Roomy
  PROVE  Spec => [](LogFitsOnDisk /\ NoPanic)
<1>1. LogInv => LogFitsOnDisk /\ NoPanic
  BY ParamAssumption, SMT DEF LogInv, ControlInv, SpaceInv, TypeOK, LogFitsOnDisk, NoPanic, Roomy, Bound
<1>. QED  BY <1>1, LogInvariant, PTL

(* No lost wakeup in begin_op: a sleeper always has somebody whose end_op   *)
(* will wake it.                                                            *)
THEOREM NoLostWakeup ==
  ASSUME Roomy
  PROVE  Spec => []SleeperHasWaker
<1>1. ASSUME LogInv  PROVE SleeperHasWaker
  <2>. SUFFICES ASSUME NEW p \in Proc, pc[p] = "sleep"
                PROVE  /\ committing = 1 \/ NoSpace
                       /\ \E q \in Proc : pc[q] \in InOp \cup Committing
    BY DEF SleeperHasWaker
  <2>1. committing = 1 \/ NoSpace
    BY <1>1 DEF LogInv, ControlInv
  <2>2. CASE committing = 1
    BY <1>1, <2>1, <2>2 DEF LogInv, ControlInv, InPhase
  <2>3. CASE committing # 1 /\ Active # {}
    BY <2>1, <2>3 DEF Active
  <2>4. CASE committing # 1 /\ Active = {}
    <3>1. lh = <<>> /\ outstanding = 0
      BY <1>1, <2>4, FS_EmptySet DEF LogInv, ControlInv, DataInv, CommitInv, InPhase, Committing
    <3>. QED  BY <2>1, <2>4, <3>1, ParamAssumption, SMT DEF NoSpace
  <2>. QED  BY <2>2, <2>3, <2>4
<1>. QED  BY <1>1, LogInvariant, PTL

-----------------------------------------------------------------------------
(* Refinement of AtomicDisk. *)

Distinct(h) == \A i, j \in DOMAIN h : h[i] = h[j] => i = j

LEMMA OverlayAt ==
  ASSUME NEW h, NEW l, NEW d, Distinct(h), NEW i \in DOMAIN h, h[i] \in Block
  PROVE  Overlay(h, l, d)[h[i]] = l[i]
<1>1. (CHOOSE j \in DOMAIN h : h[j] = h[i]) = i
  BY DEF Distinct
<1>. QED  BY <1>1 DEF Overlay, Logged

LEMMA OverlayElse ==
  ASSUME NEW h, NEW l, NEW d, NEW b \in Block, b \notin Logged(h)
  PROVE  Overlay(h, l, d)[b] = d[b]
  BY DEF Overlay

LEMMA OverlayEmpty ==
  ASSUME NEW l, NEW d \in [Block -> Val]
  PROVE  Overlay(<<>>, l, d) = d
  BY SMT DEF Overlay, Logged

LEMMA OverlayEqual ==
  ASSUME NEW h, NEW l, NEW d, NEW f, Distinct(h),
         f = [b \in Block |-> f[b]],
         \A i \in DOMAIN h : h[i] \in Block /\ f[h[i]] = l[i],
         \A b \in Block : b \notin Logged(h) => f[b] = d[b]
  PROVE  Overlay(h, l, d) = f
<1>1. \A b \in Block : Overlay(h, l, d)[b] = f[b]
  <2>. TAKE b \in Block
  <2>1. CASE b \in Logged(h)
    <3>1. PICK i \in DOMAIN h : h[i] = b
      BY <2>1 DEF Logged
    <3>. QED  BY <3>1, OverlayAt, SMT
  <2>2. CASE b \notin Logged(h)
    BY <2>2, OverlayElse, SMT
  <2>. QED  BY <2>1, <2>2
<1>. QED  BY <1>1 DEF Overlay

(* After recovery, and between calls, memory and disk agree. *)
THEOREM Durability ==
  ASSUME Roomy
  PROVE  Spec => []DurableWhenQuiet
<1>1. ASSUME LogInv, boot = "up", outstanding = 0, committing = 0
      PROVE  Stable = Memory /\ dirty = {}
  <2>1. Active = {} /\ ~InPhase(Committing)
    BY <1>1, ActiveFinite, SMT DEF LogInv, ControlInv
  <2>2. lh = <<>> /\ dhead = <<>> /\ dirty = {}
    BY <1>1, <2>1, SMT DEF LogInv, DataInv, CommitInv, InPhase, Committing, Logged
  <2>3. \A b \in Block : Read(b) = disk[b]
    BY <1>1, <2>1, <2>2, ParamAssumption DEF LogInv, DataInv, CacheInv, ControlInv, Active, InOp, Read
  <2>4. Stable = disk
    BY <1>1, <2>2, OverlayEmpty DEF Stable, LogInv, TypeOK
  <2>5. Memory = disk
    BY <1>1, <2>3 DEF Memory, LogInv, TypeOK
  <2>. QED  BY <2>2, <2>4, <2>5
<1>2. LogInv => DurableWhenQuiet
  BY <1>1 DEF DurableWhenQuiet, Up
<1>. QED  BY <1>2, LogInvariant, PTL

LEMMA InitRefines ==
  ASSUME Init, Roomy
  PROVE  AD!Init
<1>1. Stable = disk /\ disk \in [Block -> Val]
  BY OverlayEmpty DEF Init, Stable
<1>2. Memory = Stable
  BY DEF Init, Memory
<1>3. Active = {}
  BY DEF Init, Active, InOp
<1>. QED  BY <1>1, <1>2, <1>3 DEF AD!Init

(* Steps that change neither the disk nor what a reader sees. *)
LEMMA SameView ==
  ASSUME UNCHANGED <<diskVars, boot>>, \A b \in Block : Read(b)' = Read(b)
  PROVE  Stable' = Stable /\ Memory' = Memory
<1>1. Stable' = Stable
  BY SMT DEF Stable, Overlay, diskVars, Logged
<1>. QED  BY <1>1 DEF Memory

LEMMA StepRefines ==
  ASSUME LogInv, LogInv', Roomy, Next
  PROVE  [AD!Next]_(AD!avars)
<1>. USE DEF diskVars, bufVars, logVars, procVars, Up
<1>t. TypeOK /\ TypeOK'
  BY DEF LogInv
<1>d. UniqueInv /\ CacheInv /\ CommitInv /\ BootInv
  BY DEF LogInv, DataInv
<1>a. DOMAIN lh = 1..Len(lh) /\ Len(lh) \in Nat /\ tail \in Nat /\ (\A i \in DOMAIN lh : lh[i] \in Block)
  BY <1>t, SMT DEF TypeOK
<1>n. Distinct(lh) /\ Distinct(dhead)
  BY <1>d DEF UniqueInv, Distinct
<1>s. ASSUME Stable' = Stable, Memory' = Memory, Active' = Active
      PROVE  [AD!Next]_(AD!avars)
  BY <1>s DEF AD!avars
<1>1. ASSUME NEW p \in Proc, begin_op(p)  PROVE [AD!Next]_(AD!avars)
  <2>1. Stable' = Stable /\ Memory' = Memory
    BY <1>1, SameView DEF begin_op, Read
  <2>2. Active' = Active \/ (p \notin Active /\ Active' = Active \cup {p})
    BY <1>1, <1>t DEF begin_op, Active, InOp, TypeOK
  <2>. QED  BY <2>1, <2>2, <1>s DEF AD!Next, AD!Begin
<1>2. ASSUME NEW p \in Proc, log_write_check(p)  PROVE [AD!Next]_(AD!avars)
  <2>0. boot' = boot
    BY <1>2 DEF log_write_check, LogInv, ControlInv
  <2>1. Stable' = Stable /\ Memory' = Memory
    BY <1>2, <2>0, SameView DEF log_write_check, Read
  <2>2. Active' = Active
    BY <1>2, <1>t DEF log_write_check, Active, InOp, TypeOK
  <2>. QED  BY <2>1, <2>2, <1>s
<1>3. ASSUME NEW p \in Proc, log_write(p)  PROVE [AD!Next]_(AD!avars)
  <2>1. Stable' = Stable /\ Memory' = Memory
    BY <1>3, SameView DEF log_write, Read
  <2>2. Active' = Active
    BY <1>3, <1>t DEF log_write, Active, InOp, TypeOK
  <2>. QED  BY <2>1, <2>2, <1>s
<1>4. ASSUME NEW p \in Proc, end_op(p)  PROVE [AD!Next]_(AD!avars)
  <2>0. boot' = boot
    BY <1>4 DEF end_op, LogInv, ControlInv
  <2>1. Stable' = Stable /\ Memory' = Memory
    BY <1>4, <2>0, SameView DEF end_op, Read
  <2>2. p \in Active /\ Active' = Active \ {p}
    BY <1>4, <1>t, <2>0 DEF end_op, Active, InOp, TypeOK, wakeup
  <2>. QED  BY <2>1, <2>2 DEF AD!Next, AD!End
<1>5. ASSUME NEW p \in Proc, write_log(p)  PROVE [AD!Next]_(AD!avars)
  <2>1. boot = "up" /\ dhead = <<>>
    BY <1>5, <1>d, CommitterAlone, SMT DEF write_log, CommitInv, Committing
  <2>2. Stable = disk /\ Stable' = disk
    BY <1>5, <1>t, <2>1, OverlayEmpty DEF write_log, Stable, TypeOK
  <2>3. \A b \in Block : Read(b)' = Read(b)
    BY <1>5, <1>t DEF write_log, Read, TypeOK
  <2>4. Memory' = Memory
    BY <1>5, <2>1, <2>3 DEF write_log, Memory
  <2>5. Active' = Active
    BY <1>5, <1>t DEF write_log, Advance, Active, InOp, TypeOK
  <2>. QED  BY <2>2, <2>4, <2>5, <1>s
<1>6. ASSUME NEW p \in Proc, write_head(p)  PROVE [AD!Next]_(AD!avars)
  <2>1. boot = "up" /\ Active = {} /\ (\A q \in Proc : hold[q] = NoBlock)
        /\ dirty = Logged(lh) /\ \A i \in DOMAIN lh : dlog[i] = cache[lh[i]]
    BY <1>6, <1>d, CommitterAlone, SMT DEF write_head, CommitInv, Committing
  <2>2. \A b \in Block : Read(b)' = Read(b)
    BY <1>6 DEF write_head, Read
  <2>3. Memory = [b \in Block |-> Read(b)] /\ Memory' = Memory
    BY <1>6, <2>1, <2>2 DEF write_head, Memory
  <2>4. \A i \in DOMAIN lh : Memory[lh[i]] = dlog[i]
    BY <2>1, <2>3, <1>a, <1>d DEF Read, CacheInv, Logged
  <2>5. \A b \in Block : b \notin Logged(lh) => Memory[b] = disk[b]
    BY <2>1, <2>3, <1>d, ParamAssumption DEF Read, CacheInv
  <2>6. Overlay(lh, dlog, disk) = Memory
    <3>. DEFINE m == Memory
    <3>1. m = [b \in Block |-> m[b]]
      BY <2>3
    <3>2. \A i \in DOMAIN lh : lh[i] \in Block /\ m[lh[i]] = dlog[i]
      BY <2>4, <1>a
    <3>3. \A b \in Block : b \notin Logged(lh) => m[b] = disk[b]
      BY <2>5
    <3>4. Overlay(lh, dlog, disk) = m
      <4>. HIDE DEF m
      <4>. QED  BY <3>1, <3>2, <3>3, <1>n, OverlayEqual, SMT
    <3>. QED  BY <3>4
  <2>7. Stable' = Memory
    BY <1>6, <2>6 DEF write_head, Stable
  <2>8. Active' = Active
    BY <1>6, <1>t DEF write_head, Active, InOp, TypeOK
  <2>. QED  BY <2>1, <2>3, <2>7, <2>8 DEF AD!Next, AD!Commit
<1>i. ASSUME InstallBlock, UNCHANGED <<dlog, dhead>>, Installing, tail < Len(lh),
             boot = "install_trans" \/ InPhase({"write_log", "install_trans"})
      PROVE  Stable' = Stable
  <2>. DEFINE b == lh[tail + 1]
  <2>1. b \in Block /\ b \in Logged(dhead)
        /\ \A c \in Block : c # b => disk'[c] = disk[c]
    BY <1>i, <1>a, InstallOne DEF Installing, Logged
  <2>2. \A c \in Block : c \notin Logged(dhead) => disk'[c] = disk[c]
    BY <2>1
  <2>. QED  BY <1>i, <2>2, SMT DEF Stable, Overlay, Logged
<1>c. ASSUME Installed, disk' = disk, dhead' = <<>>
      PROVE  Stable = disk /\ Stable' = disk
  <2>1. disk = [b \in Block |-> disk[b]] /\ disk \in [Block -> Val]
    BY <1>t DEF TypeOK
  <2>2. Stable = disk
    BY <1>c, <1>a, <1>n, <2>1, OverlayEqual, SMT DEF Stable, Installed
  <2>. QED  BY <1>c, <2>1, <2>2, OverlayEmpty DEF Stable
<1>7. ASSUME NEW p \in Proc, install_trans(p)  PROVE [AD!Next]_(AD!avars)
  <2>0. InPhase({"install_trans"}) /\ InPhase({"write_log", "install_trans"}) /\ boot = "up" /\ boot' = boot
    BY <1>7 DEF install_trans, InPhase
  <2>1. /\ Installing /\ tail < Len(lh)
        /\ \A i \in (tail + 1)..Len(lh) : dlog[i] = cache[lh[i]]
    BY <2>0, <1>d DEF CommitInv
  <2>2. Stable' = Stable
    BY <1>7, <1>i, <2>0, <2>1 DEF install_trans
  <2>3. cache' = cache
    <3>1. dlog[tail + 1] = cache[lh[tail + 1]]
      BY <2>1, <1>a, SMT
    <3>. QED  BY <1>7, <3>1, <1>t, SMT DEF install_trans, InstallBlock, TypeOK
  <2>4. \A b \in Block : Read(b)' = Read(b)
    <3>1. cache[lh[tail + 1]] # NoBuf
      <4>1. dlog[tail + 1] = cache[lh[tail + 1]]
        BY <2>1, <1>a, SMT
      <4>. QED  BY <4>1, <2>0, TailInLog, ParamAssumption
    <3>2. \A b \in Block : b # lh[tail + 1] => disk'[b] = disk[b]
      BY <1>7, <1>t DEF install_trans, InstallBlock, TypeOK
    <3>. QED  BY <3>1, <3>2, <2>3 DEF Read
  <2>5. Memory' = Memory
    BY <2>0, <2>4 DEF Memory
  <2>6. Active' = Active
    BY <1>7, <1>t DEF install_trans, Advance, Active, InOp, TypeOK
  <2>. QED  BY <2>2, <2>5, <2>6, <1>s
<1>8. ASSUME NEW p \in Proc, clear(p)  PROVE [AD!Next]_(AD!avars)
  <2>1. Installed
    BY <1>8, <1>d DEF clear, InPhase, CommitInv
  <2>2. Stable' = Stable
    BY <1>8, <1>c, <2>1 DEF clear
  <2>3. \A b \in Block : Read(b)' = Read(b)
    BY <1>8 DEF clear, Read
  <2>4. Memory' = Memory
    BY <1>8, <2>3 DEF clear, Memory
  <2>5. Active' = Active
    BY <1>8, <1>t DEF clear, Active, InOp, TypeOK
  <2>. QED  BY <2>2, <2>4, <2>5, <1>s
<1>9. ASSUME NEW p \in Proc, commit_done(p)  PROVE [AD!Next]_(AD!avars)
  <2>1. Stable' = Stable /\ Memory' = Memory
    BY <1>9, SameView DEF commit_done, Read
  <2>2. Active' = Active
    BY <1>9, <1>t DEF commit_done, wakeup, Active, InOp, TypeOK
  <2>. QED  BY <2>1, <2>2, <1>s
<1>10. ASSUME NEW p \in Proc, NEW b \in Block, NEW v \in Val, modify(p, b, v)
       PROVE  [AD!Next]_(AD!avars)
  <2>1. Stable' = Stable
    BY <1>10, SMTT(60) DEF modify, Stable, Overlay, Logged
  <2>2. \A c \in Block : Read(c)' = IF c = b THEN v ELSE Read(c)
    BY <1>10, <1>t, ParamAssumption DEF modify, Read, TypeOK
  <2>3. Memory' = [Memory EXCEPT ![b] = v]
    BY <1>10, <2>2 DEF modify, Memory
  <2>4. p \in Active /\ Active' = Active
    BY <1>10, <1>t DEF modify, Active, InOp, TypeOK
  <2>. QED  BY <2>1, <2>3, <2>4 DEF AD!Next, AD!Write
<1>11. ASSUME NEW b \in Block, bread(b)  PROVE [AD!Next]_(AD!avars)
  <2>1. Stable' = Stable /\ Memory' = Memory
    BY <1>11, <1>t, SameView, ParamAssumption DEF bread, Read, TypeOK
  <2>. QED  BY <1>11, <2>1, <1>s DEF bread, Active
<1>12. ASSUME NEW b \in Block, bget_recycle(b)  PROVE [AD!Next]_(AD!avars)
  <2>1. cache[b] = disk[b]
    BY <1>12, <1>d DEF bget_recycle, CacheInv
  <2>2. Stable' = Stable /\ Memory' = Memory
    BY <1>12, <2>1, <1>t, SameView DEF bget_recycle, Read, TypeOK
  <2>. QED  BY <1>12, <2>2, <1>s DEF bget_recycle, Active
<1>13. CASE read_head
  <2>1. Stable' = Stable
    BY <1>13, SMT DEF read_head, Stable, Overlay, Logged
  <2>2. Memory' = Memory
    BY <1>13, <2>1 DEF read_head, Memory
  <2>. QED  BY <1>13, <2>1, <2>2, <1>s DEF read_head, Active
<1>14. CASE recover_install
  <2>1. Stable' = Stable
    BY <1>14, <1>d, <1>i DEF recover_install, BootInv
  <2>2. Memory' = Memory
    BY <1>14, <2>1 DEF recover_install, Memory
  <2>. QED  BY <1>14, <2>1, <2>2, <1>s DEF recover_install, Active
<1>15. CASE recover_clear
  <2>1. Stable' = Stable /\ Stable = disk
    BY <1>15, <1>c, <1>d DEF recover_clear, BootInv
  <2>2. \A b \in Block : Read(b)' = disk[b]
    <3>1. dirty = {} /\ (\A q \in Proc : hold[q] = NoBlock) /\ cache' = cache /\ disk' = disk
      BY <1>15 DEF recover_clear, LogInv, ControlInv
    <3>. QED  BY <3>1, <1>d, ParamAssumption DEF Read, CacheInv
  <2>3. Memory' = disk /\ Memory = Stable
    BY <1>15, <2>2, <1>t DEF recover_clear, Memory, TypeOK
  <2>. QED  BY <1>15, <2>1, <2>3, <1>s DEF recover_clear, Active
<1>16. CASE Crash
  <2>1. Stable' = Stable
    BY <1>16, SMTT(60) DEF Crash, Stable, Overlay, Logged
  <2>2. Memory' = Stable /\ Active' = {}
    BY <1>16, <2>1 DEF Crash, Memory, Active, InOp
  <2>. QED  BY <2>1, <2>2 DEF AD!Next, AD!Crash
<1>. QED
  BY NextCases, <1>1, <1>2, <1>3, <1>4, <1>5, <1>6, <1>7, <1>8, <1>9, <1>10, <1>11, <1>12, <1>13, <1>14, <1>15, <1>16

(* Atomicity and crash safety: for any number of processes, blocks and     *)
(* values, log, cache and recovery implement AtomicDisk.                   *)
THEOREM LogImplementsAtomicDisk ==
  ASSUME Roomy
  PROVE  Spec => AtomicDiskSpec
<1>1. ASSUME LogInv, LogInv', [Next]_vars  PROVE [AD!Next]_(AD!avars)
  <2>1. CASE Next
    BY <1>1, <2>1, StepRefines
  <2>2. CASE UNCHANGED vars
    <3>1. Stable' = Stable /\ Memory' = Memory /\ Active' = Active
      BY <2>2, SameView DEF vars, diskVars, bufVars, logVars, procVars, Read, Active
    <3>. QED  BY <3>1 DEF AD!avars
  <2>. QED  BY <1>1, <2>1, <2>2
<1>. QED  BY <1>1, InitRefines, LogInvariant, PTL DEF Spec, AtomicDiskSpec, AD!Spec

=============================================================================
