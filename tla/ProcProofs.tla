----------------------------- MODULE ProcProofs -----------------------------
(***************************************************************************)
(* Proofs about the process table for any number of slots and CPUs: each   *)
(* action preserves TableInv, given that the scans of the table find       *)
(* something (Scans); the scans do; type correctness, the invariant        *)
(* ProcInv, and the properties of proc.c that follow from it.              *)
(***************************************************************************)
EXTENDS WellFoundedInduction, Proc, TLAPS

USE Zenon

(* A scan of a nonempty set of slots ends in the set, and the scheduler     *)
(* picks a runnable slot.                                                   *)
Scans ==
  /\ \A S \in SUBSET Slot : S # {} => First(S) \in S
  /\ \A c \in CPU : Ahead(c) # {} => HighP(First(Ahead(c))) \in Runnable

(* A process that executes outside ptable.lock is RUNNING.                  *)
LEMMA RunsFacts ==
  ASSUME ProcInv, NEW c \in CPU, NEW i \in Slot, Runs(c, i)
  PROVE  state[i] = "RUNNING" /\ ctx[i] = "none" /\ c # NoCpu
BY ProcAssumption DEF ProcInv, TableInv, CpuInv, Runs

(* The slot that fork() fills, while it does.                               *)
LEMMA ForkFacts ==
  ASSUME ProcInv, NEW i \in Slot, pc[i] \notin {"user", "panic"}
  PROVE  /\ child[i] \in Slot /\ state[child[i]] = "EMBRYO" /\ child[i] # i
         /\ \A j \in Slot \ {i} : child[j] # child[i]
<1>1. child[i] # NoProc /\ child[i] \in Slot \cup {NoProc}
  BY DEF ProcInv, TableInv, ForkInv, TypeOK
<1>. QED  BY <1>1 DEF ProcInv, TableInv, ForkInv

(* The pointers of the table are null or point into it.                     *)
Refs ==
  /\ \A d \in CPU : cproc[d] \in Slot \cup {NoProc}
  /\ \A j \in Slot : child[j] \in Slot \cup {NoProc} /\ parent[j] \in Slot \cup {NoProc}
  /\ initproc \in Slot /\ NoProc \notin Slot /\ NoCpu \notin CPU

LEMMA RefFacts == ProcInv => Refs
BY ProcAssumption, SMT DEF Refs, ProcInv, TypeOK, initproc, Slot, NoProc

(* A wakeup makes sleepers runnable and does nothing else.                  *)
LEMMA WakeupFacts ==
  ASSUME TypeOK, NEW S
  PROVE  /\ wakeup1(S) \in [Slot -> States]
         /\ \A i \in Slot : \/ wakeup1(S)[i] = state[i] /\ ~Woken(i, S)
                            \/ wakeup1(S)[i] = "RUNNABLE" /\ state[i] = "SLEEPING" /\ Woken(i, S)
BY DEF TypeOK, wakeup1, Woken, States

(* Whoever calls wait() or returns in it is RUNNING, and holds ptable.lock  *)
(* or has just taken it.                                                    *)
LEMMA WaitFacts ==
  ASSUME ProcInv, NEW c \in CPU, NEW i \in Slot, wait(c, i)
  PROVE  /\ cproc[c] = i /\ lock \in {c, NoCpu} /\ c # NoCpu
         /\ state[i] = "RUNNING" /\ ctx[i] \in {"none", "wait"} /\ child[i] = NoProc
         /\ UNCHANGED <<priority, pc, child, cproc, next, nextpid, asked>>
<1>1. UNCHANGED <<priority, pc, child, cproc, next, nextpid, asked>>
  BY DEF wait, wait_reap, wait_return, wait_sleep
<1>2. CASE User(c, i) /\ lock = NoCpu
  BY <1>1, <1>2, RunsFacts DEF User, Runs, ProcInv, TableInv, ForkInv
<1>3. CASE Resumes(c, i) /\ ctx[i] = "wait"
  <2>1. child[i] = NoProc
    BY <1>3 DEF ProcInv, TableInv, ForkInv
  <2>. QED  BY <1>1, <1>3, <2>1, ProcAssumption DEF Resumes
<1>. QED  BY <1>2, <1>3 DEF wait

(* Steps that change none of the fields the invariant is about.             *)
LEMMA TableQuiet ==
  ASSUME ProcInv, UNCHANGED <<state, pid, parent, chan, killed, ctx, pc, child, lock, cproc, nextpid>>
  PROVE  TableInv'
<1>i. CpuInv /\ SwitchInv /\ ForkInv /\ TreeInv /\ PidInv /\ WaitInv
  BY DEF ProcInv, TableInv
<1>1. CpuInv'
  BY <1>i DEF CpuInv, OneCpu
<1>2. SwitchInv'
  BY <1>i DEF SwitchInv
<1>3. ForkInv'
  BY <1>i, SMT DEF ForkInv
<1>4. TreeInv'
  BY <1>i DEF TreeInv, LiveParent
<1>5. PidInv'
  BY <1>i DEF PidInv, PidUnique
<1>6. WaitInv'
  BY <1>i DEF WaitInv, NoMissedZombie, NoKilledWaiter, Zombies, Children
<1>. QED  BY <1>1, <1>2, <1>3, <1>4, <1>5, <1>6 DEF TableInv

(* The scheduler takes ptable.lock and gives it back.                       *)
LEMMA TableSchedulerLock ==
  ASSUME ProcInv, NEW c \in CPU, scheduler_acquire(c) \/ scheduler_release(c)
  PROVE  TableInv'
<1>. USE DEF slotVars, cpuVars
<1>0. /\ cproc[c] = NoProc /\ lock \in {c, NoCpu} /\ lock' \in {c, NoCpu}
      /\ UNCHANGED <<slotVars, ctx, pc, child, cproc, nextpid>>
  BY DEF scheduler_acquire, scheduler_release
<1>i. CpuInv /\ SwitchInv /\ ForkInv /\ TreeInv /\ PidInv /\ WaitInv
  BY DEF ProcInv, TableInv
<1>1. CpuInv'
  BY <1>i, <1>0, ProcAssumption, SMT DEF CpuInv, OneCpu
<1>2. SwitchInv'
  BY <1>i, <1>0 DEF SwitchInv
<1>3. ForkInv'
  BY <1>i, <1>0, SMT DEF ForkInv
<1>4. TreeInv'
  BY <1>i, <1>0 DEF TreeInv, LiveParent
<1>5. PidInv'
  BY <1>i, <1>0 DEF PidInv, PidUnique
<1>6. WaitInv'
  BY <1>i, <1>0 DEF WaitInv, NoMissedZombie, NoKilledWaiter, Zombies, Children
<1>. QED  BY <1>1, <1>2, <1>3, <1>4, <1>5, <1>6 DEF TableInv

(* The scheduler gives the CPU to a runnable process.                       *)
LEMMA TableRun ==
  ASSUME ProcInv, Scans, NEW c \in CPU, scheduler_run(c)
  PROVE  TableInv'
<1>t. TypeOK
  BY DEF ProcInv
<1>0. PICK h \in Slot : /\ state[h] = "RUNNABLE" /\ cproc[c] = NoProc /\ lock = c
                       /\ cproc' = [cproc EXCEPT ![c] = h]
                       /\ state' = [state EXCEPT ![h] = "RUNNING"]
  BY DEF Scans, Runnable, scheduler_run
<1>u. UNCHANGED <<pid, parent, chan, killed, ctx, pc, child, lock, nextpid>>
  BY DEF scheduler_run
<1>i. CpuInv /\ SwitchInv /\ ForkInv /\ TreeInv /\ PidInv /\ WaitInv
  BY DEF ProcInv, TableInv
<1>r. Refs
  BY RefFacts
<1>. USE DEF Refs
<1>o. /\ cproc'[c] = h /\ \A d \in CPU \ {c} : cproc'[d] = cproc[d]
      /\ state'[h] = "RUNNING" /\ \A j \in Slot \ {h} : state'[j] = state[j]
  BY <1>0, <1>t DEF TypeOK
<1>1. CpuInv'
  <2>1. \A d \in CPU : cproc[d] # h
    BY <1>i, <1>0, <1>r DEF CpuInv
  <2>2. OneCpu'
    BY <1>i, <1>0, <1>r, <1>o, <2>1, SMT DEF CpuInv, OneCpu
  <2>3. ASSUME NEW d \in CPU, d # c, cproc[d] # NoProc
        PROVE  cproc'[d] = cproc[d] /\ state'[cproc[d]] = state[cproc[d]]
    BY <1>0, <1>r, <1>o, <2>1, <2>3
  <2>4. ctx[h] \in Ctx \ {"none", "exit"}
    BY <1>i, <1>0 DEF SwitchInv
  <2>5. cproc'[c] = h /\ state'[h] = "RUNNING" /\ ctx'[h] \in Ctx \ {"none", "exit"} /\ lock' = c
    BY <1>0, <1>r, <1>o, <1>u, <2>4
  <2>6. ASSUME NEW i \in Slot, state'[i] = "RUNNING" PROVE \E d \in CPU : cproc'[d] = i
    <3>1. CASE i = h
      BY <2>5, <3>1
    <3>2. CASE i # h
      <4>1. PICK d \in CPU : cproc[d] = i
        BY <1>i, <1>0, <1>r, <1>o, <2>6, <3>2 DEF CpuInv
      <4>. QED  BY <1>0, <1>r, <2>3, <4>1
    <3>. QED  BY <3>1, <3>2
  <2>7. ASSUME NEW d \in CPU, d # c, cproc'[d] # NoProc
        PROVE  state'[cproc'[d]] = "RUNNING" /\ ctx'[cproc'[d]] = "none" /\ lock' # d
    BY <1>i, <1>0, <1>r, <1>o, <1>u, <2>3, <2>7, ZenonT(60) DEF CpuInv
  <2>. QED  BY <1>i, <2>2, <2>5, <2>6, <2>7 DEF CpuInv
<1>2. SwitchInv'
  BY <1>i, <1>0, <1>r, <1>o, <1>u DEF SwitchInv
<1>3. ForkInv'
  BY <1>i, <1>0, <1>r, <1>o, <1>u, SMT DEF ForkInv
<1>4. TreeInv'
  BY <1>i, <1>0, <1>r, <1>o, <1>u, SMT DEF TreeInv, LiveParent, Live, Created
<1>5. PidInv'
  BY <1>i, <1>0, <1>r, <1>o, <1>u, SMT DEF PidInv, PidUnique
<1>6. WaitInv'
  BY <1>i, <1>0, <1>r, <1>o, <1>u, SMT DEF WaitInv, NoMissedZombie, NoKilledWaiter, Zombies, Children
<1>. QED  BY <1>1, <1>2, <1>3, <1>4, <1>5, <1>6 DEF TableInv

(* swtch() back to the scheduler.                                           *)
LEMMA TableSched ==
  ASSUME ProcInv, NEW c \in CPU, sched(c)
  PROVE  TableInv'
<1>t. TypeOK
  BY DEF ProcInv
<1>0. /\ cproc[c] # NoProc /\ lock = c /\ state[cproc[c]] # "RUNNING"
      /\ cproc' = [cproc EXCEPT ![c] = NoProc]
      /\ UNCHANGED <<slotVars, ctx, pc, child, lock, nextpid>>
  BY DEF sched
<1>. USE DEF slotVars
<1>i. CpuInv /\ SwitchInv /\ ForkInv /\ TreeInv /\ PidInv /\ WaitInv
  BY DEF ProcInv, TableInv
<1>r. Refs
  BY RefFacts
<1>. USE DEF Refs
<1>o. cproc'[c] = NoProc /\ \A d \in CPU \ {c} : cproc'[d] = cproc[d]
  BY <1>0, <1>t DEF TypeOK
<1>1. CpuInv'
  BY <1>i, <1>0, <1>r, <1>o, SMT DEF CpuInv, OneCpu
<1>2. SwitchInv'
  BY <1>i, <1>0 DEF SwitchInv
<1>3. ForkInv'
  BY <1>i, <1>0, SMT DEF ForkInv
<1>4. TreeInv'
  BY <1>i, <1>0 DEF TreeInv, LiveParent
<1>5. PidInv'
  BY <1>i, <1>0 DEF PidInv, PidUnique
<1>6. WaitInv'
  BY <1>i, <1>0 DEF WaitInv, NoMissedZombie, NoKilledWaiter, Zombies, Children
<1>. QED  BY <1>1, <1>2, <1>3, <1>4, <1>5, <1>6 DEF TableInv

(* A process is back from swtch() and releases ptable.lock.                 *)
LEMMA TableResume ==
  ASSUME ProcInv, NEW c \in CPU, NEW i \in Slot, resume(c, i)
  PROVE  TableInv'
<1>t. TypeOK
  BY DEF ProcInv
<1>0. /\ cproc[c] = i /\ lock = c /\ state[i] = "RUNNING" /\ ctx[i] # "wait" /\ lock' = NoCpu
      /\ ctx' = [ctx EXCEPT ![i] = "none"]
      /\ \A j \in Slot : j # i => chan'[j] = chan[j]
      /\ UNCHANGED <<state, pid, parent, killed, pc, child, cproc, nextpid>>
  BY <1>t DEF resume, Resumes, TypeOK
<1>i. CpuInv /\ SwitchInv /\ ForkInv /\ TreeInv /\ PidInv /\ WaitInv
  BY DEF ProcInv, TableInv
<1>r. Refs
  BY RefFacts
<1>. USE DEF Refs
<1>o. ctx'[i] = "none" /\ \A j \in Slot \ {i} : ctx'[j] = ctx[j]
  BY <1>0, <1>t DEF TypeOK
<1>1. CpuInv'
  BY <1>i, <1>0, <1>r, <1>o, SMT DEF CpuInv, OneCpu
<1>2. SwitchInv'
  BY <1>i, <1>0, <1>r, <1>o, ZenonT(60) DEF SwitchInv
<1>3. ForkInv'
  <2>1. \A j \in Slot : child[j] # NoProc => child[j] # i
    BY <1>i, <1>0 DEF ForkInv
  <2>. QED  BY <1>i, <1>0, <1>r, <1>o, <2>1, SMT DEF ForkInv
<1>4. TreeInv'
  BY <1>i, <1>0 DEF TreeInv, LiveParent
<1>5. PidInv'
  BY <1>i, <1>0 DEF PidInv, PidUnique
<1>6. WaitInv'
  BY <1>i, <1>0, <1>r, <1>o, ZenonT(60) DEF WaitInv, NoMissedZombie, NoKilledWaiter, Zombies, Children
<1>. QED  BY <1>1, <1>2, <1>3, <1>4, <1>5, <1>6 DEF TableInv

(* yield and sleep: the process takes ptable.lock and is about to leave.    *)
LEMMA TableYield ==
  ASSUME ProcInv, NEW c \in CPU, NEW i \in Slot, yield(c, i)
  PROVE  TableInv'
<1>t. TypeOK
  BY DEF ProcInv
<1>0. /\ cproc[c] = i /\ i # NoProc /\ lock = NoCpu /\ lock' = c /\ state[i] = "RUNNING" /\ ctx[i] = "none"
      /\ state' = [state EXCEPT ![i] = "RUNNABLE"] /\ ctx' = [ctx EXCEPT ![i] = "yield"]
      /\ UNCHANGED <<pid, parent, chan, killed, pc, child, cproc, nextpid>>
  BY RunsFacts DEF yield, Runs
<1>i. CpuInv /\ SwitchInv /\ ForkInv /\ TreeInv /\ PidInv /\ WaitInv
  BY DEF ProcInv, TableInv
<1>r. Refs
  BY RefFacts
<1>. USE DEF Refs
<1>o. /\ state'[i] = "RUNNABLE" /\ ctx'[i] = "yield"
      /\ \A j \in Slot \ {i} : state'[j] = state[j] /\ ctx'[j] = ctx[j]
  BY <1>0, <1>t DEF TypeOK
<1>1. CpuInv'
  BY <1>i, <1>0, <1>r, <1>o, SMT DEF CpuInv, OneCpu
<1>2. SwitchInv'
  BY <1>i, <1>0, <1>r, <1>o, SMT DEF SwitchInv, Ctx
<1>3. ForkInv'
  <2>1. \A j \in Slot : child[j] # NoProc => child[j] # i
    BY <1>i, <1>0 DEF ForkInv
  <2>. QED  BY <1>i, <1>0, <1>r, <1>o, <2>1, SMT DEF ForkInv
<1>4. TreeInv'
  BY <1>i, <1>0, <1>r, <1>o, SMT DEF TreeInv, LiveParent, Live, Created
<1>5. PidInv'
  BY <1>i, <1>0, <1>r, <1>o, SMT DEF PidInv, PidUnique
<1>6. WaitInv'
  BY <1>i, <1>0, <1>r, <1>o, SMT DEF WaitInv, NoMissedZombie, NoKilledWaiter, Zombies, Children
<1>. QED  BY <1>1, <1>2, <1>3, <1>4, <1>5, <1>6 DEF TableInv

LEMMA TableSleep ==
  ASSUME ProcInv, NEW c \in CPU, NEW i \in Slot, NEW ch \in IoChan, sleep(c, i, ch)
  PROVE  TableInv'
<1>t. TypeOK
  BY DEF ProcInv
<1>0. /\ cproc[c] = i /\ i # NoProc /\ lock = NoCpu /\ lock' = c /\ state[i] = "RUNNING" /\ ctx[i] = "none"
      /\ pc[i] = "user" /\ chan' = [chan EXCEPT ![i] = ch]
      /\ state' = [state EXCEPT ![i] = "SLEEPING"] /\ ctx' = [ctx EXCEPT ![i] = "sleep"]
      /\ UNCHANGED <<pid, parent, killed, pc, child, cproc, nextpid>>
  BY RunsFacts DEF sleep, User, Runs
<1>i. CpuInv /\ SwitchInv /\ ForkInv /\ TreeInv /\ PidInv /\ WaitInv
  BY DEF ProcInv, TableInv
<1>r. Refs
  BY RefFacts
<1>. USE DEF Refs
<1>o. /\ state'[i] = "SLEEPING" /\ ctx'[i] = "sleep" /\ chan'[i] = ch
      /\ \A j \in Slot \ {i} : state'[j] = state[j] /\ ctx'[j] = ctx[j] /\ chan'[j] = chan[j]
  BY <1>0, <1>t DEF TypeOK
<1>1. CpuInv'
  BY <1>i, <1>0, <1>r, <1>o, SMT DEF CpuInv, OneCpu
<1>2. SwitchInv'
  BY <1>i, <1>0, <1>r, <1>o, SMT DEF SwitchInv
<1>3. ForkInv'
  <2>1. \A j \in Slot : child[j] # NoProc => child[j] # i /\ j # i
    BY <1>i, <1>0 DEF ForkInv
  <2>. QED  BY <1>i, <1>0, <1>r, <1>o, <2>1, SMT DEF ForkInv
<1>4. TreeInv'
  BY <1>i, <1>0, <1>r, <1>o, SMT DEF TreeInv, LiveParent, Live, Created
<1>5. PidInv'
  BY <1>i, <1>0, <1>r, <1>o, SMT DEF PidInv, PidUnique
<1>6. WaitInv'
  BY <1>i, <1>0, <1>r, <1>o, SMT DEF WaitInv, NoMissedZombie, NoKilledWaiter, Zombies, Children
<1>. QED  BY <1>1, <1>2, <1>3, <1>4, <1>5, <1>6 DEF TableInv

(* wakeup and kill make sleepers runnable; kill marks one process.          *)
LEMMA TableWake ==
  ASSUME ProcInv, lock = NoCpu, UNCHANGED <<pid, parent, chan, ctx, pc, child, lock, cproc, nextpid>>,
         state' \in [Slot -> States],
         \A j \in Slot : state'[j] # state[j] => state[j] = "SLEEPING" /\ state'[j] = "RUNNABLE",
         \A j \in Slot : killed'[j] # killed[j] => state'[j] # "SLEEPING"
  PROVE  TableInv'
<1>t. TypeOK
  BY DEF ProcInv
<1>i. CpuInv /\ SwitchInv /\ ForkInv /\ TreeInv /\ PidInv /\ WaitInv
  BY DEF ProcInv, TableInv
<1>r. Refs
  BY RefFacts
<1>. USE DEF Refs
<1>1. CpuInv'
  BY <1>i, <1>r, ZenonT(60) DEF CpuInv, OneCpu
<1>2. SwitchInv'
  BY <1>i DEF SwitchInv, Ctx
<1>3. ForkInv'
  BY <1>i, <1>r, SMT DEF ForkInv
<1>4. TreeInv'
  <2>1. initproc \in Slot
    BY ProcAssumption, SMT DEF initproc, Slot
  <2>. QED  BY <1>i, <1>r, <2>1 DEF TreeInv, LiveParent, Live, Created
<1>5. PidInv'
  BY <1>i DEF PidInv, PidUnique
<1>6. WaitInv'
  BY <1>i, ZenonT(60) DEF WaitInv, NoMissedZombie, NoKilledWaiter, Zombies, Children
<1>. QED  BY <1>1, <1>2, <1>3, <1>4, <1>5, <1>6 DEF TableInv

LEMMA TableKill ==
  ASSUME ProcInv, Scans, NEW c \in CPU, NEW i \in Slot, NEW n, kill(c, i, n)
  PROVE  TableInv'
<1>t. TypeOK
  BY DEF ProcInv
<1>1. lock = NoCpu /\ UNCHANGED <<pid, parent, chan, ctx, pc, child, lock, cproc, nextpid>>
  BY DEF kill, cpuVars
<1>2. CASE WithPid(n) = {}
  BY <1>1, <1>2, TableQuiet DEF kill
<1>3. CASE WithPid(n) # {}
  <2>1. PICK p \in Slot : /\ killed' = [killed EXCEPT ![p] = 1]
                         /\ state' = [state EXCEPT ![p] = IF @ = "SLEEPING" THEN "RUNNABLE" ELSE @]
    BY <1>3, SMT DEF Scans, WithPid, kill
  <2>2. state' \in [Slot -> States]
    BY <1>t, <2>1 DEF TypeOK, States
  <2>3. \A j \in Slot : state'[j] # state[j] => state[j] = "SLEEPING" /\ state'[j] = "RUNNABLE"
    <3>1. state \in [Slot -> States]
      BY <1>t DEF TypeOK
    <3>2. state'[p] = IF state[p] = "SLEEPING" THEN "RUNNABLE" ELSE state[p]
      BY <2>1, <3>1
    <3>3. \A j \in Slot \ {p} : state'[j] = state[j]
      BY <2>1, <3>1
    <3>. QED  BY <3>2, <3>3
  <2>4. \A j \in Slot : killed'[j] # killed[j] => state'[j] # "SLEEPING"
    BY <1>t, <2>1 DEF TypeOK
  <2>. QED  BY <1>1, <2>2, <2>3, <2>4, TableWake
<1>. QED  BY <1>2, <1>3

(* fork takes an unused slot and a new pid.                                 *)
LEMMA TableFork ==
  ASSUME ProcInv, Scans, NEW c \in CPU, NEW i \in Slot, fork(c, i)
  PROVE  TableInv'
<1>t. TypeOK
  BY DEF ProcInv
<1>0. PICK np \in Slot : /\ state[np] = "UNUSED" /\ state' = [state EXCEPT ![np] = "EMBRYO"]
                        /\ pid' = [pid EXCEPT ![np] = nextpid] /\ child' = [child EXCEPT ![i] = np]
  BY DEF Scans, Unused, fork
<1>u. /\ state[i] = "RUNNING" /\ ctx[i] = "none" /\ pc[i] = "user"
      /\ nextpid' = nextpid + 1 /\ pc' = [pc EXCEPT ![i] = "allocproc"]
      /\ UNCHANGED <<parent, chan, killed, ctx, lock, cproc>>
  BY RunsFacts DEF fork, cpuVars, User
<1>i. CpuInv /\ SwitchInv /\ ForkInv /\ TreeInv /\ PidInv /\ WaitInv
  BY DEF ProcInv, TableInv
<1>r. Refs
  BY RefFacts
<1>. USE DEF Refs
<1>o. /\ child'[i] = np /\ pc'[i] = "allocproc" /\ state'[np] = "EMBRYO" /\ i # np /\ pid'[np] = nextpid
      /\ \A j \in Slot \ {i} : child'[j] = child[j] /\ pc'[j] = pc[j]
      /\ \A j \in Slot \ {np} : state'[j] = state[j] /\ pid'[j] = pid[j]
  BY <1>0, <1>u, <1>t DEF TypeOK
<1>1. CpuInv'
  BY <1>i, <1>0, <1>r, <1>o, <1>u, SMT DEF CpuInv, OneCpu
<1>2. SwitchInv'
  BY <1>i, <1>0, <1>r, <1>o, <1>u, ZenonT(60) DEF SwitchInv
<1>3. ForkInv'
  <2>1. \A j \in Slot : child[j] # NoProc => child[j] # np /\ j # np /\ j # i
    BY <1>i, <1>0, <1>u DEF ForkInv
  <2>3. ASSUME NEW j \in Slot \ {i}, child[j] # NoProc
        PROVE  child[j] \in Slot \ {np} /\ \A k \in Slot \ {j} : child'[k] # child[j]
    BY <1>i, <1>r, <1>o, <2>1, <2>3, SMT DEF ForkInv
  <2>. QED  BY <1>i, <1>r, <1>o, <1>u, <2>1, <2>3, SMT DEF ForkInv
<1>4. TreeInv'
  <2>1. np # initproc
    BY <1>i, <1>0 DEF TreeInv, Live, Created
  <2>. QED  BY <1>i, <1>0, <1>r, <1>o, <1>u, <2>1, SMT DEF TreeInv, LiveParent, Live, Created
<1>5. PidInv'
  <2>0. nextpid \in Nat /\ \A j \in Slot : pid[j] \in Nat
    BY <1>t DEF TypeOK
  <2>1. /\ pid'[np] = nextpid /\ nextpid \in Nat
        /\ \A j \in Slot \ {np} : pid'[j] = pid[j] /\ pid[j] < nextpid /\ state'[j] = state[j]
        /\ \A j \in Slot : pid[j] \in Nat
    BY <1>i, <1>o, <2>0 DEF PidInv
  <2>2. ASSUME NEW j \in Slot PROVE pid'[j] < nextpid'
    BY <1>u, <2>1, SMT
  <2>3. ASSUME NEW j \in Slot, NEW k \in Slot, state'[j] # "UNUSED", state'[k] # "UNUSED", pid'[j] = pid'[k]
        PROVE  j = k
    BY <1>i, <2>1, <2>3, SMT DEF PidInv, PidUnique
  <2>. QED  BY <1>i, <2>2, <2>3 DEF PidInv, PidUnique
<1>6. WaitInv'
  BY <1>i, <1>0, <1>r, <1>o, <1>u, SMT DEF WaitInv, NoMissedZombie, NoKilledWaiter, Zombies, Children
<1>. QED  BY <1>1, <1>2, <1>3, <1>4, <1>5, <1>6 DEF TableInv

(* The steps of fork() between allocproc and the last critical section.     *)
LEMMA TableForkStep ==
  ASSUME ProcInv, NEW c \in CPU, NEW i \in Slot, allocproc_done(c, i) \/ fork_copied(c, i)
  PROVE  TableInv'
<1>t. TypeOK
  BY DEF ProcInv
<1>. DEFINE np == child[i]
<1>0. /\ state[i] = "RUNNING" /\ ctx[i] = "none" /\ pc[i] \in {"allocproc", "copyuvm"}
      /\ UNCHANGED <<state, pid, chan, killed, child, lock, cproc, nextpid>>
  BY RunsFacts DEF allocproc_done, fork_copied, slotVars, cpuVars
<1>p. /\ np \in Slot /\ state[np] = "EMBRYO" /\ np # i /\ np # NoProc
      /\ \A j \in Slot \ {i} : child[j] # np
  BY <1>0, ForkFacts, ProcAssumption, SMT DEF Slot, NoProc
<1>u. \/ /\ pc[i] = "allocproc" /\ pc' = [pc EXCEPT ![i] = "copyuvm"]
         /\ ctx' = [ctx EXCEPT ![np] = "forkret"] /\ parent' = parent
      \/ /\ pc[i] = "copyuvm" /\ pc' = [pc EXCEPT ![i] = "ready"]
         /\ parent' = [parent EXCEPT ![np] = i] /\ ctx' = ctx
  BY DEF allocproc_done, fork_copied, slotVars
<1>o. /\ pc'[i] \in {"copyuvm", "ready"} /\ (pc'[i] = "ready" => parent'[np] = i)
      /\ \A j \in Slot \ {i} : pc'[j] = pc[j]
      /\ \A j \in Slot \ {np} : ctx'[j] = ctx[j] /\ parent'[j] = parent[j]
      /\ parent'[np] \in {parent[np], i}
  BY <1>t, <1>p, <1>u DEF TypeOK
<1>. HIDE DEF np
<1>i. CpuInv /\ SwitchInv /\ ForkInv /\ TreeInv /\ PidInv /\ WaitInv
  BY DEF ProcInv, TableInv
<1>r. Refs
  BY RefFacts
<1>. USE DEF Refs
<1>1. CpuInv'
  BY <1>i, <1>0, <1>p, <1>o, <1>r, ZenonT(60) DEF CpuInv, OneCpu
<1>2. SwitchInv'
  BY <1>i, <1>0, <1>p, <1>o DEF SwitchInv
<1>3. ForkInv'
  <2>1. ctx'[np] = "forkret"
    <3>1. ctx \in [Slot -> Ctx]
      BY <1>t DEF TypeOK
    <3>. QED  BY <1>i, <1>p, <1>u, <3>1, ZenonT(60) DEF ForkInv, np
  <2>2. \A j \in Slot : child[j] # NoProc => j # np /\ (j # i => child[j] \in Slot \ {np})
    BY <1>i, <1>r, <1>p DEF ForkInv
  <2>3. child[i] = np
    BY DEF np
  <2>. QED  BY <1>i, <1>0, <1>p, <1>o, <2>1, <2>2, <2>3, SMT DEF ForkInv
<1>4. TreeInv'
  <2>1. np # initproc
    BY <1>i, <1>p DEF TreeInv, Live, Created
  <2>. QED  BY <1>i, <1>0, <1>p, <1>o, <1>r, <2>1, ZenonT(60) DEF TreeInv, LiveParent, Live, Created
<1>5. PidInv'
  BY <1>i, <1>0 DEF PidInv, PidUnique
<1>6. WaitInv'
  BY <1>i, <1>0, <1>p, <1>o, SMT DEF WaitInv, NoMissedZombie, NoKilledWaiter, Zombies, Children
<1>. QED  BY <1>1, <1>2, <1>3, <1>4, <1>5, <1>6 DEF TableInv

(* fork() gives up, or makes the child runnable.                            *)
LEMMA TableForkEnd ==
  ASSUME ProcInv, NEW c \in CPU, NEW i \in Slot, fork_fails(c, i) \/ fork_done(c, i)
  PROVE  TableInv'
<1>t. TypeOK
  BY DEF ProcInv
<1>. DEFINE np == child[i]
<1>0. /\ state[i] = "RUNNING" /\ ctx[i] = "none" /\ pc[i] \notin {"user", "panic"}
      /\ child' = [child EXCEPT ![i] = NoProc] /\ pc' = [pc EXCEPT ![i] = "user"]
      /\ UNCHANGED <<pid, parent, chan, killed, ctx, lock, cproc, nextpid>>
  BY RunsFacts DEF fork_fails, fork_done, cpuVars
<1>p. /\ np \in Slot /\ state[np] = "EMBRYO" /\ np # i
      /\ \A j \in Slot \ {i} : child[j] # np
  BY <1>0, ForkFacts
<1> USE <1>0, <1>p
<1>u. \/ state' = [state EXCEPT ![np] = "UNUSED"]
      \/ pc[i] = "ready" /\ state' = [state EXCEPT ![np] = "RUNNABLE"]
  BY DEF fork_fails, fork_done
<1>o. /\ \/ state'[np] = "UNUSED"
         \/ state'[np] = "RUNNABLE" /\ parent[np] = i /\ ctx[np] = "forkret"
      /\ \A j \in Slot \ {np} : state'[j] = state[j]
      /\ child'[i] = NoProc /\ pc'[i] = "user"
      /\ \A j \in Slot \ {i} : child'[j] = child[j] /\ pc'[j] = pc[j]
  BY <1>t, <1>u, SMT DEF TypeOK, ProcInv, TableInv, ForkInv
<1> USE <1>o
<1>. HIDE DEF np
<1>i. CpuInv /\ SwitchInv /\ ForkInv /\ TreeInv /\ PidInv /\ WaitInv
  BY DEF ProcInv, TableInv
<1>r. Refs
  BY RefFacts
<1> USE <1>i, <1>r
<1>. USE DEF Refs
<1>1. CpuInv'
  BY SMTT(60) DEF CpuInv, OneCpu
<1>2. SwitchInv'
  BY ZenonT(60) DEF SwitchInv, Ctx
<1>3. ForkInv'
  <2>1. \A j \in Slot \ {i} : child[j] # NoProc => j # np /\ child[j] \in Slot \ {np}
    BY DEF ForkInv
  <2>. QED  BY <2>1, SMT DEF ForkInv
<1>4. TreeInv'
  <2>1. np # initproc /\ initproc \in Slot
    BY ProcAssumption DEF TreeInv, Live, Created, initproc, Slot
  <2>2. i # NoProc
    BY ProcAssumption DEF Slot, NoProc
  <2>3. ASSUME NEW j \in Slot \ {initproc}, state'[j] \in Created
        PROVE  parent'[j] # NoProc /\ state'[parent'[j]] \in Live
    <3>1. CASE j = np
      BY <2>2, <2>3, <3>1, ZenonT(60) DEF Live, Created
    <3>2. CASE j # np
      <4>1. parent[j] # NoProc /\ state[parent[j]] \in Live /\ parent[j] \in Slot
        BY <2>3, <3>2 DEF TreeInv, LiveParent
      <4>2. parent[j] # np
        BY <4>1 DEF Live, Created
      <4>. QED  BY <4>1, <4>2
    <3>. QED  BY <3>1, <3>2
  <2>. QED  BY <2>1, <2>3 DEF TreeInv, LiveParent
<1>5. PidInv'
  <2>1. \A j \in Slot : state'[j] # "UNUSED" => state[j] # "UNUSED"
    OBVIOUS
  <2>2. \A j \in Slot : pid'[j] < nextpid'
    BY DEF PidInv
  <2>3. PidUnique'
    BY <2>1 DEF PidInv, PidUnique
  <2>. QED  BY <2>2, <2>3 DEF PidInv
<1>6. WaitInv'
  BY SMT DEF WaitInv, NoMissedZombie, NoKilledWaiter, Zombies, Children
<1>. QED  BY <1>1, <1>2, <1>3, <1>4, <1>5, <1>6 DEF TableInv

(* exit: the parent is woken, and init when it inherits a zombie.           *)
LEMMA TableExit ==
  ASSUME ProcInv, NEW c \in CPU, NEW i \in Slot, exit(c, i)
  PROVE  TableInv'
<1>t. TypeOK
  BY DEF ProcInv
<1>. DEFINE W == {parent[i]} \cup IF Zombies(i) # {} THEN {initproc} ELSE {}
<1>0. /\ cproc[c] = i /\ i # NoProc /\ lock = NoCpu /\ lock' = c /\ pc[i] = "user"
      /\ state[i] = "RUNNING" /\ ctx[i] = "none" /\ i # initproc
      /\ state' = [wakeup1(W) EXCEPT ![i] = "ZOMBIE"] /\ ctx' = [ctx EXCEPT ![i] = "exit"]
      /\ UNCHANGED <<pid, chan, killed, pc, child, cproc, nextpid>>
  BY RunsFacts DEF exit, User, Runs
<1>w. /\ state'[i] = "ZOMBIE"
      /\ \A j \in Slot \ {i} : \/ state'[j] = state[j] /\ ~Woken(j, W)
                               \/ state[j] = "SLEEPING" /\ state'[j] = "RUNNABLE"
  <2>1. wakeup1(W) \in [Slot -> States]
    BY <1>t, WakeupFacts
  <2>2. \A j \in Slot \ {i} : state'[j] = wakeup1(W)[j]
    BY <1>0, <2>1
  <2>3. state'[i] = "ZOMBIE"
    BY <1>0, <2>1
  <2>. HIDE DEF W
  <2>4. \A j \in Slot : \/ wakeup1(W)[j] = state[j] /\ ~Woken(j, W)
                        \/ wakeup1(W)[j] = "RUNNABLE" /\ state[j] = "SLEEPING"
    BY <1>t, WakeupFacts
  <2>. QED  BY <2>2, <2>3, <2>4
<1>c. /\ ctx'[i] = "exit" /\ \A j \in Slot \ {i} : ctx'[j] = ctx[j]
      /\ \A j \in Slot : parent'[j] = IF parent[j] = i THEN initproc ELSE parent[j]
  BY <1>0, <1>t DEF TypeOK, exit
<1>i. CpuInv /\ SwitchInv /\ ForkInv /\ TreeInv /\ PidInv /\ WaitInv
  BY DEF ProcInv, TableInv
<1>r. Refs
  BY RefFacts
<1>. USE DEF Refs
<1>k. child[i] = NoProc /\ \A j \in Slot : child[j] # NoProc => child[j] \in Slot \ {i}
  BY <1>i, <1>0, <1>r DEF ForkInv
<1>l. parent[initproc] = NoProc /\ parent[i] # i
  BY <1>i DEF TreeInv
<1>1. CpuInv'
  <2>1. \A d \in CPU : d # c => cproc[d] # i
    BY <1>i, <1>0 DEF CpuInv, OneCpu
  <2>. HIDE DEF W
  <2>3. ASSUME NEW d \in CPU, d # c, cproc[d] # NoProc
        PROVE  state'[cproc[d]] = "RUNNING" /\ ctx'[cproc[d]] = "none"
    <3>1. state[cproc[d]] = "RUNNING" /\ ctx[cproc[d]] = "none" /\ cproc[d] \in Slot \ {i}
      BY <1>i, <1>0, <1>r, <2>1, <2>3 DEF CpuInv
    <3>. QED  BY <1>w, <1>c, <3>1
  <2>4. \A j \in Slot : state'[j] = "RUNNING" => state[j] = "RUNNING"
    BY <1>w
  <2>. QED  BY <1>i, <1>0, <1>w, <2>3, <2>4, SMT DEF CpuInv, OneCpu
<1>2. SwitchInv'
  <2>. HIDE DEF W
  <2>. QED  BY <1>i, <1>0, <1>w, <1>c, SMT DEF SwitchInv, Ctx
<1>3. ForkInv'
  <2>. HIDE DEF W
  <2>1. ASSUME NEW j \in Slot, child[j] # NoProc
        PROVE  /\ j # i /\ state'[j] = state[j] /\ state'[child[j]] = "EMBRYO"
               /\ ctx'[j] = ctx[j] /\ ctx'[child[j]] = ctx[child[j]]
    BY <1>i, <1>k, <1>w, <1>c, <2>1, SMT DEF ForkInv
  <2>2. \A j \in Slot : pc[j] = "ready" => j # i /\ child[j] \in Slot
    BY <1>i, <1>0, <1>k DEF ForkInv
  <2>3. \A j \in Slot : pc[j] = "ready" => parent'[child[j]] = parent[child[j]]
    BY <1>i, <1>c, <2>2, SMT DEF ForkInv
  <2>. QED  BY <1>i, <1>0, <2>1, <2>3, SMTT(60) DEF ForkInv
<1>4. TreeInv'
  <2>. HIDE DEF W
  <2>1. state'[initproc] \in Live
    BY <1>i, <1>0, <1>r, <1>w DEF TreeInv, Live, Created
  <2>2. \A j \in Slot : parent'[j] # j
    BY <1>i, <1>c, <1>l, <1>0, SMT DEF TreeInv
  <2>3. ASSUME NEW j \in Slot \ {initproc}, state'[j] \in Created
        PROVE  parent'[j] # NoProc /\ state'[parent'[j]] \in Live
    <3>1. state[j] \in Created
      BY <1>0, <1>w, <2>3 DEF Created
    <3>2. parent[j] # NoProc /\ state[parent[j]] \in Live /\ parent[j] \in Slot
      BY <1>i, <1>r, <3>1 DEF TreeInv, LiveParent
    <3>3. CASE parent[j] = i
      BY <1>c, <1>r, <2>1, <3>3
    <3>4. CASE parent[j] # i
      BY <1>c, <1>w, <3>2, <3>4 DEF Live, Created
    <3>. QED  BY <3>3, <3>4
  <2>4. parent'[initproc] = NoProc
    BY <1>0, <1>c, <1>l, <1>r
  <2>. QED  BY <1>i, <2>1, <2>2, <2>3, <2>4 DEF TreeInv, LiveParent
<1>5. PidInv'
  <2>. HIDE DEF W
  <2>. QED  BY <1>i, <1>0, <1>w, SMT DEF PidInv, PidUnique
<1>6. WaitInv'
  <2>1. ASSUME NEW j \in Slot, state'[j] = "SLEEPING", ctx'[j] = "wait", NEW z \in Slot,
               parent'[z] = j, state'[z] = "ZOMBIE"
        PROVE  FALSE
    <3>1. j # i /\ state[j] = "SLEEPING" /\ ctx[j] = "wait" /\ chan[j] = j /\ ~Woken(j, W)
      <4>. HIDE DEF W
      <4>1. j # i /\ state[j] = "SLEEPING" /\ ctx[j] = "wait" /\ ~Woken(j, W)
        BY <1>w, <1>c, <2>1
      <4>. QED  BY <1>i, <4>1 DEF SwitchInv
    <3>2. j \notin W
      BY <3>1 DEF Woken
    <3>3. CASE z = i
      BY <1>c, <1>l, <2>1, <3>2, <3>3
    <3>4. CASE z # i
      <4>1. state[z] = "ZOMBIE"
        BY <1>w, <2>1, <3>4
      <4>2. CASE parent[z] = i
        <5>1. Zombies(i) # {} /\ j = initproc
          BY <1>c, <2>1, <4>1, <4>2 DEF Zombies, Children
        <5>. QED  BY <3>2, <5>1
      <4>3. CASE parent[z] # i
        BY <1>i, <1>c, <2>1, <3>1, <4>1, <4>3 DEF WaitInv, NoMissedZombie, Zombies, Children
      <4>. QED  BY <4>2, <4>3
    <3>. QED  BY <3>3, <3>4
  <2>. HIDE DEF W
  <2>2. NoMissedZombie'
    BY <1>i, <2>1 DEF NoMissedZombie, Zombies, Children
  <2>3. NoKilledWaiter'
    BY <1>i, <1>0, <1>w, <1>c, SMT DEF WaitInv, NoKilledWaiter
  <2>. QED  BY <1>i, <2>2, <2>3 DEF WaitInv
<1>. QED  BY <1>1, <1>2, <1>3, <1>4, <1>5, <1>6 DEF TableInv

(* One pass of wait().                                                      *)
LEMMA TableWaitReap ==
  ASSUME ProcInv, NEW c \in CPU, NEW i \in Slot, wait(c, i), wait_reap(c, i), Scans
  PROVE  TableInv'
<1>t. TypeOK
  BY DEF ProcInv
<1>0. /\ cproc[c] = i /\ lock \in {c, NoCpu} /\ c # NoCpu /\ lock' = NoCpu
      /\ state[i] = "RUNNING" /\ child[i] = NoProc
      /\ UNCHANGED <<pc, child, cproc, nextpid>>
  BY WaitFacts DEF wait_reap
<1>1. PICK z \in Slot : /\ state[z] = "ZOMBIE" /\ parent[z] = i
                       /\ state' = [state EXCEPT ![z] = "UNUSED"] /\ pid' = [pid EXCEPT ![z] = 0]
                       /\ parent' = [parent EXCEPT ![z] = NoProc] /\ killed' = [killed EXCEPT ![z] = 0]
  BY DEF Scans, Zombies, Children, wait_reap
<1>2. /\ state'[z] = "UNUSED" /\ parent'[z] = NoProc /\ pid'[z] = 0
      /\ \A j \in Slot \ {z} : state'[j] = state[j] /\ parent'[j] = parent[j] /\ killed'[j] = killed[j]
      /\ \A j \in Slot \ {z} : pid'[j] = pid[j]
      /\ ctx'[i] = "none" /\ \A j \in Slot \ {i} : ctx'[j] = ctx[j] /\ chan'[j] = chan[j]
      /\ z # i
  BY <1>0, <1>1, <1>t, SMT DEF TypeOK, wait_reap
<1>i. CpuInv /\ SwitchInv /\ ForkInv /\ TreeInv /\ PidInv /\ WaitInv
  BY DEF ProcInv, TableInv
<1>r. Refs
  BY RefFacts
<1>. USE DEF Refs
<1>3. CpuInv'
  <2>1. \A d \in CPU : d # c /\ cproc[d] # NoProc => cproc[d] # i
    BY <1>i, <1>0 DEF CpuInv, OneCpu
  <2>2. \A d \in CPU : d # c /\ cproc[d] # NoProc
                     => cproc[d] \in Slot /\ state[cproc[d]] = "RUNNING" /\ ctx[cproc[d]] = "none"
    BY <1>i, <1>0, <1>r, ZenonT(60) DEF CpuInv
  <2>3. \A d \in CPU : cproc[d] # NoProc => state'[cproc[d]] = "RUNNING" /\ ctx'[cproc[d]] = "none"
    <3>. SUFFICES ASSUME NEW d \in CPU, cproc[d] # NoProc
                  PROVE  state'[cproc[d]] = "RUNNING" /\ ctx'[cproc[d]] = "none"
      OBVIOUS
    <3>1. CASE d = c
      BY <1>0, <1>2, <3>1
    <3>2. CASE d # c
      <4>1. cproc[d] \in Slot /\ cproc[d] # i /\ state[cproc[d]] = "RUNNING" /\ ctx[cproc[d]] = "none"
        BY <2>1, <2>2, <3>2
      <4>2. cproc[d] # z
        BY <1>1, <4>1
      <4>. QED  BY <1>2, <4>1, <4>2
    <3>. QED  BY <3>1, <3>2
  <2>4. \A d \in CPU : lock' # d
    BY <1>0, ProcAssumption
  <2>5. OneCpu'
    BY <1>i, <1>0 DEF CpuInv, OneCpu
  <2>6. \A j \in Slot : state'[j] = "RUNNING" => \E d \in CPU : cproc'[d] = j
    <3>. SUFFICES ASSUME NEW j \in Slot, state'[j] = "RUNNING"  PROVE \E d \in CPU : cproc[d] = j
      BY <1>0
    <3>1. state[j] = "RUNNING"
      BY <1>2
    <3>. QED  BY <1>i, <3>1 DEF CpuInv
  <2>7. \A d \in CPU : cproc'[d] # NoProc => state'[cproc'[d]] = "RUNNING" /\ ctx'[cproc'[d]] = "none"
    BY <1>0, <2>3
  <2>. QED  BY <2>4, <2>5, <2>6, <2>7 DEF CpuInv
<1>4. SwitchInv'
  <2>1. ASSUME NEW j \in Slot
        PROVE  /\ state'[j] = "RUNNABLE" => ctx'[j] \in Ctx \ {"none", "exit"}
               /\ state'[j] = "SLEEPING" => \/ ctx'[j] = "wait" /\ chan'[j] = j
                                            \/ ctx'[j] = "sleep" /\ chan'[j] \in IoChan
               /\ state'[j] = "ZOMBIE" => ctx'[j] = "exit"
    <3>1. CASE j = z
      BY <1>2, <3>1
    <3>2. CASE j = i
      BY <1>0, <1>2, <3>2
    <3>3. CASE j # z /\ j # i
      <4>1. state'[j] = state[j] /\ ctx'[j] = ctx[j] /\ chan'[j] = chan[j]
        BY <1>2, <3>3
      <4>. QED  BY <1>i, <4>1 DEF SwitchInv
    <3>. QED  BY <3>1, <3>2, <3>3
  <2>. QED  BY <2>1 DEF SwitchInv
<1>5. ForkInv'
  <2>1. \A j \in Slot : child[j] # NoProc => j # i /\ j # z /\ child[j] \in Slot \ {i, z}
    BY <1>i, <1>0, <1>1, <1>r DEF ForkInv
  <2>2. ASSUME NEW j \in Slot
        PROVE  /\ child'[j] = NoProc <=> pc'[j] \in {"user", "panic"}
               /\ child'[j] # NoProc =>
                    /\ state'[j] \in {"RUNNING", "RUNNABLE"} /\ ctx'[j] \in {"none", "yield"}
                    /\ state'[child'[j]] = "EMBRYO" /\ \A k \in Slot \ {j} : child'[k] # child'[j]
                    /\ pc'[j] \in {"copyuvm", "ready"} => ctx'[child'[j]] = "forkret"
                    /\ pc'[j] = "ready" => parent'[child'[j]] = j
    <3>1. CASE child[j] = NoProc
      BY <1>i, <1>0, <3>1 DEF ForkInv
    <3>2. CASE child[j] # NoProc
      <4>1. /\ state'[j] = state[j] /\ ctx'[j] = ctx[j] /\ pc'[j] = pc[j] /\ child' = child
            /\ state'[child[j]] = state[child[j]] /\ ctx'[child[j]] = ctx[child[j]]
            /\ parent'[child[j]] = parent[child[j]]
        BY <1>0, <1>2, <2>1, <3>2
      <4>2. /\ pc[j] \notin {"user", "panic"}
            /\ state[j] \in {"RUNNING", "RUNNABLE"} /\ ctx[j] \in {"none", "yield"}
            /\ state[child[j]] = "EMBRYO" /\ \A k \in Slot \ {j} : child[k] # child[j]
            /\ pc[j] \in {"copyuvm", "ready"} => ctx[child[j]] = "forkret"
            /\ pc[j] = "ready" => parent[child[j]] = j
        BY <1>i, <3>2 DEF ForkInv
      <4>. QED  BY <3>2, <4>1, <4>2
    <3>. QED  BY <3>1, <3>2
  <2>. QED  BY <2>2 DEF ForkInv
<1>6. TreeInv'
  <2>1. z # initproc
    BY <1>i, <1>1, <1>r DEF TreeInv, Live, Created
  <2>2. \A j \in Slot \ {initproc} : state[j] \in Created => parent[j] \in Slot \ {z}
    BY <1>i, <1>1, <1>r DEF TreeInv, LiveParent, Live, Created
  <2>3. state'[initproc] \in Live /\ parent'[initproc] = NoProc
    BY <1>i, <1>2, <1>r, <2>1 DEF TreeInv
  <2>4. \A j \in Slot : parent'[j] # j
    <3>1. z # NoProc
      BY <1>r
    <3>. QED  BY <1>i, <1>2, <3>1 DEF TreeInv
  <2>5. ASSUME NEW j \in Slot \ {initproc}, state'[j] \in Created
        PROVE  parent'[j] # NoProc /\ state'[parent'[j]] \in Live
    <3>1. j # z
      BY <1>2, <2>5 DEF Created
    <3>2. state[j] \in Created /\ parent'[j] = parent[j]
      BY <1>2, <2>5, <3>1
    <3>3. parent[j] \in Slot \ {z} /\ state[parent[j]] \in Live
      BY <1>i, <2>2, <3>2 DEF TreeInv, LiveParent
    <3>4. state'[parent[j]] = state[parent[j]]
      BY <1>2, <3>3
    <3>. QED  BY <1>r, <3>2, <3>3, <3>4
  <2>. QED  BY <2>3, <2>4, <2>5 DEF TreeInv, LiveParent
<1>7. PidInv'
  <2>1. 0 < nextpid
    BY <1>t, SMT DEF TypeOK
  <2>. QED  BY <1>i, <1>0, <1>1, <1>2, <2>1, SMT DEF PidInv, PidUnique
<1>8. WaitInv'
  BY <1>i, <1>0, <1>1, <1>2, SMTT(60) DEF WaitInv, NoMissedZombie, NoKilledWaiter, Zombies, Children
<1>. QED  BY <1>3, <1>4, <1>5, <1>6, <1>7, <1>8 DEF TableInv

LEMMA TableWaitReturn ==
  ASSUME ProcInv, NEW c \in CPU, NEW i \in Slot, wait(c, i), wait_return(c, i)
  PROVE  TableInv'
<1>t. TypeOK
  BY DEF ProcInv
<1>0. /\ cproc[c] = i /\ lock \in {c, NoCpu} /\ lock' = NoCpu
      /\ state[i] = "RUNNING" /\ child[i] = NoProc
      /\ UNCHANGED <<state, pid, parent, killed, pc, child, cproc, nextpid>>
  BY WaitFacts DEF wait_return
<1>2. ctx'[i] = "none" /\ \A j \in Slot \ {i} : ctx'[j] = ctx[j] /\ chan'[j] = chan[j]
  BY <1>t DEF TypeOK, wait_return
<1>i. CpuInv /\ SwitchInv /\ ForkInv /\ TreeInv /\ PidInv /\ WaitInv
  BY DEF ProcInv, TableInv
<1> USE <1>0, <1>2, <1>i
<1>r. Refs
  BY RefFacts
<1>. USE DEF Refs
<1>3. CpuInv'
  BY <1>r, SMTT(60) DEF CpuInv, OneCpu
<1>4. SwitchInv'
  BY DEF SwitchInv
<1>5. ForkInv'
  <2>1. \A j \in Slot : child[j] # NoProc => j # i /\ child[j] \in Slot \ {i}
    BY <1>r DEF ForkInv
  <2>. QED  BY <2>1, SMT DEF ForkInv
<1>6. TreeInv'
  BY DEF TreeInv, LiveParent
<1>7. PidInv'
  BY DEF PidInv, PidUnique
<1>8. WaitInv'
  BY DEF WaitInv, NoMissedZombie, NoKilledWaiter, Zombies, Children
<1>. QED  BY <1>3, <1>4, <1>5, <1>6, <1>7, <1>8 DEF TableInv

LEMMA TableWaitSleep ==
  ASSUME ProcInv, NEW c \in CPU, NEW i \in Slot, wait(c, i), wait_sleep(c, i)
  PROVE  TableInv'
<1>t. TypeOK
  BY DEF ProcInv
<1>0. /\ cproc[c] = i /\ lock \in {c, NoCpu} /\ lock' = c /\ Zombies(i) = {} /\ killed[i] = 0
      /\ state[i] = "RUNNING" /\ child[i] = NoProc
      /\ UNCHANGED <<pid, parent, killed, pc, child, cproc, nextpid>>
  BY WaitFacts DEF wait_sleep
<1>2. /\ state'[i] = "SLEEPING" /\ ctx'[i] = "wait" /\ chan'[i] = i
      /\ \A j \in Slot \ {i} : state'[j] = state[j] /\ ctx'[j] = ctx[j] /\ chan'[j] = chan[j]
  BY <1>t DEF TypeOK, wait_sleep
<1>i. CpuInv /\ SwitchInv /\ ForkInv /\ TreeInv /\ PidInv /\ WaitInv
  BY DEF ProcInv, TableInv
<1> USE <1>0, <1>2, <1>i
<1>r. Refs
  BY RefFacts
<1>. USE DEF Refs
<1>3. CpuInv'
  BY <1>r, SMTT(60) DEF CpuInv, OneCpu
<1>4. SwitchInv'
  BY ZenonT(60) DEF SwitchInv
<1>5. ForkInv'
  <2>1. \A j \in Slot : child[j] # NoProc => j # i /\ child[j] \in Slot \ {i}
    BY <1>r DEF ForkInv
  <2>2. ASSUME NEW j \in Slot
        PROVE  /\ child'[j] = NoProc <=> pc'[j] \in {"user", "panic"}
               /\ child'[j] # NoProc =>
                    /\ state'[j] \in {"RUNNING", "RUNNABLE"} /\ ctx'[j] \in {"none", "yield"}
                    /\ state'[child'[j]] = "EMBRYO" /\ \A k \in Slot \ {j} : child'[k] # child'[j]
                    /\ pc'[j] \in {"copyuvm", "ready"} => ctx'[child'[j]] = "forkret"
                    /\ pc'[j] = "ready" => parent'[child'[j]] = j
    <3>1. CASE child[j] = NoProc
      BY <3>1 DEF ForkInv
    <3>2. CASE child[j] # NoProc
      <4>1. /\ state'[j] = state[j] /\ ctx'[j] = ctx[j] /\ pc'[j] = pc[j] /\ child' = child
            /\ state'[child[j]] = state[child[j]] /\ ctx'[child[j]] = ctx[child[j]]
            /\ parent'[child[j]] = parent[child[j]]
        BY <2>1, <3>2
      <4>2. /\ pc[j] \notin {"user", "panic"}
            /\ state[j] \in {"RUNNING", "RUNNABLE"} /\ ctx[j] \in {"none", "yield"}
            /\ state[child[j]] = "EMBRYO" /\ \A k \in Slot \ {j} : child[k] # child[j]
            /\ pc[j] \in {"copyuvm", "ready"} => ctx[child[j]] = "forkret"
            /\ pc[j] = "ready" => parent[child[j]] = j
        BY <3>2 DEF ForkInv
      <4>. QED  BY <3>2, <4>1, <4>2
    <3>. QED  BY <3>1, <3>2
  <2>. QED  BY <2>2 DEF ForkInv
<1>6. TreeInv'
  <2>1. initproc \in Slot
    BY ProcAssumption, SMT DEF initproc, Slot
  <2>. QED  BY <1>r, <2>1, ZenonT(60) DEF TreeInv, LiveParent, Live, Created
<1>7. PidInv'
  BY ZenonT(60) DEF PidInv, PidUnique
<1>8. WaitInv'
  <2>0. \A z \in Slot : state'[z] = "ZOMBIE" => state[z] = "ZOMBIE"
    OBVIOUS
  <2>1. ASSUME NEW j \in Slot, state'[j] = "SLEEPING", ctx'[j] = "wait"
        PROVE  Zombies(j)' = {} /\ killed'[j] = 0
    <3>1. Zombies(j) = {} /\ killed[j] = 0
      <4>1. CASE j = i
        BY <4>1
      <4>2. CASE j # i
        BY <2>1, <4>2 DEF WaitInv, NoMissedZombie, NoKilledWaiter
      <4>. QED  BY <4>1, <4>2
    <3>. QED  BY <2>0, <3>1 DEF Zombies, Children
  <2>. QED  BY <2>1 DEF WaitInv, NoMissedZombie, NoKilledWaiter
<1>. QED  BY <1>3, <1>4, <1>5, <1>6, <1>7, <1>8 DEF TableInv

-----------------------------------------------------------------------------
-----------------------------------------------------------------------------
(* The scans of the process table.                                          *)

(* The order that the well-founded induction below uses. *)
Less == {e \in Nat \X Nat : e[1] < e[2]}

(* There is no infinite descent in the natural numbers. *)
LEMMA LessWellFounded == IsWellFoundedOn(Less, Nat)
<1>1. OpToRel(<, Nat) = Less
  BY DEF OpToRel, Less
<1>. QED  BY <1>1, NatLessThanWellFounded

(* A nonempty set of natural numbers has a least element. *)
LEMMA Least ==
  ASSUME NEW S, S \subseteq Nat, S # {}
  PROVE  \E i \in S : \A j \in S : i <= j
<1>1. PICK i \in S : \A j \in S : ~(<<j, i>> \in Less)
  BY LessWellFounded, WFMin
<1>2. \A j \in S : i \in Nat /\ j \in Nat /\ ~(j < i)
  <2>. TAKE j \in S
  <2>1. i \in Nat /\ j \in Nat /\ <<j, i>> \in Nat \X Nat
    OBVIOUS
  <2>. QED  BY <1>1, <2>1 DEF Less
<1>. QED  BY <1>2, SMT

(* A scan for the first slot with some property finds the first one. *)
LEMMA FirstSlot ==
  ASSUME NEW S, S \subseteq Slot, S # {}
  PROVE  First(S) \in S /\ \A j \in S : First(S) <= j
<1>1. S \subseteq Nat
  BY ProcAssumption, SMT DEF Slot
<1>2. \E i \in S : \A j \in S : i <= j
  BY <1>1, Least
<1>. QED  BY <1>2 DEF First

(* Among the slots of a nonempty set there is one with the smallest        *)
(* priority value: induction on the highest slot of the set.               *)
LEMMA BestSlot ==
  ASSUME NEW f \in [Slot -> Int], NEW S, S \subseteq Slot, S # {}
  PROVE  \E i \in S : \A j \in S : f[i] <= f[j]
<1>. DEFINE Hasbest(R) == \E i \in R : \A j \in R : f[i] <= f[j]
            Bad == {n \in Nat : \E R \in SUBSET (Slot \cap 1..n) : R # {} /\ ~Hasbest(R)}
<1>1. SUFFICES ASSUME ~Hasbest(S) PROVE FALSE
  OBVIOUS
<1>2. Bad # {}
  <2>1. NPROC \in Nat /\ S \in SUBSET (Slot \cap 1..NPROC)
    BY ProcAssumption DEF Slot
  <2>. QED  BY <1>1, <2>1
<1>3. PICK n \in Bad : \A k \in Bad : n <= k
  <2>1. Bad \subseteq Nat
    OBVIOUS
  <2>. HIDE DEF Bad
  <2>. QED  BY <1>2, <2>1, Least
<1>4. PICK R \in SUBSET (Slot \cap 1..n) : R # {} /\ ~Hasbest(R)
  OBVIOUS
<1> USE <1>4
<1>5. n \in Nat /\ n # 0
  BY SMT
<1>6. n - 1 \in Nat /\ n - 1 \notin Bad
  BY <1>3, <1>5, SMT
<1>7. R \ {n} \in SUBSET (Slot \cap 1..(n - 1))
  BY <1>5, SMT
<1>8. n \in R
  <2>1. n \notin R => R = R \ {n}
    OBVIOUS
  <2>. QED  BY <1>6, <1>7, <2>1
<1>9. R \ {n} # {}
  BY <1>8, SMT DEF Slot
<1>10. Hasbest(R \ {n})
  BY <1>6, <1>7, <1>9
<1>11. PICK i \in R \ {n} : \A j \in R \ {n} : f[i] <= f[j]
  BY <1>10
<1>12. f[i] \in Int /\ f[n] \in Int /\ \A j \in R : f[j] \in Int
  BY <1>8
<1>13. CASE f[i] <= f[n]
  BY <1>11, <1>13
<1>14. CASE ~(f[i] <= f[n])
  BY <1>8, <1>11, <1>12, <1>14, SMT
<1>. QED  BY <1>13, <1>14

(* The inner loop of scheduler() ends with a runnable process that no       *)
(* runnable process has a smaller priority value than.                      *)
LEMMA HighPIsBest ==
  ASSUME TypeOK, NEW p, Runnable # {}
  PROVE  HighP(p) \in Runnable /\ \A j \in Runnable : priority[HighP(p)] <= priority[j]
<1>. DEFINE best == {i \in Runnable : \A j \in Runnable : priority[i] <= priority[j]}
<1>1. Runnable \subseteq Slot
  BY DEF Runnable
<1>2. best # {} /\ best \subseteq Slot
  BY <1>1, BestSlot DEF TypeOK
<1>3. First(best) \in best
  BY <1>2, FirstSlot
<1>. QED  BY <1>3 DEF HighP

-----------------------------------------------------------------------------
(* What the processes and the CPUs may rely on.                             *)

(* The scheduler picks a runnable process.                                  *)
LEMMA PickFacts ==
  ASSUME TypeOK, NEW c \in CPU, Ahead(c) # {}
  PROVE  LET h == HighP(First(Ahead(c)))
         IN  h \in Slot /\ state[h] = "RUNNABLE" /\ \A j \in Runnable : priority[h] <= priority[j]
<1>1. Runnable # {}
  BY DEF Ahead
<1>. QED  BY <1>1, HighPIsBest DEF Runnable

(* allocproc takes an unused slot. *)
LEMMA UnusedFacts ==
  ASSUME Unused # {}
  PROVE  First(Unused) \in Slot /\ state[First(Unused)] = "UNUSED"
BY FirstSlot DEF Unused

(* wait() frees a zombie that is a child of the caller. *)
LEMMA ZombieFacts ==
  ASSUME NEW i \in Slot, Zombies(i) # {}
  PROVE  LET z == First(Zombies(i))
         IN  z \in Slot /\ state[z] = "ZOMBIE" /\ parent[z] = i
BY FirstSlot DEF Zombies, Children

(* kill and chpr change the slot they have found. *)
LEMMA PidFacts ==
  ASSUME NEW n, WithPid(n) # {}
  PROVE  First(WithPid(n)) \in Slot
BY FirstSlot DEF WithPid

(* So the scans that the proofs of the actions rely on succeed. *)
LEMMA ScansSucceed == TypeOK => Scans
<1>. SUFFICES ASSUME TypeOK PROVE Scans
  OBVIOUS
<1>1. \A S \in SUBSET Slot : S # {} => First(S) \in S
  BY FirstSlot
<1>2. \A c \in CPU : Ahead(c) # {} => HighP(First(Ahead(c))) \in Runnable
  BY PickFacts DEF Runnable
<1>. QED  BY <1>1, <1>2 DEF Scans

-----------------------------------------------------------------------------
(* Type correctness.                                                        *)

(* Init establishes the invariant. *)
LEMMA InitInv == Init => ProcInv
<1>. SUFFICES ASSUME Init PROVE ProcInv
  OBVIOUS
<1>1. initproc \in Slot /\ NPROC \in Nat /\ NoProc \notin Slot
  BY ProcAssumption, SMT DEF initproc, Slot, NoProc
<1>2. TypeOK
  BY <1>1, ProcAssumption, SMT DEF Init, TypeOK, States, Ctx, Pc
<1>3. CpuInv
  BY ProcAssumption DEF Init, CpuInv, OneCpu
<1>4. SwitchInv
  BY DEF Init, SwitchInv, Ctx
<1>5. ForkInv
  BY DEF Init, ForkInv
<1>6. TreeInv
  BY <1>1 DEF Init, TreeInv, LiveParent, Live, Created
<1>7. PidInv /\ WaitInv
  BY SMT DEF Init, PidInv, PidUnique, WaitInv, NoMissedZombie, NoKilledWaiter
<1>. QED  BY <1>2, <1>3, <1>4, <1>5, <1>6, <1>7 DEF ProcInv, TableInv

(* Every step keeps the types: in particular the scheduler's loop variable  *)
(* stays within the table although it is set to the chosen process.         *)
LEMMA TypeStep ==
  ASSUME ProcInv, Next
  PROVE  TypeOK'
<1>. USE DEF slotVars, cpuVars
<1>t. TypeOK
  BY DEF ProcInv
<1>n. NPROC \in Nat /\ initproc \in Slot /\ Slot = 1..NPROC
  BY ProcAssumption, SMT DEF initproc, Slot
<1>1. ASSUME NEW c \in CPU, scheduler_acquire(c) PROVE TypeOK'
  BY <1>t, <1>n, <1>1, SMT DEF TypeOK, scheduler_acquire
<1>2. ASSUME NEW c \in CPU, scheduler_run(c) PROVE TypeOK'
  <2>1. PICK h \in Slot : /\ cproc' = [cproc EXCEPT ![c] = h]
                         /\ state' = [state EXCEPT ![h] = "RUNNING"]
                         /\ next' = [next EXCEPT ![c] = h + 1]
    BY <1>t, <1>2, PickFacts DEF scheduler_run
  <2>2. UNCHANGED <<pid, parent, chan, killed, priority, ctx, pc, child, lock, nextpid, asked>>
    BY <1>2 DEF scheduler_run
  <2>3. h + 1 \in 1..(NPROC + 1)
    BY <1>n, SMT
  <2>4. next' \in [CPU -> 1..(NPROC + 1)]
    BY <1>t, <2>1, <2>3 DEF TypeOK
  <2>. QED  BY <1>t, <2>1, <2>2, <2>4 DEF TypeOK, States
<1>3. ASSUME NEW c \in CPU, scheduler_release(c) PROVE TypeOK'
  BY <1>t, <1>3 DEF TypeOK, scheduler_release
<1>4. ASSUME NEW c \in CPU, sched(c) PROVE TypeOK'
  BY <1>t, <1>4 DEF TypeOK, sched
<1>5. ASSUME NEW c \in CPU, init_exits(c) PROVE TypeOK'
  BY <1>t, <1>5 DEF TypeOK, init_exits, Pc
<1>6. ASSUME NEW c \in CPU, panic(c) PROVE TypeOK'
  BY <1>t, <1>6 DEF TypeOK, panic, vars
<1>7. ASSUME NEW c \in CPU, NEW i \in Slot, resume(c, i) PROVE TypeOK'
  BY <1>t, <1>7 DEF TypeOK, resume, Ctx
<1>8. ASSUME NEW c \in CPU, NEW i \in Slot, fork_fails(c, i) PROVE TypeOK'
  BY <1>t, <1>8 DEF TypeOK, fork_fails, States, Pc
<1>9. ASSUME NEW c \in CPU, NEW i \in Slot, allocproc_done(c, i) PROVE TypeOK'
  BY <1>t, <1>9 DEF TypeOK, allocproc_done, Ctx, Pc
<1>10. ASSUME NEW c \in CPU, NEW i \in Slot, fork_copied(c, i) PROVE TypeOK'
  BY <1>t, <1>10 DEF TypeOK, fork_copied, Pc
<1>11. ASSUME NEW c \in CPU, NEW i \in Slot, fork_done(c, i) PROVE TypeOK'
  BY <1>t, <1>11 DEF TypeOK, fork_done, States, Pc
<1>12. ASSUME NEW c \in CPU, NEW i \in Slot, wait(c, i) PROVE TypeOK'
  <2>1. UNCHANGED <<priority, pc, child, cproc, next, nextpid, asked>>
    BY <1>12, WaitFacts
  <2>2. ASSUME wait_reap(c, i) PROVE TypeOK'
    BY <1>t, <2>1, <2>2 DEF TypeOK, wait_reap, States, Ctx
  <2>3. ASSUME wait_return(c, i) PROVE TypeOK'
    BY <1>t, <2>1, <2>3 DEF TypeOK, wait_return, Ctx
  <2>4. ASSUME wait_sleep(c, i) PROVE TypeOK'
    BY <1>t, <2>1, <2>4 DEF TypeOK, wait_sleep, States, Ctx
  <2>. QED  BY <1>12, <2>2, <2>3, <2>4 DEF wait
<1>13. ASSUME NEW c \in CPU, NEW i \in Slot, fork(c, i) PROVE TypeOK'
  <2>1. First(Unused) \in Slot
    BY <1>13, UnusedFacts DEF fork
  <2>. QED  BY <1>t, <1>13, <2>1, SMT DEF TypeOK, fork, States, Pc
<1>14. ASSUME NEW c \in CPU, NEW i \in Slot, exec(c, i) PROVE TypeOK'
  BY <1>t, <1>14, SMT DEF TypeOK, exec
<1>15. ASSUME NEW c \in CPU, NEW i \in Slot, exit(c, i) PROVE TypeOK'
  <2>. DEFINE W == {parent[i]} \cup IF Zombies(i) # {} THEN {initproc} ELSE {}
  <2>1. wakeup1(W) \in [Slot -> States] /\ state' = [wakeup1(W) EXCEPT ![i] = "ZOMBIE"]
    BY <1>t, <1>15, WakeupFacts DEF exit
  <2>2. state' \in [Slot -> States]
    BY <2>1 DEF States
  <2>. QED  BY <1>t, <1>n, <1>15, <2>2 DEF TypeOK, exit, Ctx
<1>16. ASSUME NEW c \in CPU, NEW i \in Slot, NEW ch \in IoChan, sleep(c, i, ch) PROVE TypeOK'
  BY <1>t, <1>16 DEF TypeOK, sleep, States, Ctx
<1>17. ASSUME NEW c \in CPU, NEW i \in Slot, NEW n \in PidArg, kill(c, i, n) PROVE TypeOK'
  <2>1. n \in Nat
    BY ProcAssumption
  <2>. QED  BY <1>t, <1>17, <2>1, SMT DEF TypeOK, kill, States
<1>18. ASSUME NEW c \in CPU, NEW i \in Slot, NEW n \in PidArg, NEW pr \in Prio, chpr(c, i, n, pr)
       PROVE  TypeOK'
  <2>1. pr \in Int
    BY ProcAssumption
  <2>. QED  BY <1>t, <1>18, <2>1 DEF TypeOK, chpr
<1>19. ASSUME NEW c \in CPU, NEW i \in Slot, yield(c, i) PROVE TypeOK'
  BY <1>t, <1>19 DEF TypeOK, yield, States, Ctx
<1>20. ASSUME NEW ch \in IoChan, wakeup(ch) PROVE TypeOK'
  BY <1>t, <1>20, WakeupFacts DEF TypeOK, wakeup
<1>. QED
  BY <1>1, <1>2, <1>3, <1>4, <1>5, <1>6, <1>7, <1>8, <1>9, <1>10, <1>11, <1>12, <1>13, <1>14, <1>15, <1>16, <1>17, <1>18, <1>19,
     <1>20 DEF Next, SchedulerStep, KernelStep, SystemCall

-----------------------------------------------------------------------------
(* The theorems.                                                            *)

(* Every step of the kernel keeps the process table consistent.             *)
LEMMA TableStep ==
  ASSUME ProcInv, Next
  PROVE  TableInv'
<1>s. Scans
  BY ScansSucceed DEF ProcInv
<1>1. ASSUME NEW c \in CPU, SchedulerStep(c) PROVE TableInv'
  BY <1>1, <1>s, TableSchedulerLock, TableRun, TableSched DEF SchedulerStep
<1>2. ASSUME NEW c \in CPU, panic(c) PROVE TableInv'
  BY <1>2, TableQuiet DEF panic, vars, slotVars, cpuVars
<1>3. ASSUME NEW c \in CPU, init_exits(c) PROVE TableInv'
  <2>1. /\ pc[initproc] = "user" /\ pc' = [pc EXCEPT ![initproc] = "panic"]
        /\ UNCHANGED <<state, pid, parent, chan, killed, ctx, child, lock, cproc, nextpid>>
    BY <1>3 DEF init_exits, User, slotVars, cpuVars
  <2>. USE DEF ProcInv, TableInv
  <2>2. ForkInv'
    BY <2>1, SMT DEF ForkInv, TypeOK
  <2>3. CpuInv' /\ SwitchInv'
    BY <2>1 DEF CpuInv, OneCpu, SwitchInv
  <2>4. TreeInv' /\ PidInv'
    BY <2>1 DEF TreeInv, LiveParent, PidInv, PidUnique
  <2>5. WaitInv'
    BY <2>1 DEF WaitInv, NoMissedZombie, NoKilledWaiter, Zombies, Children
  <2>. QED  BY <2>2, <2>3, <2>4, <2>5
<1>4. ASSUME NEW c \in CPU, NEW i \in Slot, KernelStep(c, i) PROVE TableInv'
  BY <1>4, TableResume, TableForkStep, TableForkEnd DEF KernelStep
<1>5. ASSUME NEW c \in CPU, NEW i \in Slot, wait(c, i) PROVE TableInv'
  BY <1>5, <1>s, TableWaitReap, TableWaitReturn, TableWaitSleep DEF wait
<1>6. ASSUME NEW c \in CPU, NEW i \in Slot, exec(c, i) PROVE TableInv'
  BY <1>6, TableQuiet DEF exec, cpuVars
<1>7. ASSUME NEW c \in CPU, NEW i \in Slot, NEW n, NEW pr, chpr(c, i, n, pr) PROVE TableInv'
  BY <1>7, TableQuiet DEF chpr, cpuVars
<1>8. ASSUME NEW c \in CPU, NEW i \in Slot, SystemCall(c, i) PROVE TableInv'
  BY <1>5, <1>6, <1>7, <1>8, <1>s, TableFork, TableExit, TableSleep, TableKill DEF SystemCall
<1>9. ASSUME NEW ch \in IoChan, wakeup(ch) PROVE TableInv'
  <2>1. lock = NoCpu /\ UNCHANGED <<pid, parent, chan, killed, ctx, pc, child, lock, cproc, nextpid>>
    BY <1>9 DEF wakeup, cpuVars
  <2>2. TypeOK /\ state' = wakeup1({ch})
    BY <1>9 DEF wakeup, ProcInv
  <2>. QED  BY <2>1, <2>2, WakeupFacts, TableWake
<1>. QED  BY <1>1, <1>2, <1>3, <1>4, <1>8, <1>9, TableYield DEF Next

LEMMA ProcStep == ProcInv /\ [Next]_vars => ProcInv'
<1>1. ASSUME ProcInv, Next PROVE ProcInv'
  BY <1>1, TypeStep, TableStep DEF ProcInv
<1>2. ASSUME ProcInv, UNCHANGED vars PROVE ProcInv'
  <2>1. TypeOK'
    BY <1>2 DEF vars, slotVars, cpuVars, ProcInv, TypeOK
  <2>. QED  BY <1>2, <2>1, TableQuiet DEF vars, slotVars, cpuVars, ProcInv
<1>. QED  BY <1>1, <1>2

(* ProcInv holds in every reachable state of the process table, for any     *)
(* number of slots and processors.                                          *)
THEOREM ProcInvariant == Spec => []ProcInv
BY InitInv, ProcStep, PTL DEF Spec

(* The fields of struct proc and struct cpu keep their types; the loop      *)
(* variable of scheduler() stays within the table.                          *)
THEOREM ProcTypeCorrect == Spec => []TypeOK
<1>1. ProcInv => TypeOK
  BY DEF ProcInv
<1>. QED  BY <1>1, ProcInvariant, PTL

(* scheduler(), sched() and yield(): no process executes on two CPUs.       *)
THEOREM NeverOnTwoCpus == Spec => []OneCpu
<1>1. ProcInv => OneCpu
  BY DEF ProcInv, TableInv, CpuInv
<1>. QED  BY <1>1, ProcInvariant, PTL

(* Outside ptable.lock, RUNNING means executing, and executing RUNNING.     *)
THEOREM RunningMeansOnCpu == Spec => []RunningOnCpu
<1>1. ProcInv => RunningOnCpu
  <2>. SUFFICES ASSUME ProcInv, lock = NoCpu, NEW i \in Slot
                PROVE  state[i] = "RUNNING" <=> \E c \in CPU : cproc[c] = i
    BY DEF RunningOnCpu
  <2>1. i # NoProc
    BY ProcAssumption, SMT DEF Slot, NoProc
  <2>. QED  BY <2>1, ProcAssumption, SMT DEF ProcInv, TableInv, CpuInv
<1>. QED  BY <1>1, ProcInvariant, PTL

(* exit(): a process past fork() has a live parent to wait() for it.        *)
THEOREM EveryoneHasLiveParent == Spec => []LiveParent
<1>1. ProcInv => LiveParent
  BY DEF ProcInv, TableInv, TreeInv
<1>. QED  BY <1>1, ProcInvariant, PTL

(* exit() and wait(): nobody sleeps in wait() with a zombie child.          *)
THEOREM NoWakeupLostByExit == Spec => []NoMissedZombie
<1>1. ProcInv => NoMissedZombie
  BY DEF ProcInv, TableInv, WaitInv
<1>. QED  BY <1>1, ProcInvariant, PTL

(* kill() and wait(): nobody sleeps in wait() after it was killed.          *)
THEOREM NoWakeupLostByKill == Spec => []NoKilledWaiter
<1>1. ProcInv => NoKilledWaiter
  BY DEF ProcInv, TableInv, WaitInv
<1>. QED  BY <1>1, ProcInvariant, PTL

(* allocproc(): the pids of the used slots are distinct.                    *)
THEOREM PidsAreUnique == Spec => []PidUnique
<1>1. ProcInv => PidUnique
  BY DEF ProcInv, TableInv, PidInv
<1>. QED  BY <1>1, ProcInvariant, PTL

(* The ways out of RUNNABLE and of ZOMBIE.                                   *)
Leaves(i) ==
  \/ state[i] \notin {"RUNNABLE", "ZOMBIE"}
  \/ /\ state[i] = "RUNNABLE" /\ state'[i] = "RUNNING"
     /\ \A j \in Runnable : priority[i] <= priority[j]
  \/ /\ state[i] = "ZOMBIE" /\ state'[i] = "UNUSED"
     /\ \E c \in CPU : cproc[c] = parent[i]

LEMMA StateChanges ==
  ASSUME ProcInv, Next, NEW k \in Slot, state'[k] # state[k]
  PROVE  Leaves(k)
<1>. USE DEF slotVars, cpuVars
<1>t. state \in [Slot -> States] /\ TypeOK
  BY DEF ProcInv, TypeOK
<1> USE <1>t
<1>1. ASSUME NEW c \in CPU, SchedulerStep(c) PROVE Leaves(k)
  <2>1. CASE scheduler_run(c)
    <3>1. PICK h \in Slot : /\ state[h] = "RUNNABLE" /\ state' = [state EXCEPT ![h] = "RUNNING"]
                           /\ \A j \in Runnable : priority[h] <= priority[j]
      BY <2>1, PickFacts DEF scheduler_run
    <3>. QED  BY <3>1 DEF Leaves
  <2>. QED  BY <1>1, <2>1 DEF SchedulerStep, scheduler_acquire, scheduler_release, sched
<1>2. ASSUME NEW c \in CPU, panic(c) \/ init_exits(c) PROVE Leaves(k)
  BY <1>2 DEF panic, init_exits, vars
<1>3. ASSUME NEW c \in CPU, NEW i \in Slot, KernelStep(c, i) PROVE Leaves(k)
  <2>1. CASE resume(c, i) \/ allocproc_done(c, i) \/ fork_copied(c, i)
    BY <2>1 DEF resume, allocproc_done, fork_copied
  <2>2. CASE fork_fails(c, i) \/ fork_done(c, i)
    <3>1. state[child[i]] = "EMBRYO" /\ child[i] \in Slot
      BY <2>2, ForkFacts DEF fork_fails, fork_done
    <3>2. k = child[i]
      BY <2>2, <3>1 DEF fork_fails, fork_done
    <3>. QED  BY <3>1, <3>2 DEF Leaves
  <2>. QED  BY <1>3, <2>1, <2>2 DEF KernelStep
<1>4. ASSUME NEW c \in CPU, NEW i \in Slot, wait(c, i) PROVE Leaves(k)
  <2>0. cproc[c] = i /\ state[i] = "RUNNING"
    BY <1>4, WaitFacts
  <2>1. CASE wait_reap(c, i)
    <3>1. PICK z \in Slot : /\ state[z] = "ZOMBIE" /\ parent[z] = i
                           /\ state' = [state EXCEPT ![z] = "UNUSED"]
      BY <2>1, ZombieFacts DEF wait_reap
    <3>. QED  BY <2>0, <3>1 DEF Leaves
  <2>2. CASE wait_return(c, i)
    BY <2>2 DEF wait_return
  <2>3. CASE wait_sleep(c, i)
    BY <2>0, <2>3 DEF wait_sleep, Leaves
  <2>. QED  BY <1>4, <2>1, <2>2, <2>3 DEF wait
<1>5. ASSUME NEW c \in CPU, NEW i \in Slot, fork(c, i) PROVE Leaves(k)
  BY <1>5, UnusedFacts DEF fork, Leaves
<1>6. ASSUME NEW c \in CPU, NEW i \in Slot, exec(c, i) PROVE Leaves(k)
  BY <1>6 DEF exec
<1>7. ASSUME NEW c \in CPU, NEW i \in Slot, NEW n, NEW pr, chpr(c, i, n, pr) PROVE Leaves(k)
  BY <1>7 DEF chpr
<1>8. ASSUME NEW c \in CPU, NEW i \in Slot, exit(c, i) PROVE Leaves(k)
  <2>. DEFINE W == {parent[i]} \cup IF Zombies(i) # {} THEN {initproc} ELSE {}
  <2>1. state[i] = "RUNNING" /\ state' = [wakeup1(W) EXCEPT ![i] = "ZOMBIE"]
    BY <1>8, RunsFacts DEF exit, User
  <2>2. wakeup1(W) \in [Slot -> States] /\ (wakeup1(W)[k] = state[k] \/ state[k] = "SLEEPING")
    BY WakeupFacts
  <2>. HIDE DEF W
  <2>. QED  BY <2>1, <2>2 DEF Leaves
<1>9. ASSUME NEW c \in CPU, NEW i \in Slot, NEW ch, sleep(c, i, ch) PROVE Leaves(k)
  BY <1>9, RunsFacts DEF sleep, User, Leaves
<1>10. ASSUME NEW c \in CPU, NEW i \in Slot, NEW n, kill(c, i, n) PROVE Leaves(k)
  <2>1. CASE WithPid(n) = {}
    BY <1>10, <2>1 DEF kill
  <2>2. CASE WithPid(n) # {}
    <3>1. PICK p \in Slot : state' = [state EXCEPT ![p] = IF @ = "SLEEPING" THEN "RUNNABLE" ELSE @]
      BY <1>10, <2>2, PidFacts DEF kill
    <3>. QED  BY <3>1 DEF Leaves
  <2>. QED  BY <2>1, <2>2
<1>11. ASSUME NEW c \in CPU, NEW i \in Slot, yield(c, i) PROVE Leaves(k)
  BY <1>11, RunsFacts DEF yield, Leaves
<1>12. ASSUME NEW ch, wakeup(ch) PROVE Leaves(k)
  BY <1>12, WakeupFacts DEF wakeup, Leaves
<1>. QED
  BY <1>1, <1>2, <1>3, <1>4, <1>5, <1>6, <1>7, <1>8, <1>9, <1>10, <1>11, <1>12 DEF Next, SystemCall

(* scheduler(): a process is started only when no runnable process has a    *)
(* smaller priority value.                                                  *)
THEOREM PriorityRespected == Spec => HighestFirst
<1>1. ASSUME ProcInv, [Next]_vars, NEW i \in Slot, state[i] = "RUNNABLE", state'[i] = "RUNNING"
      PROVE  \A j \in Runnable : priority[i] <= priority[j]
  <2> USE <1>1
  <2>1. state'[i] # state[i]
    OBVIOUS
  <2>2. Next
    BY <2>1 DEF vars, slotVars
  <2>. QED  BY <2>1, <2>2, StateChanges DEF Leaves
<1>2. ProcInv /\ [Next]_vars
        => [\A i \in Slot : state[i] = "RUNNABLE" /\ state'[i] = "RUNNING"
              => \A j \in Runnable : priority[i] <= priority[j]]_vars
  BY <1>1
<1>. QED  BY <1>2, ProcInvariant, PTL DEF Spec, HighestFirst

(* wait(): a zombie leaves the table only by the hand of its own parent,    *)
(* which is running.                                                        *)
THEOREM OnlyParentsReap == Spec => ZombieReapedByParent
<1>1. ASSUME ProcInv, [Next]_vars, NEW i \in Slot, state[i] = "ZOMBIE", state'[i] # "ZOMBIE"
      PROVE  state'[i] = "UNUSED" /\ \E c \in CPU : cproc[c] = parent[i]
  <2> USE <1>1
  <2>1. state'[i] # state[i]
    OBVIOUS
  <2>2. Next
    BY <2>1 DEF vars, slotVars
  <2>. QED  BY <2>1, <2>2, StateChanges DEF Leaves
<1>2. ProcInv /\ [Next]_vars
        => [\A i \in Slot : state[i] = "ZOMBIE" /\ state'[i] # "ZOMBIE"
              => state'[i] = "UNUSED" /\ \E c \in CPU : cproc[c] = parent[i]]_vars
  BY <1>1
<1>. QED  BY <1>2, ProcInvariant, PTL DEF Spec, ZombieReapedByParent

=============================================================================
