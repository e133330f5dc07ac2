-------------------------------- MODULE Proc --------------------------------
(***************************************************************************)
(* The process table, the priority scheduler and sleep/wakeup (proc.c), on *)
(* several CPUs.                                                           *)
(*                                                                         *)
(* A critical section of ptable.lock that is released by the code that     *)
(* took it is one action.  The sections that end in sched() are not: the   *)
(* lock is handed to the scheduler of the CPU, from it to the next process *)
(* and only there released.  So "the process has changed its state", "the  *)
(* CPU is back on the scheduler's stack", "a process is chosen" and "the   *)
(* process has resumed" are steps of their own, and lock names the CPU     *)
(* that holds ptable.lock between them.                                    *)
(*                                                                         *)
(* A process that does not hold the lock may be preempted anywhere, also   *)
(* in the middle of fork, whose steps do not hold the lock throughout.     *)
(***************************************************************************)
EXTENDS Integers, FiniteSets

CONSTANTS
  NPROC,   \* slots of ptable.proc
  CPU,     \* processors
  NoCpu,   \* nobody holds ptable.lock
  IoChan,  \* channels other than the struct proc of a process in wait()
  PidArg,  \* pids passed to kill and chpr
  Prio,    \* priorities passed to chpr
  MaxPid   \* bound: processes created in a behaviour

Slot     == 1..NPROC
NoProc   == 0            \* the null struct proc pointer
initproc == 1

ASSUME ProcAssumption ==
  /\ NPROC \in Nat \ {0} /\ MaxPid \in Nat \ {0}
  /\ NoCpu \notin CPU
  /\ IoChan \cap (Slot \cup {NoProc}) = {}
  /\ PidArg \subseteq Nat /\ Prio \subseteq Int

VARIABLES
  state, pid, parent, chan, killed, priority,   \* struct proc
  ctx,      \* where p->context resumes: the caller of sched(), or forkret;
            \* "none" when the process is not inside sched()
  pc,       \* how far the process is in fork(); "user" outside, "panic" for good
  child,    \* np, the slot fork() is filling
  lock,     \* the CPU that holds ptable.lock
  cproc,    \* cpu->proc
  next,     \* the slot the scheduler's outer loop examines next
  nextpid,
  asked     \* history: the pids kill was called with

slotVars == <<state, pid, parent, chan, killed, priority>>
cpuVars  == <<lock, cproc, next>>
vars     == <<slotVars, ctx, pc, child, cpuVars, nextpid, asked>>

States  == {"UNUSED", "EMBRYO", "SLEEPING", "RUNNABLE", "RUNNING", "ZOMBIE"}
Ctx     == {"none", "forkret", "yield", "sleep", "wait", "exit"}
Pc      == {"user", "allocproc", "copyuvm", "ready", "panic"}
Created == {"SLEEPING", "RUNNABLE", "RUNNING", "ZOMBIE"}   \* past fork()
Live    == Created \ {"ZOMBIE"}

TypeOK ==
  /\ state \in [Slot -> States] /\ pid \in [Slot -> Nat]
  /\ parent \in [Slot -> Slot \cup {NoProc}]
  /\ chan \in [Slot -> Slot \cup {NoProc} \cup IoChan]
  /\ killed \in [Slot -> {0, 1}] /\ priority \in [Slot -> Int]
  /\ ctx \in [Slot -> Ctx] /\ pc \in [Slot -> Pc]
  /\ child \in [Slot -> Slot \cup {NoProc}]
  /\ lock \in CPU \cup {NoCpu}
  /\ cproc \in [CPU -> Slot \cup {NoProc}] /\ next \in [CPU -> 1..(NPROC + 1)]
  /\ nextpid \in Nat \ {0} /\ asked \in SUBSET Nat

(* After userinit(): the first process is in slot 1 and has not run yet. *)
Init ==
  /\ state = [i \in Slot |-> IF i = initproc THEN "RUNNABLE" ELSE "UNUSED"]
  /\ pid = [i \in Slot |-> IF i = initproc THEN 1 ELSE 0]
  /\ parent = [i \in Slot |-> NoProc] /\ chan = [i \in Slot |-> NoProc]
  /\ killed = [i \in Slot |-> 0]
  /\ priority = [i \in Slot |-> IF i = initproc THEN 10 ELSE 0]
  /\ ctx = [i \in Slot |-> IF i = initproc THEN "forkret" ELSE "none"]
  /\ pc = [i \in Slot |-> "user"] /\ child = [i \in Slot |-> NoProc]
  /\ lock = NoCpu /\ cproc = [c \in CPU |-> NoProc] /\ next = [c \in CPU |-> 1]
  /\ nextpid = 2 /\ asked = {}

-----------------------------------------------------------------------------
(* The scheduler. *)

Runnable_running == {i \in Slot : state[i] \in {"RUNNABLE", "RUNNING"}}

Runnable == {i \in Slot : state[i] = "RUNNABLE"}
First(S) == CHOOSE i \in S : \A j \in S : i <= j

HighP_inverted(p) ==
  LET best == {i \in Runnable : \A j \in Runnable : priority[i] >= priority[j]}
  IN  IF p \in best THEN p ELSE First(best)

(* What the inner loop of scheduler() leaves in highP when it starts with p: *)
(* p, or if p does not have the smallest priority value the first runnable  *)
(* slot that has it.  An equal value does not displace p.                   *)
HighP(p) ==
  LET best == {i \in Runnable : \A j \in Runnable : priority[i] <= priority[j]}
  IN  IF p \in best THEN p ELSE First(best)

scheduler_acquire(c) ==
  /\ cproc[c] = NoProc /\ lock = NoCpu
  /\ lock' = c /\ next' = [next EXCEPT ![c] = 1]
  /\ UNCHANGED <<slotVars, ctx, pc, child, cproc, nextpid, asked>>

Ahead(c) == {i \in Runnable : i >= next[c]}

(* Takes whatever comes next in the table. *)
scheduler_run_next(c) ==
  /\ cproc[c] = NoProc /\ lock = c /\ Ahead(c) # {}
  /\ LET h == First(Ahead(c))
     IN  /\ cproc' = [cproc EXCEPT ![c] = h]
         /\ state' = [state EXCEPT ![h] = "RUNNING"]
         /\ next' = [next EXCEPT ![c] = h + 1]
  /\ UNCHANGED <<pid, parent, chan, killed, priority, ctx, pc, child, lock, nextpid, asked>>

scheduler_run(c) ==
  /\ cproc[c] = NoProc /\ lock = c /\ Ahead(c) # {}
  /\ LET h == HighP(First(Ahead(c)))
     IN  /\ cproc' = [cproc EXCEPT ![c] = h]
         /\ state' = [state EXCEPT ![h] = "RUNNING"]
         /\ next' = [next EXCEPT ![c] = h + 1]
  /\ UNCHANGED <<pid, parent, chan, killed, priority, ctx, pc, child, lock, nextpid, asked>>

scheduler_release(c) ==
  /\ cproc[c] = NoProc /\ lock = c /\ Ahead(c) = {}
  /\ lock' = NoCpu
  /\ UNCHANGED <<slotVars, ctx, pc, child, cproc, next, nextpid, asked>>

(* swtch() to the scheduler, which clears c->proc. *)
sched(c) ==
  /\ cproc[c] # NoProc /\ lock = c /\ state[cproc[c]] # "RUNNING"
  /\ cproc' = [cproc EXCEPT ![c] = NoProc]
  /\ UNCHANGED <<slotVars, ctx, pc, child, lock, next, nextpid, asked>>

(* Back from swtch() in a process: the rest of sched's caller, up to the    *)
(* release of ptable.lock.  wait() does not release it yet.                 *)
Resumes(c, i) == cproc[c] = i /\ i # NoProc /\ lock = c /\ state[i] = "RUNNING"

resume(c, i) ==
  /\ Resumes(c, i) /\ ctx[i] \in {"forkret", "yield", "sleep"}
  /\ lock' = NoCpu /\ ctx' = [ctx EXCEPT ![i] = "none"]
  /\ chan' = IF ctx[i] = "sleep" THEN [chan EXCEPT ![i] = NoProc] ELSE chan
  /\ UNCHANGED <<state, pid, parent, killed, priority, pc, child, cproc, next, nextpid, asked>>

-----------------------------------------------------------------------------
(* What a process does while it runs. *)

Runs(c, i) == cproc[c] = i /\ i # NoProc /\ lock # c
User(c, i) == Runs(c, i) /\ pc[i] = "user"

(* Give up the CPU: from trap() on a clock tick, at any point where the     *)
(* process holds no spinlock.                                               *)
yield(c, i) ==
  /\ Runs(c, i) /\ pc[i] # "panic" /\ lock = NoCpu
  /\ lock' = c
  /\ state' = [state EXCEPT ![i] = "RUNNABLE"] /\ ctx' = [ctx EXCEPT ![i] = "yield"]
  /\ UNCHANGED <<pid, parent, chan, killed, priority, pc, child, cproc, next, nextpid, asked>>

(* sleep(ch, lk) with lk # &ptable.lock. *)
sleep(c, i, ch) ==
  /\ User(c, i) /\ lock = NoCpu
  /\ lock' = c
  /\ chan' = [chan EXCEPT ![i] = ch]
  /\ state' = [state EXCEPT ![i] = "SLEEPING"] /\ ctx' = [ctx EXCEPT ![i] = "sleep"]
  /\ UNCHANGED <<pid, parent, killed, priority, pc, child, cproc, next, nextpid, asked>>

Woken(i, chans) == state[i] = "SLEEPING" /\ chan[i] \in chans

(* The loop of wakeup1, for a set of channels. *)
wakeup1(chans) == [i \in Slot |-> IF Woken(i, chans) THEN "RUNNABLE" ELSE state[i]]

(* By a process or by an interrupt handler on any CPU. *)
wakeup(ch) ==
  /\ lock = NoCpu
  /\ state' = wakeup1({ch})
  /\ UNCHANGED <<pid, parent, chan, killed, priority, ctx, pc, child, cpuVars, nextpid, asked>>

(* The first slot with the pid, whatever its state. *)
WithPid(n) == {i \in Slot : pid[i] = n}

(* A sleeper is marked but not woken. *)
kill_no_wake(c, i, n) ==
  /\ User(c, i) /\ lock = NoCpu /\ asked' = asked \cup {n}
  /\ killed' = IF WithPid(n) = {} THEN killed ELSE [killed EXCEPT ![First(WithPid(n))] = 1]
  /\ UNCHANGED <<state, pid, parent, chan, priority, ctx, pc, child, cpuVars, nextpid>>

kill(c, i, n) ==
  /\ User(c, i) /\ lock = NoCpu
  /\ asked' = asked \cup {n}
  /\ IF WithPid(n) = {}
       THEN UNCHANGED <<state, killed>>
       ELSE LET p == First(WithPid(n))
            IN  /\ killed' = [killed EXCEPT ![p] = 1]
                /\ state' = [state EXCEPT ![p] = IF @ = "SLEEPING" THEN "RUNNABLE" ELSE @]
  /\ UNCHANGED <<pid, parent, chan, priority, ctx, pc, child, cpuVars, nextpid>>

(* The priority is stored as it comes. *)
chpr(c, i, n, pr) ==
  /\ User(c, i) /\ lock = NoCpu /\ WithPid(n) # {}
  /\ priority' = [priority EXCEPT ![First(WithPid(n))] = pr]
  /\ UNCHANGED <<state, pid, parent, chan, killed, ctx, pc, child, cpuVars, nextpid, asked>>

(* exec() commits to the new image. *)
exec(c, i) ==
  /\ User(c, i)
  /\ priority' = [priority EXCEPT ![i] = 2]
  /\ UNCHANGED <<state, pid, parent, chan, killed, ctx, pc, child, cpuVars, nextpid, asked>>

-----------------------------------------------------------------------------
(* fork, exit and wait. *)

Unused == {i \in Slot : state[i] = "UNUSED"}

(* fork up to the end of allocproc's critical section.  The slot keeps      *)
(* killed and parent from its last use.                                     *)
fork(c, i) ==
  /\ User(c, i) /\ lock = NoCpu /\ Unused # {} /\ nextpid <= MaxPid
  /\ LET np == First(Unused)
     IN  /\ state' = [state EXCEPT ![np] = "EMBRYO"]
         /\ pid' = [pid EXCEPT ![np] = nextpid]
         /\ priority' = [priority EXCEPT ![np] = 10]
         /\ child' = [child EXCEPT ![i] = np]
  /\ nextpid' = nextpid + 1
  /\ pc' = [pc EXCEPT ![i] = "allocproc"]
  /\ UNCHANGED <<parent, chan, killed, ctx, cpuVars, asked>>

(* kalloc or copyuvm has failed: the slot is given back without the lock,   *)
(* with its pid.                                                            *)
fork_fails(c, i) ==
  /\ Runs(c, i) /\ pc[i] \in {"allocproc", "copyuvm"}
  /\ state' = [state EXCEPT ![child[i]] = "UNUSED"]
  /\ child' = [child EXCEPT ![i] = NoProc] /\ pc' = [pc EXCEPT ![i] = "user"]
  /\ UNCHANGED <<pid, parent, chan, killed, priority, ctx, cpuVars, nextpid, asked>>

(* The new context is left as the last user of the slot left it. *)
allocproc_no_context(c, i) ==
  /\ Runs(c, i) /\ pc[i] = "allocproc"
  /\ pc' = [pc EXCEPT ![i] = "copyuvm"]
  /\ UNCHANGED <<slotVars, ctx, child, cpuVars, nextpid, asked>>

(* allocproc has a kernel stack and sets up the context. *)
allocproc_done(c, i) ==
  /\ Runs(c, i) /\ pc[i] = "allocproc"
  /\ ctx' = [ctx EXCEPT ![child[i]] = "forkret"]
  /\ pc' = [pc EXCEPT ![i] = "copyuvm"]
  /\ UNCHANGED <<slotVars, child, cpuVars, nextpid, asked>>

(* copyuvm has succeeded: np->parent = curproc, without the lock. *)
fork_copied(c, i) ==
  /\ Runs(c, i) /\ pc[i] = "copyuvm"
  /\ parent' = [parent EXCEPT ![child[i]] = i]
  /\ pc' = [pc EXCEPT ![i] = "ready"]
  /\ UNCHANGED <<state, pid, chan, killed, priority, ctx, child, cpuVars, nextpid, asked>>

fork_done(c, i) ==
  /\ Runs(c, i) /\ pc[i] = "ready" /\ lock = NoCpu
  /\ state' = [state EXCEPT ![child[i]] = "RUNNABLE"]
  /\ child' = [child EXCEPT ![i] = NoProc] /\ pc' = [pc EXCEPT ![i] = "user"]
  /\ UNCHANGED <<pid, parent, chan, killed, priority, ctx, cpuVars, nextpid, asked>>

Children(i) == {p \in Slot : parent[p] = i}
Zombies(i)  == {p \in Children(i) : state[p] = "ZOMBIE"}

(* Orphans that are zombies are handed over silently. *)
exit_silent_orphans(c, i) ==
  /\ User(c, i) /\ lock = NoCpu /\ i # initproc
  /\ lock' = c
  /\ state' = [wakeup1({parent[i]}) EXCEPT ![i] = "ZOMBIE"]
  /\ parent' = [p \in Slot |-> IF parent[p] = i THEN initproc ELSE parent[p]]
  /\ ctx' = [ctx EXCEPT ![i] = "exit"]
  /\ UNCHANGED <<pid, chan, killed, priority, pc, child, cproc, next, nextpid, asked>>

(* The children keep a parent that is gone. *)
exit_keeps_children(c, i) ==
  /\ User(c, i) /\ lock = NoCpu /\ i # initproc
  /\ lock' = c
  /\ state' = [wakeup1({parent[i]}) EXCEPT ![i] = "ZOMBIE"]
  /\ ctx' = [ctx EXCEPT ![i] = "exit"]
  /\ UNCHANGED <<pid, parent, chan, killed, priority, pc, child, cproc, next, nextpid, asked>>

(* The parent may be asleep in wait(); the children go to init, which is    *)
(* woken when one of them is a zombie already.                              *)
exit(c, i) ==
  /\ User(c, i) /\ lock = NoCpu /\ i # initproc
  /\ lock' = c
  /\ state' = [wakeup1({parent[i]} \cup IF Zombies(i) # {} THEN {initproc} ELSE {})
                  EXCEPT ![i] = "ZOMBIE"]
  /\ parent' = [p \in Slot |-> IF parent[p] = i THEN initproc ELSE parent[p]]
  /\ ctx' = [ctx EXCEPT ![i] = "exit"]
  /\ UNCHANGED <<pid, chan, killed, priority, pc, child, cproc, next, nextpid, asked>>

(* panic("init exiting") spins with interrupts off; the other CPUs go on    *)
(* until they print.                                                        *)
init_exits(c) ==
  /\ User(c, initproc)
  /\ pc' = [pc EXCEPT ![initproc] = "panic"]
  /\ UNCHANGED <<slotVars, ctx, child, cpuVars, nextpid, asked>>

panic(c) == cproc[c] = initproc /\ pc[initproc] = "panic" /\ UNCHANGED vars

(* Takes the first zombie, whoever its parent is. *)
wait_reap_any(c, i) ==
  /\ \E p \in Slot : state[p] = "ZOMBIE"
  /\ LET z == First({p \in Slot : state[p] = "ZOMBIE"})
     IN  /\ state' = [state EXCEPT ![z] = "UNUSED"] /\ pid' = [pid EXCEPT ![z] = 0]
         /\ parent' = [parent EXCEPT ![z] = NoProc] /\ killed' = [killed EXCEPT ![z] = 0]
  /\ chan' = [chan EXCEPT ![i] = NoProc] /\ ctx' = [ctx EXCEPT ![i] = "none"]
  /\ lock' = NoCpu
  /\ UNCHANGED <<priority>>

(* One pass of the loop of wait(), with ptable.lock held by c: the first    *)
(* zombie child is freed, or there is nothing to wait for, or the process   *)
(* sleeps on its own struct proc.                                           *)
wait_reap(c, i) ==
  /\ Zombies(i) # {}
  /\ LET z == First(Zombies(i))
     IN  /\ state' = [state EXCEPT ![z] = "UNUSED"] /\ pid' = [pid EXCEPT ![z] = 0]
         /\ parent' = [parent EXCEPT ![z] = NoProc] /\ killed' = [killed EXCEPT ![z] = 0]
  /\ chan' = [chan EXCEPT ![i] = NoProc] /\ ctx' = [ctx EXCEPT ![i] = "none"]
  /\ lock' = NoCpu
  /\ UNCHANGED <<priority>>

wait_return(c, i) ==
  /\ Zombies(i) = {} /\ (Children(i) = {} \/ killed[i] = 1)
  /\ chan' = [chan EXCEPT ![i] = NoProc] /\ ctx' = [ctx EXCEPT ![i] = "none"]
  /\ lock' = NoCpu
  /\ UNCHANGED <<state, pid, parent, killed, priority>>

wait_sleep(c, i) ==
  /\ Zombies(i) = {} /\ Children(i) # {} /\ killed[i] = 0
  /\ state' = [state EXCEPT ![i] = "SLEEPING"]
  /\ chan' = [chan EXCEPT ![i] = i] /\ ctx' = [ctx EXCEPT ![i] = "wait"]
  /\ lock' = c
  /\ UNCHANGED <<pid, parent, killed, priority>>

(* From the system call, and again when sleep() returns. *)
wait(c, i) ==
  /\ \/ User(c, i) /\ lock = NoCpu
     \/ Resumes(c, i) /\ ctx[i] = "wait"
  /\ wait_reap(c, i) \/ wait_return(c, i) \/ wait_sleep(c, i)
  /\ UNCHANGED <<pc, child, cproc, next, nextpid, asked>>
-----------------------------------------------------------------------------
SchedulerStep(c) == scheduler_acquire(c) \/ scheduler_run(c) \/ scheduler_release(c) \/ sched(c)

(* A running fork goes on; a process that is back from swtch() goes on. *)
KernelStep(c, i) ==
  resume(c, i) \/ fork_fails(c, i) \/ allocproc_done(c, i) \/ fork_copied(c, i) \/ fork_done(c, i)

SystemCall(c, i) ==
  \/ wait(c, i) \/ fork(c, i) \/ exec(c, i) \/ exit(c, i)
  \/ \E ch \in IoChan : sleep(c, i, ch)
  \/ \E n \in PidArg : kill(c, i, n)
  \/ \E n \in PidArg, pr \in Prio : chpr(c, i, n, pr)

Next ==
  \/ \E c \in CPU : SchedulerStep(c) \/ init_exits(c) \/ panic(c)
  \/ \E c \in CPU, i \in Slot : KernelStep(c, i) \/ SystemCall(c, i) \/ yield(c, i)
  \/ \E ch \in IoChan : wakeup(ch)

Spec == Init /\ [][Next]_vars

(* A CPU keeps executing: its scheduler loops, a process that was switched  *)
(* to goes on, and the timer interrupts it.                                 *)
Fairness ==
  \A c \in CPU :
    /\ WF_vars(SchedulerStep(c))
    /\ \A i \in Slot : WF_vars(KernelStep(c, i)) /\ WF_vars(yield(c, i))
    /\ \A i \in Slot : WF_vars(Resumes(c, i) /\ wait(c, i))

FairSpec == Spec /\ Fairness

-----------------------------------------------------------------------------
(* Properties. *)

(* No process executes on two CPUs: ptable.lock stays held from the change  *)
(* of p->state until the scheduler has left the process's stack.            *)
OneCpu == \A c, d \in CPU : cproc[c] = cproc[d] /\ cproc[c] # NoProc => c = d

(* When nobody is inside ptable.lock, p->state says RUNNING exactly for the *)
(* processes that a CPU executes.                                           *)
RunningOnCpu ==
  lock = NoCpu => \A i \in Slot : state[i] = "RUNNING" <=> \E c \in CPU : cproc[c] = i

(* A process that is past fork() has a parent that can still wait() for it: *)
(* exit hands every child to init before the parent becomes a zombie.       *)
LiveParent ==
  \A i \in Slot \ {initproc} :
    state[i] \in Created => parent[i] # NoProc /\ state[parent[i]] \in Live

(* No lost wakeup between exit and wait: nobody sleeps in wait() while it   *)
(* has a zombie child, also not init when it inherits one.                  *)
NoMissedZombie ==
  \A i \in Slot : state[i] = "SLEEPING" /\ ctx[i] = "wait" => Zombies(i) = {}

(* kill cannot slip between the test of killed in wait() and the sleep.     *)
NoKilledWaiter ==
  \A i \in Slot : state[i] = "SLEEPING" /\ ctx[i] = "wait" => killed[i] = 0

(* kill and chpr find a process by its pid: no two used slots share one,    *)
(* and the slots fork fills are private to their creator.                   *)
PidUnique ==
  \A i, j \in Slot :
    state[i] # "UNUSED" /\ state[j] # "UNUSED" /\ pid[i] = pid[j] => i = j

(* A zombie's slot is given back by its own parent only, and the parent is  *)
(* running at that moment.                                                  *)
ZombieReapedByParent ==
  [][\A i \in Slot : state[i] = "ZOMBIE" /\ state'[i] # "ZOMBIE"
       => state'[i] = "UNUSED" /\ \E c \in CPU : cproc[c] = parent[i]]_vars

(* The scheduler never starts a process while one with a smaller priority   *)
(* value is runnable.                                                       *)
HighestFirst ==
  [][\A i \in Slot : state[i] = "RUNNABLE" /\ state'[i] = "RUNNING"
       => \A j \in Runnable : priority[i] <= priority[j]]_vars

Panicked == pc[initproc] = "panic"

(* A process whose priority value is smaller than that of every other       *)
(* process gets a CPU, unless the kernel panics.                            *)
Strongest(i) ==
  /\ state[i] = "RUNNABLE"
  /\ \A j \in Slot \ {i} : state[j] \in Live \cup {"EMBRYO"} => priority[i] < priority[j]
StrongestRuns == \A i \in Slot : Strongest(i) ~> ~Strongest(i) \/ Panicked

(* yield gives up the CPU "for one scheduling round": the others that are   *)
(* runnable, and no less urgent, get their turn.                            *)
Foremost(i) ==
  /\ state[i] = "RUNNABLE"
  /\ \A j \in Slot \ {i} : state[j] \in Live \cup {"EMBRYO"} => priority[i] <= priority[j]
RoundRobin == \A i \in Slot : Foremost(i) ~> ~Foremost(i) \/ Panicked

(* kill: "Kill the process with the given pid": a process is marked killed  *)
(* only when its own pid was given.  This does NOT hold: kill() finds free  *)
(* slots too, by the pid a failed fork() left there, and allocproc() does   *)
(* not clear killed.                                                        *)
KilledWasAsked ==
  \A i \in Slot : state[i] \in Created /\ killed[i] = 1 => pid[i] \in asked

-----------------------------------------------------------------------------
(* Why the table stays consistent: the parts of the inductive invariant.    *)

(* A CPU executes the process that its cproc names, which is RUNNING; only  *)
(* while the CPU holds ptable.lock is the process on its way in or out.     *)
CpuInv ==
  /\ OneCpu
  /\ \A c \in CPU : cproc[c] # NoProc =>
       IF lock # c THEN state[cproc[c]] = "RUNNING" /\ ctx[cproc[c]] = "none"
       ELSE \/ state[cproc[c]] = "RUNNING" /\ ctx[cproc[c]] \in Ctx \ {"none", "exit"}
            \/ state[cproc[c]] \in {"RUNNABLE", "SLEEPING", "ZOMBIE"}
  /\ \A i \in Slot : state[i] = "RUNNING" => \E c \in CPU : cproc[c] = i

(* A process off the CPU is inside sched(), and a sleeper's channel says    *)
(* what it waits for.                                                       *)
SwitchInv ==
  \A i \in Slot :
    /\ state[i] = "RUNNABLE" => ctx[i] \in Ctx \ {"none", "exit"}
    /\ state[i] = "SLEEPING" => \/ ctx[i] = "wait" /\ chan[i] = i
                                \/ ctx[i] = "sleep" /\ chan[i] \in IoChan
    /\ state[i] = "ZOMBIE" => ctx[i] = "exit"

(* The slot fork() fills belongs to one process, which is alive and neither *)
(* sleeps, waits nor exits meanwhile.                                       *)
ForkInv ==
  \A i \in Slot :
    /\ child[i] = NoProc <=> pc[i] \in {"user", "panic"}
    /\ child[i] # NoProc =>
         /\ state[i] \in {"RUNNING", "RUNNABLE"} /\ ctx[i] \in {"none", "yield"}
         /\ state[child[i]] = "EMBRYO" /\ \A j \in Slot \ {i} : child[j] # child[i]
         /\ pc[i] \in {"copyuvm", "ready"} => ctx[child[i]] = "forkret"
         /\ pc[i] = "ready" => parent[child[i]] = i

(* init is the root and never leaves. *)
TreeInv ==
  /\ state[initproc] \in Live /\ parent[initproc] = NoProc
  /\ \A i \in Slot : parent[i] # i
  /\ LiveParent

PidInv == PidUnique /\ \A i \in Slot : pid[i] < nextpid

WaitInv == NoMissedZombie /\ NoKilledWaiter

TableInv == CpuInv /\ SwitchInv /\ ForkInv /\ TreeInv /\ PidInv /\ WaitInv

ProcInv == TypeOK /\ TableInv
=============================================================================
