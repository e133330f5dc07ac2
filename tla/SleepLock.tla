------------------------------ MODULE SleepLock ------------------------------
(***************************************************************************)
(* A sleep lock (sleeplock.c) on top of sleep() and wakeup() (proc.c), at  *)
(* the granularity of the two spin locks involved: lk, the spin lock       *)
(* inside the sleep lock, and ptable.lock.  Between two steps of a process *)
(* any other process may run; kill() may wake a sleeper at any time.       *)
(*                                                                         *)
(* sched() hands ptable.lock to the scheduler, which releases it in the    *)
(* end (module Proc); here it is released when the process has left.       *)
(***************************************************************************)
EXTENDS Naturals

CONSTANTS
  Proc,     \* processes that use the lock
  NoProc    \* pid 0: nobody

ASSUME SleepLockAssumption == NoProc \notin Proc

VARIABLES
  locked, owner,    \* lk->locked, lk->pid
  lk, ptable,       \* who holds the spin locks lk->lk and ptable.lock
  asleep,           \* the processes that are SLEEPING on lk
  pc                \* where each process is, see Pc

vars == <<locked, owner, lk, ptable, asleep, pc>>

Pc == {"idle",       \* outside
       "acquire",    \* in acquiresleep, before acquire(&lk->lk)
       "while",      \* with lk->lk, at the test of the loop
       "sleeplock1", \* in sleep, before acquire(&ptable.lock)
       "unlk",       \* with both locks, before release(lk)
       "sched",      \* with ptable.lock, before the change to SLEEPING
       "asleep",     \* in sched(), asleep or already woken
       "held",       \* has the sleep lock
       "release",    \* in releasesleep, before acquire(&lk->lk)
       "clear",      \* with lk->lk
       "wakeup",     \* in wakeup, before acquire(&ptable.lock)
       "done"}       \* woken the sleepers, before release(&lk->lk)

TypeOK ==
  /\ locked \in {0, 1} /\ owner \in Proc \cup {NoProc}
  /\ lk \in Proc \cup {NoProc} /\ ptable \in Proc \cup {NoProc}
  /\ asleep \in SUBSET Proc /\ pc \in [Proc -> Pc]

Init ==
  /\ locked = 0 /\ owner = NoProc /\ lk = NoProc /\ ptable = NoProc
  /\ asleep = {} /\ pc = [p \in Proc |-> "idle"]

Goto(p, from, to) == pc[p] = from /\ pc' = [pc EXCEPT ![p] = to]

call_acquiresleep(p) ==
  /\ Goto(p, "idle", "acquire")
  /\ UNCHANGED <<locked, owner, lk, ptable, asleep>>

acquire_lk(p) ==
  /\ Goto(p, "acquire", "while") \/ Goto(p, "release", "clear")
  /\ lk = NoProc /\ lk' = p
  /\ UNCHANGED <<locked, owner, ptable, asleep>>

(* if(lk->locked) in place of while(lk->locked): no test after the sleep. *)
acquiresleep_barges(p) ==
  /\ Goto(p, "while", "held")
  /\ locked' = 1 /\ owner' = p /\ lk' = NoProc
  /\ UNCHANGED <<ptable, asleep>>

(* while(lk->locked) is over: the lock is taken and lk->lk released. *)
acquiresleep(p) ==
  /\ Goto(p, "while", "held") /\ locked = 0
  /\ locked' = 1 /\ owner' = p /\ lk' = NoProc
  /\ UNCHANGED <<ptable, asleep>>

(* The process spins instead of sleeping. *)
acquiresleep_spins(p) ==
  /\ Goto(p, "while", "acquire") /\ locked = 1
  /\ lk' = NoProc
  /\ UNCHANGED <<locked, owner, ptable, asleep>>

acquiresleep_waits(p) ==
  /\ Goto(p, "while", "sleeplock1") /\ locked = 1
  /\ UNCHANGED <<locked, owner, lk, ptable, asleep>>

(* acquire(&ptable.lock), and only then *)
sleep_acquire(p) ==
  /\ Goto(p, "sleeplock1", "unlk")
  /\ ptable = NoProc /\ ptable' = p
  /\ UNCHANGED <<locked, owner, lk, asleep>>

(* release(lk): a releasesleep may start, but its wakeup has to wait. *)
sleep_release(p) ==
  /\ Goto(p, "unlk", "sched")
  /\ lk' = NoProc
  /\ UNCHANGED <<locked, owner, ptable, asleep>>

sleep_sched(p) ==
  /\ Goto(p, "sched", "asleep")
  /\ asleep' = asleep \cup {p} /\ ptable' = NoProc
  /\ UNCHANGED <<locked, owner, lk>>

(* Woken and scheduled again: chan is cleared, ptable.lock released, and    *)
(* lk->lk wanted again.                                                     *)
sleep_return(p) ==
  /\ Goto(p, "asleep", "acquire")
  /\ p \notin asleep /\ ptable = NoProc
  /\ UNCHANGED <<locked, owner, lk, ptable, asleep>>

call_releasesleep(p) ==
  /\ Goto(p, "held", "release")
  /\ UNCHANGED <<locked, owner, lk, ptable, asleep>>

releasesleep(p) ==
  /\ Goto(p, "clear", "wakeup")
  /\ locked' = 0 /\ owner' = NoProc
  /\ UNCHANGED <<lk, ptable, asleep>>

(* Only one of the sleepers is woken. *)
wakeup_one(p) ==
  /\ Goto(p, "wakeup", "done")
  /\ ptable = NoProc
  /\ \/ asleep' \in {asleep \ {q} : q \in asleep}
     \/ asleep = {} /\ asleep' = {}
  /\ UNCHANGED <<locked, owner, lk, ptable>>

(* wakeup(lk), one critical section of ptable.lock. *)
wakeup(p) ==
  /\ Goto(p, "wakeup", "done")
  /\ ptable = NoProc
  /\ asleep' = {}
  /\ UNCHANGED <<locked, owner, lk, ptable>>

releasesleep_done(p) ==
  /\ Goto(p, "done", "idle")
  /\ lk' = NoProc
  /\ UNCHANGED <<locked, owner, ptable, asleep>>

(* kill() from outside wakes the process; acquiresleep does not look at     *)
(* killed and goes back to sleep.                                           *)
kill(p) ==
  /\ p \in asleep /\ ptable = NoProc
  /\ asleep' = asleep \ {p}
  /\ UNCHANGED <<locked, owner, lk, ptable, pc>>

(* What a process does once it is in one of the functions. *)
Step(p) ==
  \/ acquire_lk(p) \/ acquiresleep(p) \/ acquiresleep_waits(p)
  \/ sleep_acquire(p) \/ sleep_release(p) \/ sleep_sched(p) \/ sleep_return(p)
  \/ releasesleep(p) \/ wakeup(p) \/ releasesleep_done(p)

Next == \E p \in Proc : call_acquiresleep(p) \/ Step(p) \/ call_releasesleep(p) \/ kill(p)

Spec == Init /\ [][Next]_vars

(* A process inside the functions keeps running, one that holds the sleep   *)
(* lock gives it back, and the calls of kill() come to an end: a spin lock  *)
(* is not fair, and a process that is woken without end could keep lk->lk   *)
(* from the one that wants to release.                                      *)
Fairness ==
  /\ \A p \in Proc : WF_vars(Step(p)) /\ WF_vars(call_releasesleep(p))
  /\ <>[][\A p \in Proc : ~kill(p)]_vars

FairSpec == Spec /\ Fairness

-----------------------------------------------------------------------------
(* The holder, from the moment it is set up to the clearing of locked. *)
Holds(p) == pc[p] \in {"held", "release", "clear"}

(* At most one process holds the sleep lock, and locked and pid describe it *)
(* whenever the holder tests them, as holdingsleep() does.                  *)
MutualExclusion ==
  /\ \A p, q \in Proc : Holds(p) /\ Holds(q) => p = q
  /\ \A p \in Proc : Holds(p) => locked = 1 /\ owner = p

(* No wakeup is lost between releasesleep() and sleep(): a process sleeps   *)
(* on the lock only while somebody holds it or is about to wake the         *)
(* sleepers.                                                                *)
NoLostWakeup ==
  asleep # {} => locked = 1 \/ \E p \in Proc : pc[p] = "wakeup"

(* In acquiresleep() without the lock. *)
Waiting == \E p \in Proc : pc[p] \in {"acquire", "asleep"}

(* While somebody wants the lock, somebody gets it, again and again.        *)
SomebodyGetsIt == Waiting ~> \E p \in Proc : pc[p] = "held"

(* A sleeper is woken after the holder has released the lock.               *)
SleeperWakes == \A p \in Proc : p \in asleep ~> p \notin asleep

(* The lock is always passed on: acquiresleep and releasesleep together     *)
(* leave neither the lock idle nor a process asleep.                        *)
PassedOn == SomebodyGetsIt /\ SleeperWakes

-----------------------------------------------------------------------------
(* Why: who holds the spin locks at each place, and that a process on its   *)
(* way to sleep has seen the lock taken since it took lk->lk or ptable.lock.*)
LkHolder == {"while", "sleeplock1", "unlk", "clear", "wakeup", "done"}

LocksInv ==
  /\ \A p \in Proc : pc[p] \in LkHolder <=> lk = p
  /\ \A p \in Proc : pc[p] \in {"unlk", "sched"} <=> ptable = p
  /\ \A p \in asleep : pc[p] = "asleep"

SleepInv ==
  /\ \A p \in Proc : pc[p] \in {"sleeplock1", "unlk"} => locked = 1
  /\ \A p \in Proc : pc[p] = "sched" => locked = 1 \/ \E q \in Proc : pc[q] = "wakeup"
  /\ locked = 1 => owner \in Proc /\ Holds(owner)

LockInv == TypeOK /\ LocksInv /\ SleepInv /\ MutualExclusion /\ NoLostWakeup
=============================================================================
