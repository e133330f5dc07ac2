------------------------------- MODULE Ticks --------------------------------
(***************************************************************************)
(* Timed sleeping (sysproc.c: sys_sleep, trap.c: the timer interrupt).     *)
(* ticks is an unsigned counter that wraps around at WRAP (2^32); n is     *)
(* compared with it as an unsigned number, so -1 is WRAP - 1.  A step is   *)
(* one hold of tickslock, except that a process that has tested killed     *)
(* goes to sleep in a step of its own, in which it still holds the lock.   *)
(***************************************************************************)
EXTENDS Naturals

CONSTANTS
    Sleeper,    \* the processes
    WRAP,       \* where ticks wraps around
    Times,      \* the values of n, as unsigned numbers
    MaxLate     \* bound: ticks that may pass before a woken process runs

VARIABLES
    ticks,
    pc,         \* where each process is in sys_sleep
    ticks0, n,
    killed,
    passed,     \* ghost: ticks since sys_sleep read ticks0
    late        \* ghost: ticks since the process could run

vars == <<ticks, pc, ticks0, n, killed, passed, late>>

Free == \A p \in Sleeper : pc[p] # "sleep"

(* Mutant: the time of waking up is computed, and compared, as a sum.      *)
Early_sum(t0, m) == ticks < (t0 + m) % WRAP

Early(t0, m) == (ticks + WRAP - t0) % WRAP < m

(* The loop of sys_sleep, from the test of the time to going to sleep or   *)
(* returning.                                                              *)
Loop(p, t0, m) ==
    pc' = [pc EXCEPT ![p] = IF ~Early(t0, m) THEN "slept"
                            ELSE IF killed[p] THEN "failed" ELSE "sleep"]

sys_sleep(p) == \E t \in Times :
    /\ pc[p] = "idle" /\ Free
    /\ ticks0' = [ticks0 EXCEPT ![p] = ticks]
    /\ n' = [n EXCEPT ![p] = t]
    /\ Loop(p, ticks, t)
    /\ UNCHANGED <<ticks, killed, passed, late>>

again(p) ==
    /\ pc[p] = "runnable" /\ Free
    /\ Loop(p, ticks0[p], n[p])
    /\ late' = [late EXCEPT ![p] = 0]
    /\ UNCHANGED <<ticks, ticks0, n, killed, passed>>

sleep(p) ==
    /\ pc[p] = "sleep"
    /\ pc' = [pc EXCEPT ![p] = "asleep"]
    /\ UNCHANGED <<ticks, ticks0, n, killed, passed, late>>

(* A call that is over; a killed process exits and another takes its place. *)
leave(p) ==
    /\ pc[p] \in {"slept", "failed"}
    /\ pc' = [pc EXCEPT ![p] = "idle"]
    /\ ticks0' = [ticks0 EXCEPT ![p] = 0]
    /\ n' = [n EXCEPT ![p] = 0]
    /\ killed' = [killed EXCEPT ![p] = FALSE]
    /\ passed' = [passed EXCEPT ![p] = 0]
    /\ late' = [late EXCEPT ![p] = 0]
    /\ UNCHANGED ticks

(* wakeup(&ticks)                                                          *)
Woken == [p \in Sleeper |-> IF pc[p] = "asleep" THEN "runnable" ELSE pc[p]]

timer ==
    /\ Free
    /\ \A p \in Sleeper : late[p] < MaxLate
    /\ ticks' = (ticks + 1) % WRAP
    /\ pc' = Woken
    /\ passed' = [p \in Sleeper |-> IF pc[p] \in {"runnable", "asleep"} THEN passed[p] + 1 ELSE passed[p]]
    /\ late' = [p \in Sleeper |-> IF pc[p] = "runnable" THEN late[p] + 1 ELSE 0]
    /\ UNCHANGED <<ticks0, n, killed>>

kill(p) ==
    /\ ~killed[p]
    /\ killed' = [killed EXCEPT ![p] = TRUE]
    /\ pc' = [pc EXCEPT ![p] = IF @ = "asleep" THEN "runnable" ELSE @]
    /\ UNCHANGED <<ticks, ticks0, n, passed, late>>

Init ==
    /\ ticks = 0
    /\ pc = [p \in Sleeper |-> "idle"]
    /\ ticks0 = [p \in Sleeper |-> 0]
    /\ n = [p \in Sleeper |-> 0]
    /\ killed = [p \in Sleeper |-> FALSE]
    /\ passed = [p \in Sleeper |-> 0]
    /\ late = [p \in Sleeper |-> 0]

Next == \/ timer
        \/ \E p \in Sleeper :
              sys_sleep(p) \/ again(p) \/ sleep(p) \/ kill(p) \/ leave(p)

Spec == Init /\ [][Next]_vars

-----------------------------------------------------------------------------
(* A process that sys_sleep returns 0 to has slept at least n ticks, also  *)
(* when ticks has wrapped around meanwhile.                                *)
SleptLongEnough == \A p \in Sleeper : pc[p] = "slept" => passed[p] >= n[p]

(* No process is asleep, or about to be, when its time has come: the timer *)
(* has woken it.                                                           *)
NobodyOversleeps == \A p \in Sleeper : pc[p] \in {"sleep", "asleep"} => passed[p] < n[p]
=============================================================================
