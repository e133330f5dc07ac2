----------------------------- MODULE AtomicDisk -----------------------------
(***************************************************************************)
(* What the logging layer (log.c) promises its callers: a file system call *)
(* brackets its block writes by begin_op() and end_op(); whatever instant  *)
(* the machine crashes at, the disk after recovery is the image the blocks *)
(* had at some moment when no call was under way.  A call is therefore     *)
(* never half done on the disk.                                            *)
(***************************************************************************)
CONSTANTS Proc, Block, Val

VARIABLES
  mem,      \* the blocks as the running kernel sees them
  stable,   \* the blocks as a crash followed by recovery would leave them
  active    \* the processes between begin_op and end_op

avars == <<mem, stable, active>>

Init ==
  /\ mem \in [Block -> Val]
  /\ stable = mem
  /\ active = {}

Begin(p) ==
  /\ p \notin active
  /\ active' = active \cup {p}
  /\ UNCHANGED <<mem, stable>>

Write(p, b, v) ==
  /\ p \in active
  /\ mem' = [mem EXCEPT ![b] = v]
  /\ UNCHANGED <<stable, active>>

End(p) ==
  /\ p \in active
  /\ active' = active \ {p}
  /\ UNCHANGED <<mem, stable>>

(* The group commit: only between calls, and all of memory at once. *)
Commit ==
  /\ active = {}
  /\ stable' = mem
  /\ UNCHANGED <<mem, active>>

Crash ==
  /\ mem' = stable
  /\ active' = {}
  /\ UNCHANGED stable

Next ==
  \/ \E p \in Proc : Begin(p) \/ End(p)
  \/ \E p \in Proc, b \in Block, v \in Val : Write(p, b, v)
  \/ Commit
  \/ Crash

Spec == Init /\ [][Next]_avars
=============================================================================
