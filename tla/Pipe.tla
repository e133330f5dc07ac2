-------------------------------- MODULE Pipe --------------------------------
(***************************************************************************)
(* A pipe (pipe.c) between processes that share its write end and          *)
(* processes that share its read end.  The steps are those of p->lock: a   *)
(* process that holds it moves byte by byte, sleeps or leaves.  kill()     *)
(* does not take p->lock and may come between the test of killed and the   *)
(* sleep.  sleep() and wakeup() are atomic here, which module SleepLock    *)
(* justifies.                                                              *)
(***************************************************************************)
EXTENDS Integers

CONSTANTS
  Writers, Readers,   \* processes with a file descriptor for the end
  Byte,
  PIPESIZE,
  UINT,               \* 2^32, where nread and nwrite wrap around
  MaxN,               \* bound of this model: bytes of one call
  NoProc              \* lock is free

Proc == Writers \cup Readers

ASSUME PipeAssumption ==
  /\ Writers \cap Readers = {} /\ NoProc \notin Proc
  /\ PIPESIZE \in Nat \ {0} /\ UINT \in Nat /\ UINT > PIPESIZE /\ UINT % PIPESIZE = 0

VARIABLES
  data, nread, nwrite, readopen, writeopen,   \* struct pipe
  lock,               \* who holds p->lock
  freed,              \* kfree(p) has happened
  pc,                 \* where each process is, see Pc
  left,               \* n - i of its call
  asleep,             \* SLEEPING: the writers on &nwrite, the readers on &nread
  killed,
  addr                \* the byte copied to a reader last

pipe == <<data, nread, nwrite, addr>>
open == <<readopen, writeopen, freed>>
vars == <<pipe, open, lock, pc, left, asleep, killed>>

Pc == {"user", "acquire", "loop", "sleep", "asleep", "copy", "close", "closed"}

TypeOK ==
  /\ data \in [0 .. PIPESIZE - 1 -> Byte] /\ addr \in Byte
  /\ nread \in 0 .. UINT - 1 /\ nwrite \in 0 .. UINT - 1
  /\ readopen \in BOOLEAN /\ writeopen \in BOOLEAN /\ freed \in BOOLEAN
  /\ lock \in Proc \cup {NoProc} /\ asleep \in SUBSET Proc /\ killed \in SUBSET Proc
  /\ pc \in [Proc -> Pc] /\ left \in [Proc -> Nat]

Init ==
  /\ data \in [0 .. PIPESIZE - 1 -> Byte] /\ addr \in Byte
  /\ nread = 0 /\ nwrite = 0 /\ readopen = TRUE /\ writeopen = TRUE /\ freed = FALSE
  /\ lock = NoProc /\ asleep = {} /\ killed = {}
  /\ pc = [p \in Proc |-> "user"] /\ left = [p \in Proc |-> 0]

Goto(p, from, to) == pc[p] = from /\ pc' = [pc EXCEPT ![p] = to]

Full == nwrite = (nread + PIPESIZE) % UINT

Empty == nread = nwrite

-----------------------------------------------------------------------------
(* sys_read and sys_write; a process that is killed exits instead. *)
call(p) ==
  /\ p \notin killed /\ Goto(p, "user", "acquire")
  /\ \E n \in 1 .. MaxN : left' = [left EXCEPT ![p] = n]
  /\ UNCHANGED <<pipe, open, lock, asleep, killed>>

(* acquire(&p->lock), at the start of a call and after sched() in sleep().  *)
acquire(p) ==
  /\ \/ Goto(p, "acquire", "loop")
     \/ Goto(p, "asleep", "loop") /\ p \notin asleep
  /\ lock = NoProc /\ lock' = p
  /\ UNCHANGED <<pipe, open, left, asleep, killed>>

-----------------------------------------------------------------------------

pipewrite_byte(p) ==
  /\ p \in Writers /\ pc[p] = "loop" /\ left[p] > 0 /\ ~Full
  /\ \E b \in Byte : data' = [data EXCEPT ![nwrite % PIPESIZE] = b]
  /\ nwrite' = (nwrite + 1) % UINT
  /\ left' = [left EXCEPT ![p] = @ - 1]
  /\ UNCHANGED <<nread, addr, open, lock, pc, asleep, killed>>

(* Nobody can read any more, or the writer is killed: return -1. *)
pipewrite_fails(p) ==
  /\ p \in Writers /\ left[p] > 0 /\ Full
  /\ ~readopen \/ p \in killed
  /\ Goto(p, "loop", "user") /\ lock' = NoProc
  /\ UNCHANGED <<pipe, open, left, asleep, killed>>

pipewrite_full(p) ==
  /\ p \in Writers /\ left[p] > 0 /\ Full
  /\ readopen /\ p \notin killed
  /\ Goto(p, "loop", "sleep")
  /\ UNCHANGED <<pipe, open, lock, left, asleep, killed>>

(* wakeup(&p->nread); sleep(&p->nwrite, &p->lock) *)
pipewrite_sleep(p) ==
  /\ p \in Writers /\ Goto(p, "sleep", "asleep") /\ lock' = NoProc
  /\ asleep' = (asleep \ Readers) \cup {p}
  /\ UNCHANGED <<pipe, open, left, killed>>

pipewrite_return(p) ==
  /\ p \in Writers /\ left[p] = 0
  /\ Goto(p, "loop", "user") /\ lock' = NoProc
  /\ asleep' = asleep \ Readers
  /\ UNCHANGED <<pipe, open, left, killed>>

-----------------------------------------------------------------------------
(* Empty and killed: return -1. *)
piperead_fails(p) ==
  /\ p \in Readers /\ Empty /\ writeopen /\ p \in killed
  /\ Goto(p, "loop", "user") /\ lock' = NoProc
  /\ UNCHANGED <<pipe, open, left, asleep, killed>>

piperead_empty(p) ==
  /\ p \in Readers /\ Empty /\ writeopen /\ p \notin killed
  /\ Goto(p, "loop", "sleep")
  /\ UNCHANGED <<pipe, open, lock, left, asleep, killed>>

piperead_sleep(p) ==
  /\ p \in Readers /\ Goto(p, "sleep", "asleep") /\ lock' = NoProc
  /\ asleep' = asleep \cup {p}
  /\ UNCHANGED <<pipe, open, left, killed>>

(* The loop is left with bytes in the pipe or at end of file. *)
piperead_copy(p) ==
  /\ p \in Readers /\ ~(Empty /\ writeopen)
  /\ Goto(p, "loop", "copy")
  /\ UNCHANGED <<pipe, open, lock, left, asleep, killed>>

(* The index is advanced before it is used. *)
piperead_byte_late(p) ==
  /\ p \in Readers /\ pc[p] = "copy" /\ left[p] > 0 /\ ~Empty
  /\ nread' = (nread + 1) % UINT /\ addr' = data[nread' % PIPESIZE]
  /\ left' = [left EXCEPT ![p] = @ - 1]
  /\ UNCHANGED <<data, nwrite, open, lock, pc, asleep, killed>>

piperead_byte(p) ==
  /\ p \in Readers /\ pc[p] = "copy" /\ left[p] > 0 /\ ~Empty
  /\ addr' = data[nread % PIPESIZE] /\ nread' = (nread + 1) % UINT
  /\ left' = [left EXCEPT ![p] = @ - 1]
  /\ UNCHANGED <<data, nwrite, open, lock, pc, asleep, killed>>

(* The reader leaves without telling the writers. *)
piperead_return_silent(p) ==
  /\ p \in Readers /\ (left[p] = 0 \/ Empty)
  /\ Goto(p, "copy", "user") /\ lock' = NoProc
  /\ UNCHANGED <<pipe, open, left, asleep, killed>>

piperead_return(p) ==
  /\ p \in Readers /\ (left[p] = 0 \/ Empty)
  /\ Goto(p, "copy", "user") /\ lock' = NoProc
  /\ asleep' = asleep \ Writers
  /\ UNCHANGED <<pipe, open, left, killed>>

-----------------------------------------------------------------------------
(* The processes that share p's end of the pipe. *)
End(p) == IF p \in Writers THEN Writers ELSE Readers

(* pipeclose runs for every close. *)
fileclose_always(p) ==
  /\ Goto(p, "user", "close")
  /\ UNCHANGED <<pipe, open, lock, left, asleep, killed>>

(* close() or exit(): the last one to close the end goes on to pipeclose.   *)
fileclose(p) ==
  /\ Goto(p, "user", IF \A q \in End(p) \ {p} : pc[q] \in {"close", "closed"}
                     THEN "close" ELSE "closed")
  /\ UNCHANGED <<pipe, open, lock, left, asleep, killed>>

(* One critical section; the page is freed after it, when no one is left.   *)
pipeclose(p) ==
  /\ Goto(p, "close", "closed") /\ lock = NoProc
  /\ writeopen' = (writeopen /\ p \notin Writers)
  /\ readopen' = (readopen /\ p \notin Readers)
  /\ asleep' = asleep \cap End(p)
  /\ freed' = (~readopen' /\ ~writeopen')
  /\ UNCHANGED <<pipe, lock, left, killed>>

(* kill(), with ptable.lock only. *)
kill(p) ==
  /\ pc[p] \notin {"close", "closed"}
  /\ killed' = killed \cup {p} /\ asleep' = asleep \ {p}
  /\ UNCHANGED <<pipe, open, lock, pc, left>>

-----------------------------------------------------------------------------
Step(p) ==
  \/ acquire(p)
  \/ pipewrite_byte(p) \/ pipewrite_fails(p) \/ pipewrite_full(p)
  \/ pipewrite_sleep(p) \/ pipewrite_return(p)
  \/ piperead_fails(p) \/ piperead_empty(p) \/ piperead_sleep(p)
  \/ piperead_copy(p) \/ piperead_byte(p) \/ piperead_return(p)
  \/ pipeclose(p)

Done == (\A p \in Proc : pc[p] = "closed") /\ UNCHANGED vars

Next == (\E p \in Proc : call(p) \/ Step(p) \/ fileclose(p) \/ kill(p)) \/ Done

Spec == Init /\ [][Next]_vars

-----------------------------------------------------------------------------
(* The bytes in the pipe, oldest first. *)
Queue == [k \in 1 .. (nwrite - nread) % UINT |-> data[(nread + k - 1) % PIPESIZE]]

Bytes == INSTANCE Fifo WITH queue <- Queue

(* The ring with its counters that wrap around is a queue of at most        *)
(* PIPESIZE bytes, for any interleaving of the readers and writers.         *)
FifoSpec == Bytes!Spec

(* The page is not used after pipeclose has freed it.                       *)
NoUseAfterFree == freed => lock = NoProc /\ \A p \in Proc : pc[p] = "closed"

(* A writer sleeps only on a full pipe that somebody may still read.        *)
NoForgottenWriter ==
  asleep \cap Writers # {} /\ lock = NoProc => Full /\ readopen

(* A reader sleeps only on an empty pipe that somebody may still write,     *)
(* unless a writer has been killed: pipewrite_fails wakes nobody, and the  *)
(* reader then waits for the next write or for the last writer to close.    *)
NoForgottenReader ==
  /\ asleep \cap Readers # {} /\ lock = NoProc /\ killed \cap Writers = {} => Empty
  /\ asleep \cap Readers # {} => writeopen

(* The page of the pipe is well formed until it is freed, and not used      *)
(* afterwards: pipeclose frees it for the last of the ends.                 *)
PageSafe == TypeOK /\ NoUseAfterFree

(* Nobody sleeps on a condition that no longer holds, so readers and        *)
(* writers never wait for each other.                                       *)
NoForgottenSleeper == NoForgottenWriter /\ NoForgottenReader

(* What kill() says of itself: it wakes the process from sleep if           *)
(* necessary, so that no process sleeps on after it has been killed.  This  *)
(* does NOT hold: killed is tested before sleep() takes ptable.lock, and a  *)
(* kill in between finds nobody to wake.                                    *)
NoKilledSleeper == asleep \cap killed = {}
=============================================================================
