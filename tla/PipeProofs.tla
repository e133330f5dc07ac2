----------------------------- MODULE PipeProofs -----------------------------
(***************************************************************************)
(* The pipe for any number of readers and writers, any PIPESIZE and any    *)
(* width of its counters: its page is not used after it is freed, nobody   *)
(* sleeps on a condition that no longer holds, and the ring is a queue.    *)
(***************************************************************************)
EXTENDS Pipe, Sequences, TLAPS

(* p->lock is held exactly in the loops and up to sleep().  When the last   *)
(* process closes an end, the others have closed it before.                 *)
HoldsInv == \A p \in Proc : lock = p <=> pc[p] \in {"loop", "sleep", "copy"}

EndsInv ==
  /\ \A p \in Proc : pc[p] = "close" => \A q \in End(p) \ {p} : pc[q] = "closed"
  /\ ~readopen => \A r \in Readers : pc[r] = "closed"
  /\ ~writeopen => \A w \in Writers : pc[w] = "closed"
  /\ freed => ~readopen /\ ~writeopen

(* What holds of the sleepers in the midst of a call, too: the condition    *)
(* they wait for may have come true, but then the process that made it true *)
(* still has the lock and will wake them, or it is a writer that was killed. *)
SleepersInv ==
  /\ \A p \in asleep : pc[p] = "asleep"
  /\ \A w \in Writers : pc[w] = "sleep" => Full /\ readopen
  /\ \A r \in Readers : pc[r] = "sleep" => Empty /\ writeopen
  /\ asleep \cap Writers # {} => readopen /\ (Full \/ \E r \in Readers : lock = r /\ pc[r] = "copy")
  /\ asleep \cap Readers # {} => writeopen /\ (Empty \/ killed \cap Writers # {} \/ \E w \in Writers : lock = w)

PipeInv == TypeOK /\ HoldsInv /\ EndsInv /\ SleepersInv

(* How a process moves: the others stay where they are. *)
LEMMA GotoFacts ==
  ASSUME pc \in [Proc -> Pc], NEW p \in Proc, NEW from \in Pc, NEW to \in Pc, Goto(p, from, to)
  PROVE  /\ pc' \in [Proc -> Pc] /\ pc[p] = from /\ pc'[p] = to
         /\ \A q \in Proc : q # p => pc'[q] = pc[q]
BY Zenon DEF Goto

LEMMA InitPipeInv == Init => PipeInv
<1> SUFFICES ASSUME Init PROVE PipeInv
  OBVIOUS
<1>1. TypeOK
  <2>1. 0 \in 0 .. UINT - 1
    BY PipeAssumption
  <2>2. pc \in [Proc -> Pc] /\ left \in [Proc -> Nat]
    BY DEF Init, Pc
  <2> QED  BY <2>1, <2>2, Zenon DEF Init, TypeOK
<1>2. HoldsInv /\ EndsInv
  BY PipeAssumption DEF Init, HoldsInv, EndsInv, End, Proc
<1>3. SleepersInv
  BY DEF Init, SleepersInv, Proc
<1> QED
  BY <1>1, <1>2, <1>3 DEF PipeInv

(* The types: the counters stay below UINT and the index within the ring. *)
LEMMA StepTypeOK == TypeOK /\ [Next]_vars => TypeOK'
<1> SUFFICES ASSUME TypeOK, [Next]_vars PROVE TypeOK'
  OBVIOUS
<1> USE PipeAssumption DEF TypeOK, pipe, open
<1>1. ASSUME NEW p \in Proc, call(p) PROVE TypeOK'
  BY <1>1 DEF call, Goto, Pc
<1>2. ASSUME NEW p \in Proc, acquire(p) PROVE TypeOK'
  BY <1>2 DEF acquire, Goto, Pc
<1>3. ASSUME NEW p \in Proc, pipewrite_byte(p) PROVE TypeOK'
  BY <1>3 DEF pipewrite_byte
<1>4. ASSUME NEW p \in Proc, pipewrite_fails(p) \/ pipewrite_full(p) \/ pipewrite_sleep(p) \/ pipewrite_return(p) PROVE TypeOK'
  BY <1>4 DEF pipewrite_fails, pipewrite_full, pipewrite_sleep, pipewrite_return, Goto, Pc
<1>5. ASSUME NEW p \in Proc, piperead_fails(p) \/ piperead_empty(p) \/ piperead_sleep(p) \/ piperead_copy(p) \/ piperead_return(p) PROVE TypeOK'
  BY <1>5 DEF piperead_fails, piperead_empty, piperead_sleep, piperead_copy, piperead_return, Goto, Pc
<1>6. ASSUME NEW p \in Proc, piperead_byte(p) PROVE TypeOK'
  BY <1>6 DEF piperead_byte
<1>7. ASSUME NEW p \in Proc, fileclose(p) PROVE TypeOK'
  BY <1>7 DEF fileclose, Goto, Pc
<1>8. ASSUME NEW p \in Proc, pipeclose(p) PROVE TypeOK'
  BY <1>8 DEF pipeclose, Goto, Pc
<1>9. ASSUME NEW p \in Proc, kill(p) PROVE TypeOK'
  BY <1>9 DEF kill
<1>10. CASE UNCHANGED vars
  BY <1>10 DEF vars
<1> QED
  BY <1>1, <1>2, <1>3, <1>4, <1>5, <1>6, <1>7, <1>8, <1>9, <1>10 DEF Next, Step, Done

(* Locks, ends and sleepers, one step per action of the code. *)
LEMMA StepPipeInv == PipeInv /\ [Next]_vars => PipeInv'
<1> SUFFICES ASSUME PipeInv, [Next]_vars PROVE PipeInv'
  OBVIOUS
<1>t. TypeOK'
  BY StepTypeOK DEF PipeInv
<1> SUFFICES HoldsInv' /\ EndsInv' /\ SleepersInv'
  BY <1>t DEF PipeInv
<1>p. \A p \in Proc : (p \in Writers /\ p \notin Readers) \/ (p \in Readers /\ p \notin Writers)
  BY PipeAssumption DEF Proc
<1>i. TypeOK /\ HoldsInv /\ EndsInv /\ SleepersInv
  BY DEF PipeInv
<1> USE PipeAssumption, <1>t, <1>p, <1>i DEF TypeOK, HoldsInv, EndsInv, SleepersInv, pipe, open, Full, Empty, End, Proc
<1> HIDE DEF PipeInv
<1>1. ASSUME NEW p \in Proc, call(p) PROVE HoldsInv' /\ EndsInv' /\ SleepersInv'
  <2>1. pc[p] = "user" /\ pc'[p] = "acquire" /\ \A q \in Proc : q # p => pc'[q] = pc[q]
    BY <1>1 DEF call, Goto
  <2> QED  BY <1>1, <2>1 DEF call
<1>2. ASSUME NEW p \in Proc, acquire(p) PROVE HoldsInv' /\ EndsInv' /\ SleepersInv'
  <2>1. pc[p] \in {"acquire", "asleep"} /\ p \notin asleep /\ pc'[p] = "loop" /\ \A q \in Proc : q # p => pc'[q] = pc[q]
    BY <1>2 DEF acquire, Goto
  <2> QED  BY <1>2, <2>1 DEF acquire
<1>3. ASSUME NEW p \in Proc, pipewrite_byte(p) PROVE HoldsInv' /\ EndsInv' /\ SleepersInv'
  <2>1. lock = p /\ p \in Writers
    BY <1>3 DEF pipewrite_byte
  <2> QED  BY <1>3, <2>1 DEF pipewrite_byte
<1>4. ASSUME NEW p \in Proc, pipewrite_fails(p) PROVE HoldsInv' /\ EndsInv' /\ SleepersInv'
  <2>1. pc[p] = "loop" /\ lock = p /\ pc'[p] = "user" /\ \A q \in Proc : q # p => pc'[q] = pc[q]
    BY <1>4 DEF pipewrite_fails, Goto
  <2>2. asleep \cap Readers # {} => p \in killed
    BY <1>4 DEF pipewrite_fails
  <2> QED  BY <1>4, <2>1, <2>2 DEF pipewrite_fails
<1>5. ASSUME NEW p \in Proc, pipewrite_full(p) PROVE HoldsInv' /\ EndsInv' /\ SleepersInv'
  <2>1. pc[p] = "loop" /\ lock = p /\ pc'[p] = "sleep" /\ \A q \in Proc : q # p => pc'[q] = pc[q]
    BY <1>5 DEF pipewrite_full, Goto
  <2> QED  BY <1>5, <2>1 DEF pipewrite_full
<1>6. ASSUME NEW p \in Proc, pipewrite_sleep(p) PROVE HoldsInv' /\ EndsInv' /\ SleepersInv'
  <2>1. pc[p] = "sleep" /\ lock = p /\ pc'[p] = "asleep" /\ \A q \in Proc : q # p => pc'[q] = pc[q]
    BY <1>6 DEF pipewrite_sleep, Goto
  <2> QED  BY <1>6, <2>1 DEF pipewrite_sleep
<1>7. ASSUME NEW p \in Proc, pipewrite_return(p) PROVE HoldsInv' /\ EndsInv' /\ SleepersInv'
  <2>1. pc[p] = "loop" /\ lock = p /\ pc'[p] = "user" /\ \A q \in Proc : q # p => pc'[q] = pc[q]
    BY <1>7 DEF pipewrite_return, Goto
  <2> QED  BY <1>7, <2>1 DEF pipewrite_return
<1>8. ASSUME NEW p \in Proc, piperead_fails(p) PROVE HoldsInv' /\ EndsInv' /\ SleepersInv'
  <2>1. pc[p] = "loop" /\ lock = p /\ pc'[p] = "user" /\ \A q \in Proc : q # p => pc'[q] = pc[q]
    BY <1>8 DEF piperead_fails, Goto
  <2> QED  BY <1>8, <2>1 DEF piperead_fails
<1>9. ASSUME NEW p \in Proc, piperead_empty(p) PROVE HoldsInv' /\ EndsInv' /\ SleepersInv'
  <2>1. pc[p] = "loop" /\ lock = p /\ pc'[p] = "sleep" /\ \A q \in Proc : q # p => pc'[q] = pc[q]
    BY <1>9 DEF piperead_empty, Goto
  <2> QED  BY <1>9, <2>1 DEF piperead_empty
<1>10. ASSUME NEW p \in Proc, piperead_sleep(p) PROVE HoldsInv' /\ EndsInv' /\ SleepersInv'
  <2>1. pc[p] = "sleep" /\ lock = p /\ pc'[p] = "asleep" /\ \A q \in Proc : q # p => pc'[q] = pc[q]
    BY <1>10 DEF piperead_sleep, Goto
  <2> QED  BY <1>10, <2>1 DEF piperead_sleep
<1>11. ASSUME NEW p \in Proc, piperead_copy(p) PROVE HoldsInv' /\ EndsInv' /\ SleepersInv'
  <2>1. pc[p] = "loop" /\ lock = p /\ pc'[p] = "copy" /\ \A q \in Proc : q # p => pc'[q] = pc[q]
    BY <1>11 DEF piperead_copy, Goto
  <2> QED  BY <1>11, <2>1 DEF piperead_copy
<1>12. ASSUME NEW p \in Proc, piperead_byte(p) PROVE HoldsInv' /\ EndsInv' /\ SleepersInv'
  <2>1. lock = p /\ p \in Readers
    BY <1>12 DEF piperead_byte
  <2> QED  BY <1>12, <2>1 DEF piperead_byte
<1>13. ASSUME NEW p \in Proc, piperead_return(p) PROVE HoldsInv' /\ EndsInv' /\ SleepersInv'
  <2>1. pc[p] = "copy" /\ lock = p /\ pc'[p] = "user" /\ \A q \in Proc : q # p => pc'[q] = pc[q]
    BY <1>13 DEF piperead_return, Goto
  <2> QED  BY <1>13, <2>1 DEF piperead_return
<1>14. ASSUME NEW p \in Proc, fileclose(p) PROVE HoldsInv' /\ EndsInv' /\ SleepersInv'
  <2>1. pc[p] = "user" /\ pc'[p] \in {"close", "closed"} /\ \A q \in Proc : q # p => pc'[q] = pc[q]
    BY <1>14 DEF fileclose, Goto
  <2>2. pc'[p] = "close" => \A q \in End(p) \ {p} : pc[q] \in {"close", "closed"}
    BY <1>14 DEF fileclose, Goto
  <2> QED  BY <1>14, <2>1, <2>2 DEF fileclose
<1>15. ASSUME NEW p \in Proc, pipeclose(p) PROVE HoldsInv' /\ EndsInv' /\ SleepersInv'
  <2>1. pc[p] = "close" /\ pc'[p] = "closed" /\ \A q \in Proc : q # p => pc'[q] = pc[q]
    BY <1>15 DEF pipeclose, Goto
  <2> QED  BY <1>15, <2>1 DEF pipeclose
<1>16. ASSUME NEW p \in Proc, kill(p) PROVE HoldsInv' /\ EndsInv' /\ SleepersInv'
  BY <1>16 DEF kill
<1>17. CASE UNCHANGED vars
  BY <1>17 DEF vars
<1> QED
  BY <1>1, <1>2, <1>3, <1>4, <1>5, <1>6, <1>7, <1>8, <1>9, <1>10, <1>11, <1>12, <1>13, <1>14, <1>15, <1>16, <1>17
  DEF Next, Step, Done

(* The page of the pipe is not used after pipeclose has freed it, and a     *)
(* sleeper's condition holds whenever p->lock is free.                      *)
LEMMA PipeInvImplies == PipeInv => PageSafe /\ NoForgottenSleeper
<1> SUFFICES ASSUME PipeInv PROVE PageSafe /\ NoForgottenSleeper
  OBVIOUS
<1>1. NoUseAfterFree
  BY DEF PipeInv, HoldsInv, EndsInv, TypeOK, NoUseAfterFree, Proc
<1>2. NoForgottenSleeper
  BY PipeAssumption DEF PipeInv, SleepersInv, NoForgottenSleeper, NoForgottenWriter, NoForgottenReader, Proc
<1> QED
  BY <1>1, <1>2, Zenon DEF PipeInv, PageSafe

(* The invariant that the theorems below rest on. *)
THEOREM PipeInvariant == Spec => []PipeInv
BY InitPipeInv, StepPipeInv, PTL DEF Spec

(* pipeclose: no reader or writer, however many share an end, touches the   *)
(* page of a pipe that has been freed, and the page is well formed.         *)
THEOREM PipePageSafe == Spec => []PageSafe
BY PipeInvariant, PipeInvImplies, PTL

(* pipewrite, piperead and pipeclose wake whoever could go on: no writer    *)
(* sleeps on a pipe with room and no reader on a pipe with bytes.           *)
THEOREM PipeNoForgottenSleeper == Spec => []NoForgottenSleeper
BY PipeInvariant, PipeInvImplies, PTL

-----------------------------------------------------------------------------
(* Arithmetic modulo the size of the ring and the width of the counters. *)
LEMMA ModParts ==
  ASSUME NEW a \in Int, NEW m \in Int, m > 0
  PROVE  a = m * (a \div m) + (a % m) /\ a \div m \in Int /\ a % m \in 0 .. m - 1
BY Z3T(60)

LEMMA ModUnique ==
  ASSUME NEW m \in Int, m > 0, NEW q \in Int, NEW s \in Int, NEW r \in 0 .. m - 1, NEW t \in 0 .. m - 1, m * q + r = m * s + t
  PROVE  q = s /\ r = t
<1>1. m * (q - s) = t - r
  OBVIOUS
<1>2. q - s < 1
  <2>1. q - s >= 1 => m * (q - s) >= m
    OBVIOUS
  <2> QED  BY <1>1, <2>1
<1>3. q - s > -1
  <2>1. q - s <= -1 => m * (q - s) <= -m
    OBVIOUS
  <2> QED  BY <1>1, <2>1
<1> QED  BY <1>1, <1>2, <1>3

LEMMA ModIs ==
  ASSUME NEW m \in Int, m > 0, NEW q \in Int, NEW r \in 0 .. m - 1
  PROVE  (m * q + r) % m = r
<1> DEFINE a == m * q + r
<1>1. a \in Int
  OBVIOUS
<1>2. a = m * (a \div m) + (a % m) /\ a \div m \in Int /\ a % m \in 0 .. m - 1
  BY <1>1, ModParts
<1> QED  BY <1>1, <1>2, ModUnique

LEMMA ModShift ==
  ASSUME NEW a \in Int, NEW m \in Int, m > 0, NEW k \in Int
  PROVE  (a + m * k) % m = a % m
<1>1. a = m * (a \div m) + (a % m) /\ a \div m \in Int /\ a % m \in 0 .. m - 1
  BY ModParts
<1>2. a + m * k = m * ((a \div m) + k) + (a % m)
  BY <1>1
<1>3. (m * ((a \div m) + k) + (a % m)) % m = a % m
  BY <1>1, ModIs
<1> QED  BY <1>2, <1>3

LEMMA ModApart ==
  ASSUME NEW a \in Int, NEW m \in Int, m > 0, NEW d \in 1 .. m - 1
  PROVE  (a + d) % m # a % m
<1>1. a = m * (a \div m) + (a % m) /\ a \div m \in Int /\ a % m \in 0 .. m - 1
  BY ModParts
<1>2. a + d = m * ((a + d) \div m) + ((a + d) % m) /\ (a + d) \div m \in Int /\ (a + d) % m \in 0 .. m - 1
  BY ModParts
<1> SUFFICES ASSUME (a + d) % m = a % m PROVE FALSE
  OBVIOUS
<1>3. m * (((a + d) \div m) - (a \div m)) = d
  BY <1>1, <1>2
<1> DEFINE k == ((a + d) \div m) - (a \div m)
<1>4. k \in Int /\ m * k = d
  BY <1>1, <1>2, <1>3
<1> HIDE DEF k
<1>5. k >= 1 => m * k >= m
  BY <1>4
<1>6. k <= 0 => m * k <= 0
  BY <1>4
<1> QED  BY <1>4, <1>5, <1>6

(* How many bytes are in the pipe. *)
Count == (nwrite - nread) % UINT

RingInv == TypeOK /\ Count <= PIPESIZE

(* The counters that wrap around tell empty, full and the slot to write. *)
LEMMA CountFacts ==
  ASSUME TypeOK
  PROVE  /\ Count \in 0 .. UINT - 1
         /\ nwrite = nread + Count \/ nwrite = nread + Count - UINT
         /\ Empty <=> Count = 0
         /\ Full <=> Count = PIPESIZE
         /\ (nread + Count) % PIPESIZE = nwrite % PIPESIZE
<1> USE PipeAssumption
<1>t. nread \in 0 .. UINT - 1 /\ nwrite \in 0 .. UINT - 1
  BY DEF TypeOK
<1>1. CASE nwrite >= nread
  <2>1. Count = nwrite - nread
    <3>1. (UINT * 0 + (nwrite - nread)) % UINT = nwrite - nread
      BY <1>t, <1>1, ModIs
    <3> QED  BY <3>1, <1>t DEF Count
  <2>2. Full <=> nwrite - nread = PIPESIZE
    <3>1. CASE nread + PIPESIZE < UINT
      <4>1. (UINT * 0 + (nread + PIPESIZE)) % UINT = nread + PIPESIZE
        BY <1>t, <3>1, ModIs
      <4> QED  BY <4>1, <1>t DEF Full
    <3>2. CASE nread + PIPESIZE >= UINT
      <4>1. (UINT * 1 + (nread + PIPESIZE - UINT)) % UINT = nread + PIPESIZE - UINT
        BY <1>t, <3>2, ModIs
      <4> QED  BY <4>1, <3>2, <1>t, <1>1 DEF Full
    <3> QED  BY <3>1, <3>2, <1>t
  <2> QED  BY <1>t, <1>1, <2>1, <2>2 DEF Empty
<1>2. CASE nwrite < nread
  <2>1. Count = nwrite - nread + UINT
    <3>1. (UINT * (-1) + (nwrite - nread + UINT)) % UINT = nwrite - nread + UINT
      BY <1>t, <1>2, ModIs
    <3> QED  BY <3>1, <1>t DEF Count
  <2>2. Full <=> nwrite - nread + UINT = PIPESIZE
    <3>1. CASE nread + PIPESIZE < UINT
      <4>1. (UINT * 0 + (nread + PIPESIZE)) % UINT = nread + PIPESIZE
        BY <1>t, <3>1, ModIs
      <4> QED  BY <4>1, <3>1, <1>t, <1>2 DEF Full
    <3>2. CASE nread + PIPESIZE >= UINT
      <4>1. (UINT * 1 + (nread + PIPESIZE - UINT)) % UINT = nread + PIPESIZE - UINT
        BY <1>t, <3>2, ModIs
      <4> QED  BY <4>1, <1>t DEF Full
    <3> QED  BY <3>1, <3>2, <1>t
  <2>3. (nread + Count) % PIPESIZE = nwrite % PIPESIZE
    <3>1. UINT = PIPESIZE * (UINT \div PIPESIZE) /\ UINT \div PIPESIZE \in Int
      <4>1. UINT = PIPESIZE * (UINT \div PIPESIZE) + (UINT % PIPESIZE) /\ UINT \div PIPESIZE \in Int
        BY ModParts
      <4> QED  BY <4>1
    <3>2. (nwrite + PIPESIZE * (UINT \div PIPESIZE)) % PIPESIZE = nwrite % PIPESIZE
      <4>1. nwrite \in Int /\ PIPESIZE \in Int /\ PIPESIZE > 0
        BY <1>t
      <4> QED  BY <4>1, <3>1, ModShift, Zenon
    <3>3. nread + Count = nwrite + PIPESIZE * (UINT \div PIPESIZE)
      <4>1. nread + Count = nwrite + UINT
        BY <2>1, <1>t
      <4> QED  BY <4>1, <3>1, Zenon
    <3> QED  BY <3>2, <3>3, Zenon
  <2> QED  BY <1>t, <1>2, <2>1, <2>2, <2>3 DEF Empty
<1> QED  BY <1>1, <1>2, <1>t

(* A ring read from slot r on, as a sequence of c bytes. *)
Ring(d, r, c) == [k \in 1 .. c |-> d[(r + k - 1) % PIPESIZE]]

LEMMA RingFacts ==
  ASSUME NEW d \in [0 .. PIPESIZE - 1 -> Byte], NEW r \in Nat, NEW c \in Nat
  PROVE  /\ Ring(d, r, c) \in Seq(Byte) /\ Len(Ring(d, r, c)) = c
         /\ \A k \in 1 .. c : Ring(d, r, c)[k] = d[(r + k - 1) % PIPESIZE] /\ (r + k - 1) % PIPESIZE \in 0 .. PIPESIZE - 1
<1>1. \A k \in 1 .. c : (r + k - 1) % PIPESIZE \in 0 .. PIPESIZE - 1
  BY ModParts, PipeAssumption
<1>2. \A k \in 1 .. c : d[(r + k - 1) % PIPESIZE] \in Byte
  BY <1>1
<1> QED  BY <1>1, <1>2 DEF Ring

LEMMA IsAppend ==
  ASSUME NEW S, NEW s \in Seq(S), NEW e \in S, NEW t \in Seq(S), Len(t) = Len(s) + 1,
         \A k \in 1 .. Len(s) : t[k] = s[k], t[Len(s) + 1] = e
  PROVE  t = Append(s, e)
OBVIOUS

LEMMA IsTail ==
  ASSUME NEW S, NEW s \in Seq(S), s # <<>>, NEW t \in Seq(S), Len(t) = Len(s) - 1,
         \A k \in 1 .. Len(t) : t[k] = s[k + 1]
  PROVE  t = Tail(s)
OBVIOUS

(* A counter that is advanced, and the bytes then in the pipe. *)
LEMMA Advance ==
  ASSUME NEW n \in 0 .. UINT - 1
  PROVE  (n + 1) % UINT \in 0 .. UINT - 1 /\ ((n + 1) % UINT = n + 1 \/ (n + 1 = UINT /\ (n + 1) % UINT = 0))
<1>u. UINT \in Nat /\ UINT > 0
  BY PipeAssumption
<1>1. CASE n + 1 < UINT
  <2>1. (UINT * 0 + (n + 1)) % UINT = n + 1
    BY <1>u, <1>1, ModIs
  <2> QED  BY <2>1, <1>1, <1>u
<1>2. CASE n + 1 >= UINT
  <2>1. (UINT * 1 + 0) % UINT = 0
    BY <1>u, ModIs
  <2> QED  BY <2>1, <1>2, <1>u
<1> QED  BY <1>1, <1>2, <1>u

LEMMA CountUp ==
  ASSUME NEW U \in Nat, NEW r \in 0 .. U - 1, NEW w \in 0 .. U - 1, NEW v \in 0 .. U - 1,
         NEW c \in 0 .. U - 2, w = r + c \/ w = r + c - U, v = w + 1 \/ (w + 1 = U /\ v = 0)
  PROVE  v - r = c + 1 \/ v - r = c + 1 - U
OBVIOUS

LEMMA CountDown ==
  ASSUME NEW U \in Nat, NEW r \in 0 .. U - 1, NEW w \in 0 .. U - 1, NEW v \in 0 .. U - 1,
         NEW c \in 1 .. U - 1, w = r + c \/ w = r + c - U, v = r + 1 \/ (r + 1 = U /\ v = 0)
  PROVE  w - v = c - 1 \/ w - v = c - 1 - U
OBVIOUS

(* pipewrite: the byte goes to the end of the queue. *)
LEMMA WritePuts ==
  ASSUME RingInv, NEW p \in Proc, pipewrite_byte(p)
  PROVE  Bytes!Put /\ Count' <= PIPESIZE
<1>u. PIPESIZE \in Nat /\ PIPESIZE > 0 /\ UINT \in Nat /\ UINT > PIPESIZE
  BY PipeAssumption
<1>t. nread \in 0 .. UINT - 1 /\ nwrite \in 0 .. UINT - 1 /\ data \in [0 .. PIPESIZE - 1 -> Byte]
  BY DEF RingInv, TypeOK
<1>c. /\ Count \in 0 .. UINT - 1 /\ Count < PIPESIZE
      /\ nwrite = nread + Count \/ nwrite = nread + Count - UINT
      /\ (nread + Count) % PIPESIZE = nwrite % PIPESIZE
  <2>1. /\ Count \in 0 .. UINT - 1 /\ (Full <=> Count = PIPESIZE)
        /\ nwrite = nread + Count \/ nwrite = nread + Count - UINT
        /\ (nread + Count) % PIPESIZE = nwrite % PIPESIZE
    BY CountFacts, Zenon DEF RingInv
  <2>2. ~Full /\ Count <= PIPESIZE
    BY Zenon DEF RingInv, pipewrite_byte
  <2> QED  BY <1>u, <2>1, <2>2
<1>1. PICK b \in Byte : data' = [data EXCEPT ![nwrite % PIPESIZE] = b]
  BY DEF pipewrite_byte
<1>2. nwrite' = (nwrite + 1) % UINT /\ nread' = nread /\ addr' = addr
  BY DEF pipewrite_byte
<1>i. nwrite % PIPESIZE \in 0 .. PIPESIZE - 1
  BY <1>t, <1>u, ModParts
<1>d. data' \in [0 .. PIPESIZE - 1 -> Byte]
  BY <1>t, <1>1, <1>i
<1>3. Count' = Count + 1
  <2>1. nwrite' \in 0 .. UINT - 1 /\ (nwrite' = nwrite + 1 \/ (nwrite + 1 = UINT /\ nwrite' = 0))
    BY <1>2, <1>t, Advance
  <2>2. nwrite' - nread = UINT * 0 + (Count + 1) \/ nwrite' - nread = UINT * (-1) + (Count + 1)
    <3>1. nwrite' - nread = Count + 1 \/ nwrite' - nread = Count + 1 - UINT
      <4>1. Count \in 0 .. UINT - 2
        BY <1>c, <1>u
      <4>2. nread \in 0 .. UINT - 1 /\ nwrite \in 0 .. UINT - 1
        BY <1>t, Zenon
      <4>3. UINT \in Nat /\ (nwrite = nread + Count \/ nwrite = nread + Count - UINT)
        BY <1>u, <1>c, Zenon
      <4> QED  BY <4>1, <4>2, <4>3, <2>1, CountUp, Zenon
    <3>2. UINT * 0 + (Count + 1) = Count + 1 /\ UINT * (-1) + (Count + 1) = Count + 1 - UINT
      BY <1>u, <1>c
    <3> QED  BY <3>1, <3>2, Zenon
  <2>3. (UINT * 0 + (Count + 1)) % UINT = Count + 1 /\ (UINT * (-1) + (Count + 1)) % UINT = Count + 1
    BY <1>c, <1>u, ModIs
  <2>4. (nwrite' - nread) % UINT = Count + 1
    BY <2>2, <2>3, Zenon
  <2> QED  BY <1>2, <2>4, Zenon DEF Count
<1>4. \A k \in 1 .. Count : (nread + k - 1) % PIPESIZE # nwrite % PIPESIZE
  <2> SUFFICES ASSUME NEW k \in 1 .. Count PROVE (nread + k - 1) % PIPESIZE # nwrite % PIPESIZE
    OBVIOUS
  <2>1. nread + k - 1 \in Int /\ Count - k + 1 \in 1 .. PIPESIZE - 1 /\ (nread + k - 1) + (Count - k + 1) = nread + Count
    BY <1>t, <1>c, <1>u
  <2>2. ((nread + k - 1) + (Count - k + 1)) % PIPESIZE # (nread + k - 1) % PIPESIZE
    <3>1. PIPESIZE \in Int /\ PIPESIZE > 0
      BY <1>u
    <3> QED  BY <2>1, <3>1, ModApart, Zenon
  <2> QED  BY <2>1, <2>2, <1>c, Zenon
<1>5. Queue = Ring(data, nread, Count) /\ Queue' = Ring(data', nread, Count + 1)
  BY <1>2, <1>3, Zenon DEF Queue, Count, Ring
<1>6. /\ Queue \in Seq(Byte) /\ Len(Queue) = Count /\ Queue' \in Seq(Byte) /\ Len(Queue') = Count + 1
      /\ \A k \in 1 .. Count : Queue[k] = data[(nread + k - 1) % PIPESIZE] /\ (nread + k - 1) % PIPESIZE \in 0 .. PIPESIZE - 1
      /\ \A k \in 1 .. Count + 1 : Queue'[k] = data'[(nread + k - 1) % PIPESIZE]
  <2>1. nread \in Nat /\ Count \in Nat /\ Count + 1 \in Nat
    BY <1>t, <1>c
  <2> QED  BY <2>1, <1>t, <1>d, <1>5, RingFacts, Zenon
<1>7. \A k \in 1 .. Len(Queue) : Queue'[k] = Queue[k]
  <2> SUFFICES ASSUME NEW k \in 1 .. Count PROVE Queue'[k] = Queue[k]
    BY <1>6
  <2>1. k \in 1 .. Count + 1
    BY <1>c
  <2>2. data'[(nread + k - 1) % PIPESIZE] = data[(nread + k - 1) % PIPESIZE]
    BY <1>1, <1>4, <1>6, <1>t, Zenon
  <2> QED  BY <1>6, <2>1, <2>2, Zenon
<1>8. Queue'[Len(Queue) + 1] = b
  <2>1. Count + 1 \in 1 .. Count + 1 /\ nread + (Count + 1) - 1 = nread + Count
    BY <1>t, <1>c
  <2>2. data'[nwrite % PIPESIZE] = b
    BY <1>1, <1>i, <1>t, Zenon
  <2> QED  BY <1>6, <1>c, <2>1, <2>2, Zenon
<1>9. Queue' = Append(Queue, b)
  BY <1>6, <1>7, <1>8, IsAppend, Zenon
<1>10. Len(Queue) < PIPESIZE /\ Count + 1 <= PIPESIZE
  BY <1>6, <1>c, <1>u
<1> QED  BY <1>2, <1>3, <1>9, <1>10, Zenon DEF Bytes!Put

(* piperead: the byte comes from the front of the queue. *)
LEMMA ReadGets ==
  ASSUME RingInv, NEW p \in Proc, piperead_byte(p)
  PROVE  Bytes!Get /\ Count' <= PIPESIZE
<1>u. PIPESIZE \in Nat /\ PIPESIZE > 0 /\ UINT \in Nat /\ UINT > PIPESIZE
  BY PipeAssumption
<1>t. nread \in 0 .. UINT - 1 /\ nwrite \in 0 .. UINT - 1 /\ data \in [0 .. PIPESIZE - 1 -> Byte]
  BY DEF RingInv, TypeOK
<1>c. /\ Count \in 1 .. UINT - 1 /\ Count <= PIPESIZE
      /\ nwrite = nread + Count \/ nwrite = nread + Count - UINT
  <2>1. /\ Count \in 0 .. UINT - 1 /\ (Empty <=> Count = 0)
        /\ nwrite = nread + Count \/ nwrite = nread + Count - UINT
    BY CountFacts, Zenon DEF RingInv
  <2>2. ~Empty /\ Count <= PIPESIZE
    BY Zenon DEF RingInv, piperead_byte
  <2> QED  BY <1>u, <2>1, <2>2
<1>2. nread' = (nread + 1) % UINT /\ nwrite' = nwrite /\ data' = data /\ addr' = data[nread % PIPESIZE]
  BY Zenon DEF piperead_byte
<1>n. nread' \in 0 .. UINT - 1 /\ (nread' = nread + 1 \/ (nread + 1 = UINT /\ nread' = 0))
  BY <1>2, <1>t, Advance, Zenon
<1>3. Count' = Count - 1
  <2>1. nwrite - nread' = Count - 1 \/ nwrite - nread' = Count - 1 - UINT
    BY <1>n, <1>t, <1>c, <1>u, CountDown, Zenon
  <2>2. UINT * 0 + (Count - 1) = Count - 1 /\ UINT * (-1) + (Count - 1) = Count - 1 - UINT
    BY <1>u, <1>c
  <2>3. (UINT * 0 + (Count - 1)) % UINT = Count - 1 /\ (UINT * (-1) + (Count - 1)) % UINT = Count - 1
    <3>1. Count - 1 \in 0 .. UINT - 1
      BY <1>c, <1>u
    <3> QED  BY <3>1, <1>u, ModIs
  <2>4. (nwrite - nread') % UINT = Count - 1
    BY <2>1, <2>2, <2>3, Zenon
  <2> QED  BY <1>2, <2>4, Zenon DEF Count
<1>4. \A k \in 1 .. Count - 1 : (nread' + k - 1) % PIPESIZE = (nread + (k + 1) - 1) % PIPESIZE
  <2> SUFFICES ASSUME NEW k \in 1 .. Count - 1 PROVE (nread' + k - 1) % PIPESIZE = (nread + (k + 1) - 1) % PIPESIZE
    OBVIOUS
  <2>1. CASE nread' = nread + 1
    <3>1. nread' + k - 1 = nread + (k + 1) - 1
      BY <2>1, <1>t
    <3> QED  BY <3>1, Zenon
  <2>2. CASE nread + 1 = UINT /\ nread' = 0
    <3>1. UINT = PIPESIZE * (UINT \div PIPESIZE) /\ UINT \div PIPESIZE \in Int
      <4>1. UINT = PIPESIZE * (UINT \div PIPESIZE) + (UINT % PIPESIZE) /\ UINT \div PIPESIZE \in Int /\ UINT % PIPESIZE = 0
        BY ModParts, PipeAssumption
      <4> QED  BY <4>1, <1>u
    <3>2. nread' + k - 1 \in Int /\ nread + (k + 1) - 1 = (nread' + k - 1) + UINT /\ PIPESIZE \in Int /\ PIPESIZE > 0
      BY <2>2, <1>t, <1>u
    <3>3. ((nread' + k - 1) + PIPESIZE * (UINT \div PIPESIZE)) % PIPESIZE = (nread' + k - 1) % PIPESIZE
      BY <3>1, <3>2, ModShift, Zenon
    <3> QED  BY <3>1, <3>2, <3>3, Zenon
  <2> QED  BY <2>1, <2>2, <1>n, Zenon
<1>5. Queue = Ring(data, nread, Count) /\ Queue' = Ring(data, nread', Count - 1)
  BY <1>2, <1>3, Zenon DEF Queue, Count, Ring
<1>6. /\ Queue \in Seq(Byte) /\ Len(Queue) = Count /\ Queue' \in Seq(Byte) /\ Len(Queue') = Count - 1
      /\ \A k \in 1 .. Count : Queue[k] = data[(nread + k - 1) % PIPESIZE]
      /\ \A k \in 1 .. Count - 1 : Queue'[k] = data[(nread' + k - 1) % PIPESIZE]
  <2>1. nread \in Nat /\ nread' \in Nat /\ Count \in Nat /\ Count - 1 \in Nat
    BY <1>t, <1>c, <1>n
  <2> QED  BY <2>1, <1>t, <1>5, RingFacts, Zenon
<1>7. Queue # <<>> /\ Head(Queue) = addr'
  <2>1. 1 \in 1 .. Count /\ nread + 1 - 1 = nread /\ Count # 0
    BY <1>t, <1>c
  <2>2. Queue[1] = addr'
    BY <1>2, <1>6, <2>1, Zenon
  <2> QED  BY <1>6, <2>1, <2>2
<1>8. \A k \in 1 .. Len(Queue') : Queue'[k] = Queue[k + 1]
  <2> SUFFICES ASSUME NEW k \in 1 .. Count - 1 PROVE Queue'[k] = Queue[k + 1]
    BY <1>6, Zenon
  <2>1. k + 1 \in 1 .. Count
    BY <1>c
  <2> QED  BY <1>4, <1>6, <2>1, Zenon
<1>9. Queue' = Tail(Queue)
  <2>1. Len(Queue') = Len(Queue) - 1
    BY <1>6, Zenon
  <2> QED  BY <1>6, <1>7, <1>8, <2>1, IsTail, Zenon
<1>10. Count - 1 <= PIPESIZE
  BY <1>c, <1>u
<1> QED  BY <1>3, <1>7, <1>9, <1>10, Zenon DEF Bytes!Get

(* Every other step leaves the bytes alone. *)
LEMMA OthersStutter ==
  ASSUME UNCHANGED <<data, nread, nwrite, addr>>
  PROVE  Queue' = Queue /\ addr' = addr /\ Count' = Count
BY DEF Queue, Count

(* A step of the pipe is a step of the queue, or leaves it alone. *)
LEMMA StepFifo ==
  ASSUME RingInv, [Next]_vars
  PROVE  [Bytes!Put \/ Bytes!Get]_<<Queue, addr>> /\ Count' <= PIPESIZE
<1>1. ASSUME NEW p \in Proc, pipewrite_byte(p) PROVE Bytes!Put /\ Count' <= PIPESIZE
  BY <1>1, WritePuts
<1>2. ASSUME NEW p \in Proc, piperead_byte(p) PROVE Bytes!Get /\ Count' <= PIPESIZE
  BY <1>2, ReadGets
<1>3. (\E p \in Proc : pipewrite_byte(p) \/ piperead_byte(p)) \/ UNCHANGED <<data, nread, nwrite, addr>>
  BY DEF Next, Step, Done, call, acquire, pipewrite_fails, pipewrite_full, pipewrite_sleep, pipewrite_return, piperead_fails,
     piperead_empty, piperead_sleep, piperead_copy, piperead_return, fileclose, pipeclose, kill, vars, pipe
<1>4. CASE UNCHANGED <<data, nread, nwrite, addr>>
  BY <1>4, OthersStutter, Zenon DEF RingInv
<1> QED  BY <1>1, <1>2, <1>3, <1>4, Zenon

(* The ring with its counters that wrap around at UINT is a queue of at     *)
(* most PIPESIZE bytes: piperead delivers the bytes of pipewrite in order,  *)
(* each once, for any number of processes, any PIPESIZE and any UINT that   *)
(* is a multiple of it.                                                     *)
THEOREM PipeImplementsFifo == Spec => FifoSpec
<1>1. Init => Bytes!Init /\ Count <= PIPESIZE
  <2> SUFFICES ASSUME Init PROVE Bytes!Init /\ Count <= PIPESIZE
    OBVIOUS
  <2>1. (nwrite - nread) % UINT = 0
    <3>1. (UINT * 0 + 0) % UINT = 0
      BY ModIs, PipeAssumption
    <3> QED  BY <3>1, PipeAssumption DEF Init
  <2>2. Queue = <<>>
    BY <2>1 DEF Queue
  <2> QED  BY <2>1, <2>2, PipeAssumption DEF Init, Bytes!Init, Count
<1>2. RingInv /\ [Next]_vars => [Bytes!Put \/ Bytes!Get]_<<Queue, addr>> /\ (Count <= PIPESIZE)'
  BY StepFifo
<1>3. TypeOK /\ [Next]_vars => TypeOK'
  BY StepTypeOK
<1>4. Init => TypeOK
  BY InitPipeInv DEF PipeInv
<1> QED  BY <1>1, <1>2, <1>3, <1>4, PTL DEF Spec, FifoSpec, Bytes!Spec, RingInv

=============================================================================
