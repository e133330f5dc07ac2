----------------------------- MODULE FileProofs -----------------------------
(***************************************************************************)
(* A sleep lock, and what the lock of an inode is there for: the contents  *)
(* of the files, each written by the one process that holds its lock, for  *)
(* any number of processes and files and a disk of any size.               *)
(***************************************************************************)
EXTENDS SleepLock, Files, Integers, FiniteSetTheorems, WellFoundedInduction, TLAPS

-----------------------------------------------------------------------------
(* The sleep lock.                                                         *)

(* How a process moves: the others stay where they are. *)
LEMMA GotoFacts ==
  ASSUME pc \in [Proc -> Pc], NEW p \in Proc, NEW from \in Pc, NEW to \in Pc,
         Goto(p, from, to)
  PROVE  /\ pc' \in [Proc -> Pc] /\ pc[p] = from /\ pc'[p] = to
         /\ \A q \in Proc : q # p => pc'[q] = pc[q]
BY DEF Goto

(* The initial state satisfies the inductive invariant. *)
LEMMA LockInit == Init => LockInv
BY SleepLockAssumption
   DEF Init, LockInv, TypeOK, LocksInv, SleepInv, MutualExclusion, NoLostWakeup, Holds, LkHolder, Pc

(* Every step of every process preserves the inductive invariant. *)
LEMMA LockStep == LockInv /\ [Next]_vars => LockInv'
<1> SUFFICES ASSUME LockInv, [Next]_vars PROVE LockInv'
  OBVIOUS
<1> USE SleepLockAssumption DEF LockInv, TypeOK, LocksInv, SleepInv, MutualExclusion, NoLostWakeup, Holds, LkHolder
<1>1. ASSUME NEW p \in Proc, call_acquiresleep(p) PROVE LockInv'
  <2>1. /\ pc' \in [Proc -> Pc] /\ pc[p] = "idle" /\ pc'[p] = "acquire"
        /\ \A q \in Proc : q # p => pc'[q] = pc[q]
    BY <1>1, GotoFacts DEF call_acquiresleep, Pc
  <2> QED BY <1>1, <2>1, SMTT(30) DEF call_acquiresleep
<1>2. ASSUME NEW p \in Proc, acquire_lk(p) PROVE LockInv'
  <2>1. CASE Goto(p, "acquire", "while")
    <3>1. /\ pc' \in [Proc -> Pc] /\ pc[p] = "acquire" /\ pc'[p] = "while"
          /\ \A q \in Proc : q # p => pc'[q] = pc[q]
      BY <2>1, GotoFacts DEF Pc
    <3> QED BY <1>2, <3>1, SMTT(30) DEF acquire_lk
  <2>2. CASE Goto(p, "release", "clear")
    <3>1. /\ pc' \in [Proc -> Pc] /\ pc[p] = "release" /\ pc'[p] = "clear"
          /\ \A q \in Proc : q # p => pc'[q] = pc[q]
      BY <2>2, GotoFacts DEF Pc
    <3> QED BY <1>2, <3>1, SMTT(30) DEF acquire_lk
  <2> QED BY <1>2, <2>1, <2>2 DEF acquire_lk
<1>3. ASSUME NEW p \in Proc, acquiresleep(p) PROVE LockInv'
  <2>1. /\ pc' \in [Proc -> Pc] /\ pc[p] = "while" /\ pc'[p] = "held"
        /\ \A q \in Proc : q # p => pc'[q] = pc[q]
    BY <1>3, GotoFacts DEF acquiresleep, Pc
  <2> QED BY <1>3, <2>1, SMTT(30) DEF acquiresleep
<1>4. ASSUME NEW p \in Proc, acquiresleep_waits(p) PROVE LockInv'
  <2>1. /\ pc' \in [Proc -> Pc] /\ pc[p] = "while" /\ pc'[p] = "sleeplock1"
        /\ \A q \in Proc : q # p => pc'[q] = pc[q]
    BY <1>4, GotoFacts DEF acquiresleep_waits, Pc
  <2> QED BY <1>4, <2>1, SMTT(30) DEF acquiresleep_waits
<1>5. ASSUME NEW p \in Proc, sleep_acquire(p) PROVE LockInv'
  <2>1. /\ pc' \in [Proc -> Pc] /\ pc[p] = "sleeplock1" /\ pc'[p] = "unlk"
        /\ \A q \in Proc : q # p => pc'[q] = pc[q]
    BY <1>5, GotoFacts, SMTT(60) DEF sleep_acquire, Pc
  <2> QED BY <1>5, <2>1 DEF sleep_acquire
<1>6. ASSUME NEW p \in Proc, sleep_release(p) PROVE LockInv'
  <2>1. /\ pc' \in [Proc -> Pc] /\ pc[p] = "unlk" /\ pc'[p] = "sched"
        /\ \A q \in Proc : q # p => pc'[q] = pc[q]
    BY <1>6, GotoFacts DEF sleep_release, Pc
  <2> QED BY <1>6, <2>1, SMTT(30) DEF sleep_release
<1>7. ASSUME NEW p \in Proc, sleep_sched(p) PROVE LockInv'
  <2>1. /\ pc' \in [Proc -> Pc] /\ pc[p] = "sched" /\ pc'[p] = "asleep"
        /\ \A q \in Proc : q # p => pc'[q] = pc[q]
    BY <1>7, GotoFacts DEF sleep_sched, Pc
  <2> QED BY <1>7, <2>1, SMTT(30) DEF sleep_sched
<1>8. ASSUME NEW p \in Proc, sleep_return(p) PROVE LockInv'
  <2>1. /\ pc' \in [Proc -> Pc] /\ pc[p] = "asleep" /\ pc'[p] = "acquire"
        /\ \A q \in Proc : q # p => pc'[q] = pc[q]
    BY <1>8, GotoFacts DEF sleep_return, Pc
  <2> QED BY <1>8, <2>1, SMTT(30) DEF sleep_return
<1>9. ASSUME NEW p \in Proc, call_releasesleep(p) PROVE LockInv'
  <2>1. /\ pc' \in [Proc -> Pc] /\ pc[p] = "held" /\ pc'[p] = "release"
        /\ \A q \in Proc : q # p => pc'[q] = pc[q]
    BY <1>9, GotoFacts, Zenon DEF call_releasesleep, Pc
  <2> QED BY <1>9, <2>1 DEF call_releasesleep
<1>10. ASSUME NEW p \in Proc, releasesleep(p) PROVE LockInv'
  <2>1. /\ pc' \in [Proc -> Pc] /\ pc[p] = "clear" /\ pc'[p] = "wakeup"
        /\ \A q \in Proc : q # p => pc'[q] = pc[q]
    BY <1>10, GotoFacts DEF releasesleep, Pc
  <2> QED BY <1>10, <2>1, SMTT(30) DEF releasesleep
<1>11. ASSUME NEW p \in Proc, wakeup(p) PROVE LockInv'
  <2>1. /\ pc' \in [Proc -> Pc] /\ pc[p] = "wakeup" /\ pc'[p] = "done"
        /\ \A q \in Proc : q # p => pc'[q] = pc[q]
    BY <1>11, GotoFacts DEF wakeup, Pc
  <2> QED BY <1>11, <2>1, SMTT(30) DEF wakeup
<1>12. ASSUME NEW p \in Proc, releasesleep_done(p) PROVE LockInv'
  <2>1. /\ pc' \in [Proc -> Pc] /\ pc[p] = "done" /\ pc'[p] = "idle"
        /\ \A q \in Proc : q # p => pc'[q] = pc[q]
    BY <1>12, GotoFacts DEF releasesleep_done, Pc
  <2> QED BY <1>12, <2>1, SMTT(30) DEF releasesleep_done
<1>13. ASSUME NEW p \in Proc, kill(p) PROVE LockInv'
  BY <1>13 DEF kill
<1>14. CASE UNCHANGED vars
  BY <1>14 DEF vars
<1> QED
  BY <1>1, <1>2, <1>3, <1>4, <1>5, <1>6, <1>7, <1>8, <1>9, <1>10, <1>11, <1>12, <1>13, <1>14, Zenon
     DEF Next, Step

(* The inductive invariant holds in every reachable state. *)
THEOREM LockInvariant == Spec => []LockInv
  BY LockInit, LockStep, PTL DEF Spec

(* acquiresleep() and releasesleep() keep one holder at a time, and what    *)
(* the holder finds in locked and pid is right.                             *)
THEOREM OneHolder == Spec => []MutualExclusion
<1>1. LockInv => MutualExclusion
  BY DEF LockInv
<1> QED BY LockInvariant, <1>1, PTL

(* sleep() takes ptable.lock before it gives up lk, so that the wakeup of   *)
(* releasesleep() comes after the sleeper is SLEEPING.                      *)
THEOREM NoWakeupLostByRelease == Spec => []NoLostWakeup
<1>1. LockInv => NoLostWakeup
  BY DEF LockInv
<1> QED BY LockInvariant, <1>1, PTL

-----------------------------------------------------------------------------
(* Arithmetic modulo the size of a block and the width of an offset.       *)
LEMMA ModParts ==
  ASSUME NEW a \in Int, NEW m \in Int, m > 0
  PROVE  a = m * (a \div m) + (a % m) /\ a \div m \in Int /\ a % m \in 0 .. m - 1
BY Z3T(60)

LEMMA ModUnique ==
  ASSUME NEW m \in Int, m > 0, NEW q \in Int, NEW s \in Int, NEW r \in 0 .. m - 1, NEW t \in 0 .. m - 1, m * q + r = m * s + t
  PROVE  q = s /\ r = t
<1>1. m * (q - s) = t - r
  OBVIOUS
<1>2. q - s < 1
  <2>1. q - s >= 1 => m * (q - s) >= m
    OBVIOUS
  <2> QED  BY <1>1, <2>1
<1>3. q - s > -1
  <2>1. q - s <= -1 => m * (q - s) <= -m
    OBVIOUS
  <2> QED  BY <1>1, <2>1
<1> QED  BY <1>1, <1>2, <1>3

LEMMA ModIs ==
  ASSUME NEW m \in Int, m > 0, NEW q \in Int, NEW r \in 0 .. m - 1
  PROVE  (m * q + r) % m = r
<1> DEFINE a == m * q + r
<1>1. a \in Int
  OBVIOUS
<1>2. a = m * (a \div m) + (a % m) /\ a \div m \in Int /\ a % m \in 0 .. m - 1
  BY <1>1, ModParts
<1> QED  BY <1>1, <1>2, ModUnique

(* The order that the well-founded induction below uses. *)
Less == {e \in Nat \X Nat : e[1] < e[2]}

(* There is no infinite descent in the natural numbers. *)
LEMMA LessWellFounded == IsWellFoundedOn(Less, Nat)
<1>1. OpToRel(<, Nat) = Less
  BY DEF OpToRel, Less
<1>. QED  BY <1>1, NatLessThanWellFounded

(* A nonempty set of natural numbers has a least element. *)
LEMMA Least ==
  ASSUME NEW S, S \subseteq Nat, S # {}
  PROVE  \E i \in S : \A j \in S : i <= j
<1>1. PICK i \in S : \A j \in S : ~(<<j, i>> \in Less)
  BY LessWellFounded, WFMin
<1>2. \A j \in S : i \in Nat /\ j \in Nat /\ ~(j < i)
  <2>. TAKE j \in S
  <2>1. i \in Nat /\ j \in Nat /\ <<j, i>> \in Nat \X Nat
    OBVIOUS
  <2>. QED  BY <1>1, <2>1 DEF Less
<1>. QED  BY <1>2

-----------------------------------------------------------------------------
(* The contents of files.                                                  *)

Block == 0 .. NBLOCKS - 1
Value == Block \cup Byte
Disk == [Block -> [D!Cells -> Value]]
Addrs == [Inode -> [0 .. NDIRECT -> Block]]

(* Where a file keeps the addresses of its blocks: in the inode, the one   *)
(* of the indirect block included, and then in the indirect block.         *)
Place == 0 .. NDIRECT + BSIZE
PlaceOf(bn) == IF bn < NDIRECT THEN bn ELSE bn + 1
Addr(d, A, i, k) ==
  IF k <= NDIRECT THEN A[i][k]
  ELSE IF A[i][NDIRECT] = 0 THEN 0 ELSE d[A[i][NDIRECT]][k - NDIRECT - 1]

(* The marked blocks are those at some place of a file, each at one.       *)
Once(d, A) ==
  \A i, j \in Inode : \A k, l \in Place :
    Addr(d, A, i, k) = Addr(d, A, j, l) /\ Addr(d, A, i, k) # 0 => i = j /\ k = l
Owned(d, u, A) ==
  /\ Once(d, A)
  /\ \A i \in Inode : \A k \in Place : Addr(d, A, i, k) \in u
  /\ \A b \in u : b = 0 \/ \E i \in Inode : \E k \in Place : Addr(d, A, i, k) = b

(* Every byte of a file has a block, and is in it.                         *)
Stored(d, A, f) ==
  \A i \in Inode : \A o \in 0 .. Len(f[i]) - 1 :
    /\ Addr(d, A, i, PlaceOf(o \div BSIZE)) # 0
    /\ d[Addr(d, A, i, PlaceOf(o \div BSIZE))][o % BSIZE] = f[i][o + 1]

DataOK(d, u, A, f) ==
  /\ d \in Disk /\ u \subseteq Block /\ 0 \in u /\ A \in Addrs /\ f \in [Inode -> Seq(Value)]
  /\ \A i \in Inode : Len(f[i]) <= D!MAXFILE * BSIZE
  /\ Owned(d, u, A) /\ Stored(d, A, f)

(* The block of an offset, and where in it the offset is.                  *)
LEMMA InBlock ==
  ASSUME NEW o \in Nat, o < D!MAXFILE * BSIZE
  PROVE  /\ o \div BSIZE \in 0 .. D!MAXFILE - 1 /\ o % BSIZE \in D!Cells /\ o = BSIZE * (o \div BSIZE) + (o % BSIZE)
         /\ PlaceOf(o \div BSIZE) \in Place \ {NDIRECT}
<1>u. BSIZE \in Nat /\ BSIZE > 0 /\ NDIRECT \in Nat
  BY FileAssumption
<1>1. o = BSIZE * (o \div BSIZE) + (o % BSIZE) /\ o \div BSIZE \in Int /\ o % BSIZE \in 0 .. BSIZE - 1
  BY <1>u, ModParts
<1>. DEFINE q == o \div BSIZE
            r == o % BSIZE
<1>2. q \in Int /\ r \in 0 .. BSIZE - 1 /\ o = BSIZE * q + r /\ BSIZE * q + r < (NDIRECT + BSIZE) * BSIZE
  BY <1>1 DEF D!MAXFILE, D!NINDIRECT
<1>. HIDE DEF q, r
<1>3. q >= 0
  <2>1. q <= -1 => BSIZE * q <= -BSIZE
    BY <1>2, <1>u
  <2>. QED  BY <1>2, <1>u, <2>1
<1>4. q < NDIRECT + BSIZE
  <2>1. q >= NDIRECT + BSIZE => BSIZE * q >= BSIZE * (NDIRECT + BSIZE)
    BY <1>2, <1>u
  <2>2. BSIZE * (NDIRECT + BSIZE) = (NDIRECT + BSIZE) * BSIZE
    BY <1>u
  <2>. QED  BY <1>2, <1>u, <2>1, <2>2
<1>5. PlaceOf(q) \in Place \ {NDIRECT}
  BY <1>2, <1>3, <1>4, <1>u DEF PlaceOf, Place
<1>. QED  BY <1>1, <1>2, <1>3, <1>4, <1>5, <1>u DEF q, D!MAXFILE, D!NINDIRECT, D!Cells

(* The place of an entry of the indirect block.                            *)
LEMMA EntryPlace ==
  ASSUME NEW c \in D!Cells
  PROVE  /\ NDIRECT \in Place /\ NDIRECT + 1 + c \in Place
         /\ ~(NDIRECT + 1 + c <= NDIRECT) /\ (NDIRECT + 1 + c) - NDIRECT - 1 = c
BY FileAssumption DEF Place, D!Cells

(* The address at a place is that of a block.                              *)
LEMMA AddrIsBlock ==
  ASSUME NEW d, NEW u, NEW A, NEW f, DataOK(d, u, A, f), NEW i \in Inode, NEW k \in Place
  PROVE  Addr(d, A, i, k) \in u /\ Addr(d, A, i, k) \in Block
BY Zenon DEF DataOK, Owned

(* A block that was not marked comes to an empty place.                    *)
Comes(b, i, k, d, A, d2, A2) ==
  /\ Addr(d, A, i, k) = 0 /\ Addr(d2, A2, i, k) = b
  /\ \A j \in Inode : \A l \in Place : j # i \/ l # k => Addr(d2, A2, j, l) = Addr(d, A, j, l)
  /\ \A x \in Block : x # b /\ (\A j \in Inode : Addr(d, A, j, NDIRECT) # x) => d2[x] = d[x]

LEMMA NewBlock ==
  ASSUME NEW d, NEW u, NEW A, NEW f, DataOK(d, u, A, f), NEW d2 \in Disk, NEW A2 \in Addrs,
         NEW i \in Inode, NEW k \in Place, NEW b \in Block \ u, Comes(b, i, k, d, A, d2, A2)
  PROVE  DataOK(d2, u \cup {b}, A2, f)
<1>. USE DEF Comes
<1>t. /\ u \subseteq Block /\ 0 \in u /\ f \in [Inode -> Seq(Value)] /\ Owned(d, u, A) /\ Stored(d, A, f)
      /\ \A j \in Inode : Len(f[j]) <= D!MAXFILE * BSIZE
  BY DEF DataOK
<1>o. Once(d, A)
  BY Zenon DEF DataOK, Owned
<1>0. b # 0
  BY <1>t
<1>1. Owned(d2, u \cup {b}, A2)
  <2>1. \A j \in Inode : \A l \in Place : Addr(d2, A2, j, l) \in u \cup {b}
    BY <1>t DEF Owned
  <2>2. ASSUME NEW j \in Inode, NEW l \in Place, Addr(d2, A2, j, l) = b PROVE j = i /\ l = k
    BY <1>t, <2>2 DEF Owned
  <2>3. ASSUME NEW j \in Inode, NEW h \in Inode, NEW l \in Place, NEW m \in Place,
               Addr(d2, A2, j, l) = Addr(d2, A2, h, m), Addr(d2, A2, j, l) # 0
        PROVE  j = h /\ l = m
    <3>1. CASE Addr(d2, A2, j, l) = b
      BY <2>2, <2>3, <3>1, Zenon
    <3>2. CASE Addr(d2, A2, j, l) # b
      <4>1. Addr(d2, A2, j, l) = Addr(d, A, j, l) /\ Addr(d2, A2, h, m) = Addr(d, A, h, m)
        BY <2>3, <3>2, Zenon
      <4>2. Addr(d, A, j, l) = Addr(d, A, h, m) /\ Addr(d, A, j, l) # 0
        BY <2>3, <4>1, Zenon
      <4>. QED  BY <1>o, <4>2, SMT DEF Once
    <3>. QED  BY <3>1, <3>2, Zenon
  <2>4. ASSUME NEW x \in u \cup {b} PROVE x = 0 \/ \E j \in Inode : \E l \in Place : Addr(d2, A2, j, l) = x
    <3>1. CASE x = b
      BY <3>1, Zenon
    <3>2. CASE x \in u /\ x # 0
      <4>1. PICK j \in Inode, l \in Place : Addr(d, A, j, l) = x
        BY <1>t, <3>2, Zenon DEF Owned
      <4>2. Addr(d2, A2, j, l) = x
        BY <3>2, <4>1, Zenon
      <4>. QED  BY <4>2, Zenon
    <3>. QED  BY <3>1, <3>2, Zenon
  <2>. QED  BY <2>1, <2>3, <2>4 DEF Owned, Once
<1>2. ASSUME NEW j \in Inode, NEW o \in 0 .. Len(f[j]) - 1
      PROVE  /\ Addr(d2, A2, j, PlaceOf(o \div BSIZE)) # 0
             /\ d2[Addr(d2, A2, j, PlaceOf(o \div BSIZE))][o % BSIZE] = f[j][o + 1]
  <2>. DEFINE l == PlaceOf(o \div BSIZE)
              a == Addr(d, A, j, l)
  <2>1. l \in Place /\ l # NDIRECT
    <3>1. o \in Nat /\ o < D!MAXFILE * BSIZE
      <4>1. Len(f[j]) \in Nat /\ Len(f[j]) <= D!MAXFILE * BSIZE /\ D!MAXFILE * BSIZE \in Nat
        BY <1>t, FileAssumption DEF D!MAXFILE, D!NINDIRECT
      <4>. QED  BY <4>1
    <3>. QED  BY <3>1, InBlock, Zenon
  <2>2. a # 0 /\ d[a][o % BSIZE] = f[j][o + 1]
    BY <1>t, Zenon DEF Stored
  <2>3. Addr(d2, A2, j, l) = a
    BY <2>1, <2>2, Zenon
  <2>4. a \in u /\ a \in Block /\ a # b
    BY <2>1, AddrIsBlock, Zenon
  <2>5. NDIRECT \in Place
    BY FileAssumption DEF Place
  <2>6. \A h \in Inode : Addr(d, A, h, NDIRECT) # a
    BY <1>o, <2>1, <2>2, <2>5, SMT DEF Once
  <2>7. d2[a] = d[a]
    BY <2>4, <2>6, Zenon
  <2>. QED  BY <2>2, <2>3, <2>7, Zenon
<1>3. Stored(d2, A2, f)
  BY <1>2, Zenon DEF Stored
<1>4. u \cup {b} \subseteq Block /\ 0 \in u \cup {b}
  BY <1>t, Zenon
<1>. QED  BY <1>t, <1>1, <1>3, <1>4, Zenon DEF DataOK

(* What the model of a call works on.                                      *)
Rec(d, u, a) == [disk |-> d, used |-> u, addrs |-> a]

(* What balloc returns: some block that is not marked, zeroed.             *)
Zeroed(d, b) == [d EXCEPT ![b] = D!Zeros]
BallocGives(d, u, a) ==
  \E b \in Block \ u : D!balloc(Rec(d, u, a)) = [at |-> b, s |-> Rec(Zeroed(d, b), u \cup {b}, a)]

LEMMA BallocIs ==
  ASSUME NEW d \in Disk, NEW u \in SUBSET Block, u # Block, NEW a
  PROVE  BallocGives(d, u, a)
<1>. DEFINE S == Block \ u
            b == D!Min(S)
<1>1. S \subseteq Nat /\ S # {}
  <2>1. Block \subseteq Nat
    BY FileAssumption DEF Block
  <2>. QED  BY <2>1, Zenon
<1>2. b \in S
  <2>1. \E x \in S : \A y \in S : x <= y
    BY <1>1, Least, Zenon
  <2>. QED  BY <2>1, Zenon DEF D!Min
<1>3. D!balloc(Rec(d, u, a)) = [at |-> b, s |-> Rec([d EXCEPT ![b] = D!Zeros], u \cup {b}, a)]
  <2>. DEFINE r == [disk |-> d, used |-> u, addrs |-> a]
  <2>1. r.used = u /\ r.disk = d
    OBVIOUS
  <2>2. D!balloc(r) = [at |-> b, s |-> [r EXCEPT !.used = u \cup {b}, !.disk[b] = D!Zeros]]
    BY <2>1, Zenon DEF D!balloc, Block
  <2>3. [r EXCEPT !.used = u \cup {b}, !.disk[b] = D!Zeros] = [disk |-> [d EXCEPT ![b] = D!Zeros], used |-> u \cup {b}, addrs |-> a]
    <3>1. [r EXCEPT !.used = u \cup {b}] = [disk |-> d, used |-> u \cup {b}, addrs |-> a]
      OBVIOUS
    <3>2. [r EXCEPT !.used = u \cup {b}, !.disk[b] = D!Zeros] = [[r EXCEPT !.used = u \cup {b}] EXCEPT !.disk[b] = D!Zeros]
      <4>. HIDE DEF b
      <4>. QED  OBVIOUS
    <3>3. [[disk |-> d, used |-> u \cup {b}, addrs |-> a] EXCEPT !.disk[b] = D!Zeros]
          = [disk |-> [d EXCEPT ![b] = D!Zeros], used |-> u \cup {b}, addrs |-> a]
      <4>. HIDE DEF b
      <4>. QED  OBVIOUS
    <3>. QED  BY <3>1, <3>2, <3>3, Zenon
  <2>. QED  BY <2>2, <2>3, Zenon DEF Rec
<1>. QED  BY <1>2, <1>3, Zenon DEF BallocGives, Zeroed

(* balloc for an address of the inode.                                     *)
NewAddr(A, i, k, b) == [A EXCEPT ![i] = [A[i] EXCEPT ![k] = b]]

LEMMA AllocDirect ==
  ASSUME NEW d, NEW u, NEW A, NEW f, DataOK(d, u, A, f), NEW i \in Inode, NEW k \in 0 .. NDIRECT, A[i][k] = 0,
         NEW b \in Block \ u
  PROVE  DataOK(Zeroed(d, b), u \cup {b}, NewAddr(A, i, k, b), f)
<1>. DEFINE d2 == Zeroed(d, b)
            A2 == NewAddr(A, i, k, b)
<1>t. /\ d \in Disk /\ u \subseteq Block /\ 0 \in u /\ A \in Addrs /\ NDIRECT \in Nat /\ BSIZE \in Nat
  BY FileAssumption DEF DataOK
<1>1. d2 \in Disk /\ d2[b] = D!Zeros /\ \A x \in Block : x # b => d2[x] = d[x]
  <2>1. D!Zeros \in [D!Cells -> Value]
    BY FileAssumption DEF D!Zeros, Value, Block
  <2>. QED  BY <1>t, <2>1 DEF Disk, Zeroed
<1>2. /\ A2 \in Addrs /\ A2[i][k] = b /\ \A l \in 0 .. NDIRECT : l # k => A2[i][l] = A[i][l]
      /\ \A j \in Inode : j # i => A2[j] = A[j]
  BY <1>t DEF Addrs, NewAddr
<1>. HIDE DEF d2, A2
<1>3. k \in Place /\ NDIRECT \in Place /\ k <= NDIRECT /\ NDIRECT \in 0 .. NDIRECT
  BY <1>t DEF Place
<1>4. Addr(d, A, i, k) = 0 /\ Addr(d2, A2, i, k) = b
  BY <1>2, <1>3, Zenon DEF Addr
<1>5. \A j \in Inode : A[j][NDIRECT] \in u /\ A[j][NDIRECT] \in Block /\ A[j][NDIRECT] # b
  <2>1. \A j \in Inode : Addr(d, A, j, NDIRECT) = A[j][NDIRECT]
    BY <1>t DEF Addr
  <2>. QED  BY <1>3, <2>1, AddrIsBlock, Zenon
<1>6. ASSUME NEW j \in Inode, NEW l \in Place, j # i \/ l # k PROVE Addr(d2, A2, j, l) = Addr(d, A, j, l)
  <2>1. CASE l <= NDIRECT
    <3>1. l \in 0 .. NDIRECT
      BY <1>t, <2>1 DEF Place
    <3>2. Addr(d2, A2, j, l) = A2[j][l] /\ Addr(d, A, j, l) = A[j][l]
      BY <2>1, Zenon DEF Addr
    <3>. QED  BY <1>2, <1>6, <3>1, <3>2, Zenon
  <2>2. CASE ~(l <= NDIRECT) /\ (j # i \/ k # NDIRECT)
    <3>1. A2[j][NDIRECT] = A[j][NDIRECT]
      BY <1>2, <1>3, <2>2, Zenon
    <3>2. d2[A[j][NDIRECT]] = d[A[j][NDIRECT]]
      BY <1>1, <1>5, Zenon
    <3>. QED  BY <2>2, <3>1, <3>2, SMT DEF Addr
  <2>3. CASE ~(l <= NDIRECT) /\ j = i /\ k = NDIRECT
    <3>1. A[j][NDIRECT] = 0 /\ A2[j][NDIRECT] = b /\ b # 0
      BY <1>2, <1>t, <2>3
    <3>2. l - NDIRECT - 1 \in D!Cells
      BY <1>t, <2>3 DEF Place, D!Cells
    <3>3. D!Zeros[l - NDIRECT - 1] = 0
      BY <3>2, Zenon DEF D!Zeros
    <3>. QED  BY <1>1, <2>3, <3>1, <3>3, Zenon DEF Addr
  <2>. QED  BY <2>1, <2>2, <2>3, Zenon
<1>7. \A x \in Block : x # b /\ (\A j \in Inode : Addr(d, A, j, NDIRECT) # x) => d2[x] = d[x]
  BY <1>1, Zenon
<1>8. d2 \in Disk /\ A2 \in Addrs /\ k \in Place
  BY <1>1, <1>2, <1>3, Zenon
<1>9. DataOK(d2, u \cup {b}, A2, f)
  <2>1. Comes(b, i, k, d, A, d2, A2)
    BY <1>4, <1>6, <1>7, Zenon DEF Comes
  <2>. QED  BY <1>8, <2>1, NewBlock, Zenon
<1>. QED  BY <1>9, Zenon DEF d2, A2

(* balloc for an entry of the indirect block.                              *)
Enter(d, n, c, b) == [d EXCEPT ![n] = [d[n] EXCEPT ![c] = b]]

LEMMA AllocEntry ==
  ASSUME NEW d, NEW u, NEW A, NEW f, DataOK(d, u, A, f), NEW i \in Inode, NEW c \in D!Cells,
         A[i][NDIRECT] # 0, d[A[i][NDIRECT]][c] = 0, NEW b \in Block \ u
  PROVE  /\ DataOK(Enter(Zeroed(d, b), A[i][NDIRECT], c, b), u \cup {b}, A, f)
         /\ Addr(Enter(Zeroed(d, b), A[i][NDIRECT], c, b), A, i, NDIRECT + 1 + c) = b
<1>. DEFINE n == A[i][NDIRECT]
            d1 == Zeroed(d, b)
            d2 == Enter(d1, n, c, b)
<1>t. /\ d \in Disk /\ u \subseteq Block /\ 0 \in u /\ A \in Addrs /\ NDIRECT \in Nat /\ BSIZE \in Nat /\ Owned(d, u, A)
  BY FileAssumption DEF DataOK
<1>o. Once(d, A)
  BY Zenon DEF DataOK, Owned
<1>1. NDIRECT \in Place /\ NDIRECT + 1 + c \in Place /\ ~(NDIRECT + 1 + c <= NDIRECT) /\ (NDIRECT + 1 + c) - NDIRECT - 1 = c
  BY EntryPlace, Zenon
<1>2. \A j \in Inode : A[j][NDIRECT] \in u /\ A[j][NDIRECT] \in Block /\ A[j][NDIRECT] # b /\ (j # i => A[j][NDIRECT] # n)
  <2>1. \A j \in Inode : Addr(d, A, j, NDIRECT) = A[j][NDIRECT]
    BY <1>t DEF Addr
  <2>2. \A j \in Inode : A[j][NDIRECT] \in u /\ A[j][NDIRECT] \in Block
    BY <1>1, <2>1, AddrIsBlock, Zenon
  <2>3. ASSUME NEW j \in Inode, A[j][NDIRECT] = n PROVE j = i
    <3>1. Addr(d, A, j, NDIRECT) = Addr(d, A, i, NDIRECT) /\ Addr(d, A, j, NDIRECT) # 0
      BY <2>1, <2>3, Zenon
    <3>. QED  BY <1>1, <1>o, <3>1, SMT DEF Once
  <2>. QED  BY <2>2, <2>3, Zenon
<1>3. n \in Block /\ n # b /\ d1 \in Disk /\ d1[n] = d[n]
  <2>1. D!Zeros \in [D!Cells -> Value]
    BY FileAssumption DEF D!Zeros, Value, Block
  <2>2. n \in Block /\ n # b
    BY <1>2, Zenon
  <2>. QED  BY <1>t, <2>1, <2>2 DEF Disk, Zeroed
<1>. HIDE DEF d1
<1>4. /\ d2 \in Disk /\ d2[n][c] = b /\ \A e \in D!Cells : e # c => d2[n][e] = d[n][e]
      /\ \A x \in Block : x # b /\ x # n => d2[x] = d[x]
  <2>1. b \in Value
    BY DEF Value
  <2>2. [d[n] EXCEPT ![c] = b] \in [D!Cells -> Value]
    BY <1>t, <1>3, <2>1 DEF Disk
  <2>3. d2 = [d1 EXCEPT ![n] = [d[n] EXCEPT ![c] = b]]
    BY <1>3, Zenon DEF Enter
  <2>. HIDE DEF d2, n
  <2>4. /\ d2 \in Disk /\ d2[n] = [d[n] EXCEPT ![c] = b] /\ d[n] \in [D!Cells -> Value]
        /\ \A x \in Block : x # n => d2[x] = d1[x]
    BY <1>t, <1>3, <2>2, <2>3 DEF Disk
  <2>5. \A x \in Block : x # b => d1[x] = d[x]
    BY <1>t, Zenon DEF d1, Zeroed, Disk
  <2>. QED  BY <2>4, <2>5
<1>. HIDE DEF d2
<1>5. Addr(d, A, i, NDIRECT + 1 + c) = 0 /\ Addr(d2, A, i, NDIRECT + 1 + c) = b
  BY <1>1, <1>4, Zenon DEF Addr
<1>6. ASSUME NEW j \in Inode, NEW l \in Place, j # i \/ l # NDIRECT + 1 + c PROVE Addr(d2, A, j, l) = Addr(d, A, j, l)
  <2>1. CASE l <= NDIRECT
    BY <2>1, Zenon DEF Addr
  <2>2. CASE ~(l <= NDIRECT) /\ j # i
    <3>1. d2[A[j][NDIRECT]] = d[A[j][NDIRECT]]
      BY <1>2, <1>4, <2>2, Zenon
    <3>. QED  BY <2>2, <3>1, SMT DEF Addr
  <2>3. CASE ~(l <= NDIRECT) /\ j = i
    <3>1. l - NDIRECT - 1 \in D!Cells /\ l - NDIRECT - 1 # c
      BY <1>t, <1>6, <2>3 DEF Place, D!Cells
    <3>2. d2[n][l - NDIRECT - 1] = d[n][l - NDIRECT - 1]
      BY <1>4, <3>1, Zenon
    <3>. QED  BY <2>3, <3>2, Zenon DEF Addr
  <2>. QED  BY <2>1, <2>2, <2>3, Zenon
<1>7. \A x \in Block : x # b /\ (\A j \in Inode : Addr(d, A, j, NDIRECT) # x) => d2[x] = d[x]
  <2>1. Addr(d, A, i, NDIRECT) = n
    BY <1>t DEF Addr
  <2>. QED  BY <1>4, <2>1, Zenon
<1>8. d2 \in Disk /\ A \in Addrs /\ NDIRECT + 1 + c \in Place
  BY <1>1, <1>4, <1>t, Zenon
<1>9. DataOK(d2, u \cup {b}, A, f)
  <2>. DEFINE k == NDIRECT + 1 + c
  <2>1. k \in Place /\ Addr(d, A, i, k) = 0 /\ Addr(d2, A, i, k) = b
    BY <1>5, <1>8, Zenon
  <2>2. \A j \in Inode : \A l \in Place : j # i \/ l # k => Addr(d2, A, j, l) = Addr(d, A, j, l)
    BY <1>6, Zenon
  <2>. HIDE DEF k
  <2>3. Comes(b, i, k, d, A, d2, A)
    BY <1>7, <2>1, <2>2, Zenon DEF Comes
  <2>. QED  BY <1>8, <2>1, <2>3, NewBlock, Zenon
<1>. QED  BY <1>5, <1>9, Zenon DEF d1, d2

(* The condition under which balloc does not panic.                        *)
LEMMA Room ==
  ASSUME NEW u \in SUBSET Block
  PROVE  /\ Cardinality(u) \in Nat /\ (Cardinality(u) < NBLOCKS => u # Block)
         /\ \A b \in Block : b \notin u => Cardinality(u \cup {b}) = Cardinality(u) + 1
<1>1. IsFiniteSet(Block) /\ Cardinality(Block) = NBLOCKS
  <2>1. 0 \in Int /\ NBLOCKS - 1 \in Int /\ NBLOCKS \in Nat \ {0}
    BY FileAssumption
  <2>. QED  BY <2>1, FS_Interval DEF Block
<1>2. IsFiniteSet(u)
  BY <1>1, FS_Subset, Zenon
<1>3. Cardinality(u) \in Nat
  BY <1>2, FS_CardinalityType, Zenon
<1>4. \A b \in Block : b \notin u => Cardinality(u \cup {b}) = Cardinality(u) + 1
  BY <1>2, FS_AddElement, Zenon
<1>5. Cardinality(u) < NBLOCKS => u # Block
  BY <1>1, <1>3, FileAssumption
<1>. QED  BY <1>3, <1>4, <1>5, Zenon

(* ip->addrs[k], found or allocated.                                       *)
DirectGives(d, u, A, f, i, k) ==
  \E d2, u2, a2, b :
    /\ D!Direct(Rec(d, u, A[i]), k) = [at |-> b, s |-> Rec(d2, u2, a2)]
    /\ DataOK(d2, u2, [A EXCEPT ![i] = a2], f) /\ b # 0 /\ b \in Block /\ a2[k] = b
    /\ A[i][k] # 0 => d2 = d /\ u2 = u
    /\ A[i][k] = 0 => b \notin u /\ u2 = u \cup {b}

LEMMA DirectIs ==
  ASSUME NEW d, NEW u, NEW A, NEW f, DataOK(d, u, A, f), NEW i \in Inode, NEW k \in 0 .. NDIRECT,
         A[i][k] = 0 => u # Block
  PROVE  DirectGives(d, u, A, f, i, k)
<1>t. d \in Disk /\ u \in SUBSET Block /\ 0 \in u /\ A \in Addrs /\ A[i] \in [0 .. NDIRECT -> Block] /\ A[i][k] \in Block
  <2>1. d \in Disk /\ u \in SUBSET Block /\ 0 \in u /\ A \in Addrs
    BY Zenon DEF DataOK
  <2>. QED  BY <2>1 DEF Addrs
<1>a. Rec(d, u, A[i]).addrs = A[i]
  BY DEF Rec
<1>. USE DEF DirectGives
<1>1. CASE A[i][k] # 0
  <2>1. D!Direct(Rec(d, u, A[i]), k) = [at |-> A[i][k], s |-> Rec(d, u, A[i])]
    BY <1>1, <1>a, Zenon DEF D!Direct
  <2>2. [A EXCEPT ![i] = A[i]] = A
    BY <1>t DEF Addrs
  <2>. WITNESS d, u, A[i], A[i][k]
  <2>. QED  BY <1>1, <1>t, <2>1, <2>2, Zenon
<1>2. CASE A[i][k] = 0
  <2>1. PICK b \in Block \ u : D!balloc(Rec(d, u, A[i])) = [at |-> b, s |-> Rec(Zeroed(d, b), u \cup {b}, A[i])]
    <3>1. BallocGives(d, u, A[i])
      BY <1>2, <1>t, BallocIs, Zenon
    <3>. QED  BY <3>1, Zenon DEF BallocGives
  <2>. DEFINE d2 == Zeroed(d, b)
              a2 == [A[i] EXCEPT ![k] = b]
  <2>2. D!Direct(Rec(d, u, A[i]), k) = [at |-> b, s |-> Rec(d2, u \cup {b}, a2)]
    <3>. DEFINE a == D!balloc(Rec(d, u, A[i]))
                r == Rec(d2, u \cup {b}, A[i])
    <3>1. a.at = b /\ a.s = r
      BY <2>1
    <3>2. D!Direct(Rec(d, u, A[i]), k) = [at |-> a.at, s |-> [a.s EXCEPT !.addrs[k] = a.at]]
      BY <1>2, <1>a, Zenon DEF D!Direct
    <3>3. [r EXCEPT !.addrs[k] = b] = Rec(d2, u \cup {b}, a2)
      <4>. HIDE DEF d2
      <4>. QED  BY <1>t DEF Rec
    <3>. HIDE DEF a, r, d2, a2
    <3>. QED  BY <3>1, <3>2, <3>3, Zenon
  <2>3. DataOK(d2, u \cup {b}, [A EXCEPT ![i] = a2], f)
    <3>1. DataOK(Zeroed(d, b), u \cup {b}, NewAddr(A, i, k, b), f)
      BY <1>2, AllocDirect, Zenon
    <3>. QED  BY <3>1, Zenon DEF NewAddr
  <2>4. a2[k] = b /\ b # 0
    BY <1>t
  <2>. HIDE DEF d2, a2
  <2>. WITNESS d2, u \cup {b}, a2, b
  <2>. QED  BY <1>2, <2>2, <2>3, <2>4, Zenon
<1>. QED  BY <1>1, <1>2, Zenon

(* The block behind an entry of the indirect block.                        *)
IndirectGives(d, u, A, f, i, c) ==
  \E d2, u2, a2, b :
    /\ D!Indirect(Rec(d, u, A[i]), c) = [at |-> b, s |-> Rec(d2, u2, a2)]
    /\ DataOK(d2, u2, [A EXCEPT ![i] = a2], f) /\ b # 0 /\ b \in Block
    /\ Addr(d2, [A EXCEPT ![i] = a2], i, NDIRECT + 1 + c) = b

LEMMA IndirectIs ==
  ASSUME NEW d, NEW u, NEW A, NEW f, DataOK(d, u, A, f), NEW i \in Inode, NEW c \in D!Cells,
         A[i][NDIRECT] = 0 => Cardinality(u) + 2 <= NBLOCKS,
         A[i][NDIRECT] # 0 /\ d[A[i][NDIRECT]][c] = 0 => Cardinality(u) + 1 <= NBLOCKS
  PROVE  IndirectGives(d, u, A, f, i, c)
<1>t. /\ d \in Disk /\ u \in SUBSET Block /\ 0 \in u /\ A \in Addrs /\ A[i] \in [0 .. NDIRECT -> Block]
      /\ NDIRECT \in Nat /\ BSIZE \in Nat /\ NDIRECT \in 0 .. NDIRECT
  <2>1. d \in Disk /\ u \in SUBSET Block /\ 0 \in u /\ A \in Addrs
    BY Zenon DEF DataOK
  <2>. QED  BY <2>1, FileAssumption DEF Addrs
<1>r. Cardinality(u) \in Nat /\ NBLOCKS \in Nat
  BY <1>t, Room, FileAssumption
<1>1. A[i][NDIRECT] = 0 => u # Block
  <2>1. A[i][NDIRECT] = 0 => Cardinality(u) < NBLOCKS
    BY <1>r
  <2>. QED  BY <1>t, <2>1, Room, Zenon
<1>2. PICK d1, u1, a1, n :
           /\ D!Direct(Rec(d, u, A[i]), NDIRECT) = [at |-> n, s |-> Rec(d1, u1, a1)]
           /\ DataOK(d1, u1, [A EXCEPT ![i] = a1], f) /\ n # 0 /\ n \in Block /\ a1[NDIRECT] = n
           /\ A[i][NDIRECT] # 0 => d1 = d /\ u1 = u
           /\ A[i][NDIRECT] = 0 => n \notin u /\ u1 = u \cup {n}
  <2>1. DirectGives(d, u, A, f, i, NDIRECT)
    BY <1>1, <1>t, DirectIs, Zenon
  <2>. QED  BY <2>1, Zenon DEF DirectGives
<1>. DEFINE A1 == [A EXCEPT ![i] = a1]
            at == d1[n][c]
<1>3. d1 \in Disk /\ u1 \in SUBSET Block /\ A1 \in Addrs /\ A1[i] = a1 /\ A1[i][NDIRECT] = n
  <2>1. d1 \in Disk /\ u1 \in SUBSET Block /\ A1 \in Addrs
    BY <1>2, Zenon DEF DataOK
  <2>. QED  BY <1>2, <1>t, <2>1 DEF Addrs
<1>4. D!Indirect(Rec(d, u, A[i]), c) =
        IF at # 0 THEN [at |-> at, s |-> Rec(d1, u1, a1)]
        ELSE [at |-> D!balloc(Rec(d1, u1, a1)).at,
              s |-> [D!balloc(Rec(d1, u1, a1)).s EXCEPT !.disk[n][c] = D!balloc(Rec(d1, u1, a1)).at]]
  <2>. DEFINE ind == D!Direct(Rec(d, u, A[i]), NDIRECT)
  <2>1. ind.at = n /\ ind.s = Rec(d1, u1, a1) /\ ind.s.disk = d1
    <3>1. ind.at = n /\ ind.s = Rec(d1, u1, a1)
      BY <1>2
    <3>2. Rec(d1, u1, a1).disk = d1
      BY DEF Rec
    <3>. QED  BY <3>1, <3>2, Zenon
  <2>. HIDE DEF ind
  <2>2. D!Indirect(Rec(d, u, A[i]), c) =
          IF ind.s.disk[ind.at][c] # 0 THEN [at |-> ind.s.disk[ind.at][c], s |-> ind.s]
          ELSE [at |-> D!balloc(ind.s).at, s |-> [D!balloc(ind.s).s EXCEPT !.disk[ind.at][c] = D!balloc(ind.s).at]]
    BY Zenon DEF D!Indirect, ind
  <2>. QED  BY <2>1, <2>2, Zenon
<1>5. NDIRECT + 1 + c \in Place /\ ~(NDIRECT + 1 + c <= NDIRECT) /\ (NDIRECT + 1 + c) - NDIRECT - 1 = c
  BY EntryPlace, Zenon
<1>. USE DEF IndirectGives
<1>6. CASE at # 0
  <2>1. Addr(d1, A1, i, NDIRECT + 1 + c) = at
    BY <1>2, <1>3, <1>5, Zenon DEF Addr
  <2>2. at \in Block
    BY <1>2, <1>5, <2>1, AddrIsBlock, Zenon
  <2>3. D!Indirect(Rec(d, u, A[i]), c) = [at |-> at, s |-> Rec(d1, u1, a1)]
    BY <1>4, <1>6, Zenon
  <2>. HIDE DEF at
  <2>. WITNESS d1, u1, a1, at
  <2>. QED  BY <1>2, <1>6, <2>1, <2>2, <2>3, Zenon
<1>7. CASE at = 0
  <2>1. u1 # Block
    <3>1. CASE A[i][NDIRECT] = 0
      <4>1. Cardinality(u1) = Cardinality(u) + 1
        BY <1>2, <1>t, <3>1, Room, Zenon
      <4>2. Cardinality(u1) < NBLOCKS
        BY <1>r, <3>1, <4>1
      <4>. QED  BY <1>3, <4>2, Room, Zenon
    <3>2. CASE A[i][NDIRECT] # 0
      <4>1. D!Direct(Rec(d, u, A[i]), NDIRECT) = [at |-> A[i][NDIRECT], s |-> Rec(d, u, A[i])]
        <5>1. Rec(d, u, A[i]).addrs = A[i]
          BY DEF Rec
        <5>. QED  BY <3>2, <5>1, Zenon DEF D!Direct
      <4>2. n = A[i][NDIRECT]
        BY <1>2, <4>1
      <4>3. Cardinality(u1) < NBLOCKS
        BY <1>2, <1>7, <1>r, <3>2, <4>2
      <4>. QED  BY <1>3, <4>3, Room, Zenon
    <3>. QED  BY <3>1, <3>2, Zenon
  <2>2. PICK b \in Block \ u1 : D!balloc(Rec(d1, u1, a1)) = [at |-> b, s |-> Rec(Zeroed(d1, b), u1 \cup {b}, a1)]
    <3>1. BallocGives(d1, u1, a1)
      BY <1>3, <2>1, BallocIs, Zenon
    <3>. QED  BY <3>1, Zenon DEF BallocGives
  <2>. DEFINE e1 == Zeroed(d1, b)
              e2 == Enter(e1, n, c, b)
  <2>3. D!Indirect(Rec(d, u, A[i]), c) = [at |-> b, s |-> Rec(e2, u1 \cup {b}, a1)]
    <3>. DEFINE a == D!balloc(Rec(d1, u1, a1))
                r == Rec(e1, u1 \cup {b}, a1)
    <3>1. a.at = b /\ a.s = r
      BY <2>2
    <3>2. D!Indirect(Rec(d, u, A[i]), c) = [at |-> a.at, s |-> [a.s EXCEPT !.disk[n][c] = a.at]]
      BY <1>4, <1>7, Zenon
    <3>3. [r EXCEPT !.disk[n][c] = b] = Rec(e2, u1 \cup {b}, a1)
      <4>. HIDE DEF e1
      <4>. QED  BY DEF Rec, Enter
    <3>. HIDE DEF a, r, e2
    <3>. QED  BY <3>1, <3>2, <3>3, Zenon
  <2>4. DataOK(e2, u1 \cup {b}, A1, f) /\ Addr(e2, A1, i, NDIRECT + 1 + c) = b
    <3>1. A1[i][NDIRECT] = n /\ n # 0 /\ d1[n][c] = 0 /\ DataOK(d1, u1, A1, f)
      BY <1>2, <1>3, <1>7, Zenon
    <3>. HIDE DEF A1, e1, e2
    <3>2. /\ DataOK(Enter(Zeroed(d1, b), A1[i][NDIRECT], c, b), u1 \cup {b}, A1, f)
          /\ Addr(Enter(Zeroed(d1, b), A1[i][NDIRECT], c, b), A1, i, NDIRECT + 1 + c) = b
      <4>1. A1[i][NDIRECT] # 0 /\ d1[A1[i][NDIRECT]][c] = 0 /\ DataOK(d1, u1, A1, f)
        BY <3>1, Zenon
      <4>. QED  BY <4>1, AllocEntry, SMT
    <3>. QED  BY <3>1, <3>2, Zenon DEF e1, e2
  <2>5. b # 0
    BY <1>2, Zenon DEF DataOK
  <2>. HIDE DEF e1, e2
  <2>. WITNESS e2, u1 \cup {b}, a1, b
  <2>. QED  BY <2>3, <2>4, <2>5, Zenon
<1>. QED  BY <1>6, <1>7, Zenon

(* bmap: the block of the file's block bn, found or allocated.             *)
BmapGives(d, u, A, f, i, bn) ==
  \E d2, u2, a2, b :
    /\ D!bmap(Rec(d, u, A[i]), bn) = [at |-> b, s |-> Rec(d2, u2, a2)]
    /\ DataOK(d2, u2, [A EXCEPT ![i] = a2], f) /\ b # 0 /\ b \in Block
    /\ Addr(d2, [A EXCEPT ![i] = a2], i, PlaceOf(bn)) = b

LEMMA BmapIs ==
  ASSUME NEW d, NEW u, NEW A, NEW f, DataOK(d, u, A, f), NEW i \in Inode, NEW bn \in 0 .. D!MAXFILE - 1,
         D!Needs(Rec(d, u, A[i]), bn) <= NBLOCKS - Cardinality(u)
  PROVE  BmapGives(d, u, A, f, i, bn)
<1>t. NDIRECT \in Nat /\ BSIZE \in Nat /\ NBLOCKS \in Nat /\ D!MAXFILE = NDIRECT + BSIZE
  BY FileAssumption DEF D!MAXFILE, D!NINDIRECT
<1>u. u \in SUBSET Block /\ A \in Addrs
  BY Zenon DEF DataOK
<1>r. Cardinality(u) \in Nat
  BY <1>u, Room, Zenon
<1>a. Rec(d, u, A[i]).addrs = A[i] /\ Rec(d, u, A[i]).disk = d
  BY DEF Rec
<1>1. CASE bn < NDIRECT
  <2>1. bn \in 0 .. NDIRECT /\ PlaceOf(bn) = bn /\ bn <= NDIRECT
    BY <1>1, <1>t DEF PlaceOf
  <2>2. D!bmap(Rec(d, u, A[i]), bn) = D!Direct(Rec(d, u, A[i]), bn)
    BY <1>1, Zenon DEF D!bmap
  <2>3. A[i][bn] = 0 => u # Block
    <3>1. A[i][bn] = 0 => D!Needs(Rec(d, u, A[i]), bn) = 1
      BY <1>1, <1>a, Zenon DEF D!Needs
    <3>2. A[i][bn] = 0 => Cardinality(u) < NBLOCKS
      BY <1>r, <1>t, <3>1
    <3>. QED  BY <1>u, <3>2, Room, Zenon
  <2>4. DirectGives(d, u, A, f, i, bn)
    BY <2>1, <2>3, DirectIs, Zenon
  <2>5. PICK d2, u2, a2, b :
          /\ D!Direct(Rec(d, u, A[i]), bn) = [at |-> b, s |-> Rec(d2, u2, a2)]
          /\ DataOK(d2, u2, [A EXCEPT ![i] = a2], f) /\ b # 0 /\ b \in Block /\ a2[bn] = b
    BY <2>4, Zenon DEF DirectGives
  <2>6. [A EXCEPT ![i] = a2][i] = a2
    BY <1>u DEF Addrs
  <2>7. Addr(d2, [A EXCEPT ![i] = a2], i, PlaceOf(bn)) = b
    BY <2>1, <2>5, <2>6, Zenon DEF Addr
  <2>. USE DEF BmapGives
  <2>. WITNESS d2, u2, a2, b
  <2>. QED  BY <2>2, <2>5, <2>7, Zenon
<1>2. CASE ~(bn < NDIRECT)
  <2>. DEFINE c == bn - NDIRECT
  <2>1. c \in D!Cells /\ PlaceOf(bn) = NDIRECT + 1 + c
    BY <1>2, <1>t DEF PlaceOf, D!Cells
  <2>2. D!bmap(Rec(d, u, A[i]), bn) = D!Indirect(Rec(d, u, A[i]), c)
    BY <1>2, Zenon DEF D!bmap
  <2>3. /\ A[i][NDIRECT] = 0 => D!Needs(Rec(d, u, A[i]), bn) = 2
        /\ A[i][NDIRECT] # 0 /\ d[A[i][NDIRECT]][c] = 0 => D!Needs(Rec(d, u, A[i]), bn) = 1
    BY <1>2, <1>a, Zenon DEF D!Needs
  <2>. HIDE DEF c
  <2>4. /\ A[i][NDIRECT] = 0 => Cardinality(u) + 2 <= NBLOCKS
        /\ A[i][NDIRECT] # 0 /\ d[A[i][NDIRECT]][c] = 0 => Cardinality(u) + 1 <= NBLOCKS
    BY <1>r, <1>t, <2>3
  <2>5. IndirectGives(d, u, A, f, i, c)
    BY <2>1, <2>4, IndirectIs, Zenon
  <2>. QED  BY <2>1, <2>2, <2>5, Zenon DEF IndirectGives, BmapGives
<1>. QED  BY <1>1, <1>2, Zenon

(* Reading finds the block and allocates none.                             *)
LEMMA BmapFinds ==
  ASSUME NEW d, NEW u, NEW A, NEW i, NEW bn \in 0 .. D!MAXFILE - 1, Addr(d, A, i, PlaceOf(bn)) # 0
  PROVE  D!bmap(Rec(d, u, A[i]), bn).at = Addr(d, A, i, PlaceOf(bn)) /\ D!Needs(Rec(d, u, A[i]), bn) = 0
<1>t. NDIRECT \in Nat /\ BSIZE \in Nat /\ D!MAXFILE = NDIRECT + BSIZE
  BY FileAssumption DEF D!MAXFILE, D!NINDIRECT
<1>a. Rec(d, u, A[i]).addrs = A[i] /\ Rec(d, u, A[i]).disk = d
  BY DEF Rec
<1>1. CASE bn < NDIRECT
  <2>1. PlaceOf(bn) = bn /\ bn <= NDIRECT
    BY <1>1, <1>t DEF PlaceOf
  <2>2. Addr(d, A, i, PlaceOf(bn)) = A[i][bn]
    BY <2>1, Zenon DEF Addr
  <2>3. D!Direct(Rec(d, u, A[i]), bn) = [at |-> A[i][bn], s |-> Rec(d, u, A[i])]
    BY <1>a, <2>2, Zenon DEF D!Direct
  <2>4. D!bmap(Rec(d, u, A[i]), bn) = [at |-> A[i][bn], s |-> Rec(d, u, A[i])]
    BY <1>1, <2>3, Zenon DEF D!bmap
  <2>5. D!Needs(Rec(d, u, A[i]), bn) = 0
    BY <1>1, <1>a, <2>2, Zenon DEF D!Needs
  <2>. QED  BY <2>2, <2>4, <2>5
<1>2. CASE ~(bn < NDIRECT)
  <2>. DEFINE c == bn - NDIRECT
              n == A[i][NDIRECT]
  <2>1. PlaceOf(bn) = bn + 1 /\ ~(bn + 1 <= NDIRECT) /\ (bn + 1) - NDIRECT - 1 = c
    BY <1>2, <1>t DEF PlaceOf
  <2>2. n # 0 /\ Addr(d, A, i, PlaceOf(bn)) = d[n][c] /\ d[n][c] # 0
    BY <2>1, Zenon DEF Addr
  <2>3. D!Direct(Rec(d, u, A[i]), NDIRECT) = [at |-> n, s |-> Rec(d, u, A[i])]
    BY <1>a, <2>2, Zenon DEF D!Direct
  <2>4. D!Indirect(Rec(d, u, A[i]), c) = [at |-> d[n][c], s |-> Rec(d, u, A[i])]
    <3>. DEFINE ind == D!Direct(Rec(d, u, A[i]), NDIRECT)
    <3>1. ind.at = n /\ ind.s = Rec(d, u, A[i])
      BY <2>3
    <3>2. ind.s.disk[ind.at][c] = d[n][c]
      BY <1>a, <3>1, Zenon
    <3>. HIDE DEF ind
    <3>3. D!Indirect(Rec(d, u, A[i]), c) =
          IF ind.s.disk[ind.at][c] # 0 THEN [at |-> ind.s.disk[ind.at][c], s |-> ind.s]
          ELSE [at |-> D!balloc(ind.s).at, s |-> [D!balloc(ind.s).s EXCEPT !.disk[ind.at][c] = D!balloc(ind.s).at]]
      BY Zenon DEF D!Indirect, ind
    <3>. QED  BY <2>2, <3>1, <3>2, <3>3, Zenon
  <2>5. D!bmap(Rec(d, u, A[i]), bn) = [at |-> d[n][c], s |-> Rec(d, u, A[i])]
    BY <1>2, <2>4, Zenon DEF D!bmap
  <2>6. D!Needs(Rec(d, u, A[i]), bn) = 0
    BY <1>2, <1>a, <2>2, Zenon DEF D!Needs
  <2>. HIDE DEF n, c
  <2>. QED  BY <2>2, <2>5, <2>6
<1>. QED  BY <1>1, <1>2, Zenon

(* The larger and the smaller of two numbers.                              *)
LEMMA MaxOf ==
  ASSUME NEW x \in Nat, NEW y \in Nat
  PROVE  D!Max({x, y}) = IF x >= y THEN x ELSE y
<1>1. \E z \in {x, y} : \A w \in {x, y} : z >= w
  OBVIOUS
<1>2. D!Max({x, y}) \in {x, y} /\ \A w \in {x, y} : D!Max({x, y}) >= w
  BY <1>1, Zenon DEF D!Max
<1>. HIDE DEF D!Max
<1>. QED  BY <1>2

LEMMA MinOf ==
  ASSUME NEW x \in Nat, NEW y \in Nat
  PROVE  D!Min({x, y}) = IF x <= y THEN x ELSE y
<1>1. \E z \in {x, y} : \A w \in {x, y} : z <= w
  OBVIOUS
<1>2. D!Min({x, y}) \in {x, y} /\ \A w \in {x, y} : D!Min({x, y}) <= w
  BY <1>1, Zenon DEF D!Min
<1>. HIDE DEF D!Min
<1>. QED  BY <1>2

(* The bytes of a file after a write.                                      *)
WriteGives(g, h, off, m, v) ==
  /\ h \in Seq(Value) /\ Len(h) = IF Len(g) >= off + m THEN Len(g) ELSE off + m
  /\ \A k \in 1 .. Len(h) : h[k] = IF k > off /\ k <= off + m THEN v ELSE g[k]

LEMMA WrittenIs ==
  ASSUME NEW g \in Seq(Value), NEW off \in Nat, NEW m \in Nat, NEW v \in Value, off <= Len(g)
  PROVE  WriteGives(g, D!Written(g, off, m, v), off, m, v)
<1>. DEFINE n == D!Max({Len(g), off + m})
            h == [k \in 1 .. n |-> IF k > off /\ k <= off + m THEN v ELSE IF k <= Len(g) THEN g[k] ELSE 0]
<1>1. Len(g) \in Nat /\ n \in Nat /\ n = IF Len(g) >= off + m THEN Len(g) ELSE off + m
  <2>1. Len(g) \in Nat /\ off + m \in Nat
    OBVIOUS
  <2>2. n = IF Len(g) >= off + m THEN Len(g) ELSE off + m
    BY <2>1, MaxOf, Zenon
  <2>. HIDE DEF n
  <2>. QED  BY <2>1, <2>2
<1>. HIDE DEF n
<1>2. \A k \in 1 .. n : h[k] = IF k > off /\ k <= off + m THEN v ELSE g[k]
  BY <1>1
<1>3. \A k \in 1 .. n : h[k] \in Value
  BY <1>1
<1>4. h \in Seq(Value) /\ Len(h) = n
  BY <1>1, <1>3
<1>5. D!Written(g, off, m, v) = h
  BY Zenon DEF D!Written, n
<1>. HIDE DEF h
<1>. QED  BY <1>1, <1>2, <1>4, <1>5, Zenon DEF WriteGives

(* A write inside one block.                                               *)
LEMMA SameBlock ==
  ASSUME NEW off \in Nat, NEW m \in Nat, NEW o \in Nat, (off % BSIZE) + m <= BSIZE
  PROVE  (off <= o /\ o < off + m)
           <=> (o \div BSIZE = off \div BSIZE /\ o % BSIZE \in (off % BSIZE) .. (off % BSIZE) + m - 1)
<1>u. BSIZE \in Int /\ BSIZE > 0
  BY FileAssumption
<1>. DEFINE q == off \div BSIZE
            r == off % BSIZE
            s == o \div BSIZE
            t == o % BSIZE
<1>1. off = BSIZE * q + r /\ q \in Int /\ r \in 0 .. BSIZE - 1
  BY <1>u, ModParts
<1>2. o = BSIZE * s + t /\ s \in Int /\ t \in 0 .. BSIZE - 1
  BY <1>u, ModParts
<1>. HIDE DEF q, r, s, t
<1>3. r + m <= BSIZE
  BY Zenon DEF r
<1>4. ASSUME off <= o, o < off + m PROVE s = q /\ t \in r .. r + m - 1
  <2>. DEFINE x == r + (o - off)
  <2>1. x \in 0 .. BSIZE - 1 /\ x \in r .. r + m - 1
    BY <1>1, <1>3, <1>4, <1>u
  <2>2. BSIZE * s + t = BSIZE * q + x
    BY <1>1, <1>2, <1>u
  <2>. HIDE DEF x
  <2>3. s = q /\ t = x
    BY <1>1, <1>2, <1>u, <2>1, <2>2, ModUnique
  <2>. QED  BY <2>1, <2>3, Zenon
<1>5. ASSUME s = q, t \in r .. r + m - 1 PROVE off <= o /\ o < off + m
  BY <1>1, <1>2, <1>5, <1>u
<1>. QED  BY <1>4, <1>5, Zenon DEF q, r, s, t

(* One pass of writei's loop after bmap.                                   *)
Filled(d, a, w, m, v) ==
  [d EXCEPT ![a] = [x \in D!Cells |-> IF x \in w .. w + m - 1 THEN v ELSE d[a][x]]]

LEMMA Fill ==
  ASSUME NEW d, NEW u, NEW A, NEW f, DataOK(d, u, A, f), NEW i \in Inode, NEW off \in Nat, NEW m \in Nat,
         NEW v \in Value, off <= Len(f[i]), (off % BSIZE) + m <= BSIZE, off < D!MAXFILE * BSIZE,
         off + m <= D!MAXFILE * BSIZE, Addr(d, A, i, PlaceOf(off \div BSIZE)) # 0
  PROVE  DataOK(Filled(d, Addr(d, A, i, PlaceOf(off \div BSIZE)), off % BSIZE, m, v), u, A,
                [f EXCEPT ![i] = D!Written(f[i], off, m, v)])
<1>. DEFINE k == PlaceOf(off \div BSIZE)
            a == Addr(d, A, i, k)
            d2 == Filled(d, a, off % BSIZE, m, v)
            g == D!Written(f[i], off, m, v)
            f2 == [f EXCEPT ![i] = g]
<1>t. /\ d \in Disk /\ u \subseteq Block /\ 0 \in u /\ A \in Addrs /\ f \in [Inode -> Seq(Value)]
      /\ Owned(d, u, A) /\ Stored(d, A, f) /\ \A j \in Inode : Len(f[j]) <= D!MAXFILE * BSIZE
  BY DEF DataOK
<1>o. Once(d, A)
  BY Zenon DEF DataOK, Owned
<1>b. NDIRECT \in Nat /\ NDIRECT \in Place /\ BSIZE \in Nat /\ D!MAXFILE * BSIZE \in Nat
  BY FileAssumption DEF Place, D!MAXFILE, D!NINDIRECT
<1>k. k \in Place /\ k # NDIRECT
  BY InBlock, Zenon
<1>a. a \in Block /\ a # 0
  BY <1>k, AddrIsBlock, Zenon
<1>. HIDE DEF k
<1>1. /\ d2 \in Disk /\ \A x \in Block : x # a => d2[x] = d[x]
      /\ \A x \in D!Cells : d2[a][x] = IF x \in (off % BSIZE) .. (off % BSIZE) + m - 1 THEN v ELSE d[a][x]
  <2>. DEFINE w == off % BSIZE
              e == [x \in D!Cells |-> IF x \in w .. w + m - 1 THEN v ELSE d[a][x]]
  <2>. HIDE DEF w, a
  <2>1. \A x \in D!Cells : d[a][x] \in Value
    BY <1>a, <1>t DEF Disk
  <2>2. e \in [D!Cells -> Value]
    BY <2>1
  <2>3. \A x \in D!Cells : e[x] = IF x \in w .. w + m - 1 THEN v ELSE d[a][x]
    OBVIOUS
  <2>4. d2 = [d EXCEPT ![a] = e]
    BY Zenon DEF Filled, w
  <2>. HIDE DEF e, d2
  <2>5. d2 \in Disk /\ d2[a] = e /\ \A x \in Block : x # a => d2[x] = d[x]
    BY <1>a, <1>t, <2>2, <2>4 DEF Disk
  <2>. QED  BY <2>3, <2>5, Zenon DEF w
<1>2. /\ g \in Seq(Value) /\ Len(g) \in Nat /\ Len(f[i]) \in Nat
      /\ Len(g) = IF Len(f[i]) >= off + m THEN Len(f[i]) ELSE off + m
      /\ \A o \in 0 .. Len(g) - 1 : g[o + 1] = IF off <= o /\ o < off + m THEN v ELSE f[i][o + 1]
  <2>1. f[i] \in Seq(Value)
    BY <1>t
  <2>2. /\ g \in Seq(Value) /\ Len(g) = IF Len(f[i]) >= off + m THEN Len(f[i]) ELSE off + m
        /\ \A l \in 1 .. Len(g) : g[l] = IF l > off /\ l <= off + m THEN v ELSE f[i][l]
    <3>1. WriteGives(f[i], D!Written(f[i], off, m, v), off, m, v)
      BY <2>1, WrittenIs, Zenon
    <3>. QED  BY <3>1, Zenon DEF WriteGives
  <2>. HIDE DEF g
  <2>3. Len(g) \in Nat /\ Len(f[i]) \in Nat
    BY <2>1, <2>2
  <2>4. ASSUME NEW o \in 0 .. Len(g) - 1 PROVE g[o + 1] = IF off <= o /\ o < off + m THEN v ELSE f[i][o + 1]
    <3>1. o + 1 \in 1 .. Len(g) /\ (o + 1 > off <=> off <= o) /\ (o + 1 <= off + m <=> o < off + m)
      BY <2>3
    <3>. QED  BY <2>2, <3>1, Zenon
  <2>. QED  BY <2>2, <2>3, <2>4, Zenon
<1>. HIDE DEF d2, g
<1>3. f2 \in [Inode -> Seq(Value)] /\ f2[i] = g /\ \A j \in Inode : j # i => f2[j] = f[j]
  BY <1>2, <1>t
<1>. HIDE DEF f2
<1>4. \A j \in Inode : Len(f2[j]) <= D!MAXFILE * BSIZE
  <2>1. Len(g) <= D!MAXFILE * BSIZE
    BY <1>2, <1>t
  <2>. QED  BY <1>3, <1>t, <2>1, Zenon
<1>5. ASSUME NEW j \in Inode, NEW l \in Place PROVE Addr(d2, A, j, l) = Addr(d, A, j, l)
  <2>1. CASE l <= NDIRECT
    BY <2>1, Zenon DEF Addr
  <2>2. CASE A[j][NDIRECT] = 0
    BY <2>2, Zenon DEF Addr
  <2>3. CASE A[j][NDIRECT] # 0
    <3>1. Addr(d, A, j, NDIRECT) = A[j][NDIRECT]
      BY <1>b DEF Addr
    <3>2. A[j][NDIRECT] \in Block
      BY <1>b, <3>1, AddrIsBlock, Zenon
    <3>3. A[j][NDIRECT] # a
      <4>. SUFFICES ASSUME A[j][NDIRECT] = a PROVE FALSE
        OBVIOUS
      <4>1. Addr(d, A, j, NDIRECT) = Addr(d, A, i, k) /\ Addr(d, A, j, NDIRECT) # 0
        BY <2>3, <3>1, Zenon
      <4>. QED  BY <1>b, <1>k, <1>o, <4>1, SMT DEF Once
    <3>4. d2[A[j][NDIRECT]] = d[A[j][NDIRECT]]
      BY <1>1, <3>2, <3>3, Zenon
    <3>. QED  BY <3>4, Zenon DEF Addr
  <2>. QED  BY <2>1, <2>2, <2>3, Zenon
<1>6. Owned(d2, u, A)
  BY <1>5, <1>t, SMT DEF Owned, Once
<1>7. ASSUME NEW j \in Inode, NEW o \in 0 .. Len(f2[j]) - 1
      PROVE  /\ Addr(d2, A, j, PlaceOf(o \div BSIZE)) # 0
             /\ d2[Addr(d2, A, j, PlaceOf(o \div BSIZE))][o % BSIZE] = f2[j][o + 1]
  <2>. DEFINE l == PlaceOf(o \div BSIZE)
              b == Addr(d, A, j, l)
  <2>1. o \in Nat /\ o < D!MAXFILE * BSIZE
    <3>1. Len(f2[j]) \in Nat /\ Len(f2[j]) <= D!MAXFILE * BSIZE
      BY <1>3, <1>4
    <3>. QED  BY <1>b, <3>1
  <2>2. l \in Place /\ o % BSIZE \in D!Cells /\ o \div BSIZE \in 0 .. D!MAXFILE - 1
    BY <2>1, InBlock, Zenon
  <2>3. Addr(d2, A, j, l) = b
    BY <1>5, <2>2, Zenon
  <2>4. ASSUME o < Len(f[j]) PROVE b # 0 /\ b \in Block /\ d[b][o % BSIZE] = f[j][o + 1]
    <3>1. o \in 0 .. Len(f[j]) - 1
      BY <1>t, <2>1, <2>4
    <3>. QED  BY <1>t, <2>2, <3>1, AddrIsBlock, Zenon DEF Stored
  <2>5. CASE j # i
    <3>1. f2[j] = f[j] /\ o < Len(f[j])
      BY <1>3, <1>t, <2>5
    <3>2. b # 0 /\ b \in Block /\ d[b][o % BSIZE] = f[j][o + 1]
      BY <2>1, <2>4, <3>1, Zenon
    <3>3. b # a
      BY <1>k, <1>o, <2>2, <2>5, <3>2, SMT DEF Once
    <3>4. d2[b] = d[b]
      BY <1>1, <3>2, <3>3, Zenon
    <3>. QED  BY <2>3, <3>1, <3>2, <3>4, Zenon
  <2>6. CASE j = i
    <3>1. f2[j] = g /\ o \in 0 .. Len(g) - 1
      BY <1>3, <2>6, Zenon
    <3>2. g[o + 1] = IF off <= o /\ o < off + m THEN v ELSE f[i][o + 1]
      BY <1>2, <3>1, Zenon
    <3>3. (off <= o /\ o < off + m)
            <=> (o \div BSIZE = off \div BSIZE /\ o % BSIZE \in (off % BSIZE) .. (off % BSIZE) + m - 1)
      BY <2>1, SameBlock, Zenon
    <3>4. CASE off <= o /\ o < off + m
      <4>1. l = k /\ b = a
        BY <2>6, <3>3, <3>4, Zenon DEF k
      <4>2. d2[b][o % BSIZE] = v
        BY <1>1, <2>2, <3>3, <3>4, <4>1, Zenon
      <4>. QED  BY <1>a, <2>3, <3>1, <3>2, <3>4, <4>1, <4>2, Zenon
    <3>5. CASE ~(off <= o /\ o < off + m)
      <4>1. o < Len(f[i])
        BY <1>2, <2>1, <3>1, <3>5
      <4>2. b # 0 /\ b \in Block /\ d[b][o % BSIZE] = f[i][o + 1]
        BY <2>1, <2>4, <2>6, <4>1, Zenon
      <4>3. CASE b # a
        <5>1. d2[b] = d[b]
          BY <1>1, <4>2, <4>3, Zenon
        <5>. QED  BY <2>3, <3>1, <3>2, <3>5, <4>2, <5>1, Zenon
      <4>4. CASE b = a
        <5>1. l = k
          BY <1>k, <1>o, <2>2, <2>6, <4>2, <4>4, SMT DEF Once
        <5>2. o \div BSIZE = off \div BSIZE
          <6>1. o \div BSIZE \in Nat /\ off \div BSIZE \in Nat
            <7>1. off \div BSIZE \in 0 .. D!MAXFILE - 1
              BY InBlock, Zenon
            <7>. QED  BY <2>2, <7>1
          <6>. QED  BY <1>b, <5>1, <6>1 DEF PlaceOf, k
        <5>3. d2[b][o % BSIZE] = d[b][o % BSIZE]
          BY <1>1, <2>2, <3>3, <3>5, <4>4, <5>2, Zenon
        <5>. QED  BY <2>3, <3>1, <3>2, <3>5, <4>2, <5>3, Zenon
      <4>. QED  BY <4>3, <4>4, Zenon
    <3>. QED  BY <3>4, <3>5, Zenon
  <2>. QED  BY <2>5, <2>6, Zenon
<1>8. Stored(d2, A, f2)
  BY <1>7, Zenon DEF Stored
<1>9. DataOK(d2, u, A, f2)
  BY <1>1, <1>3, <1>4, <1>6, <1>8, <1>t, Zenon DEF DataOK
<1>. QED  BY <1>9, Zenon DEF d2, g, f2, k

-----------------------------------------------------------------------------
(* The inductive invariant.  The ghost runs ahead of ip->size while a call *)
(* is in progress, and a call never writes past the largest file.          *)
FileTypes ==
  /\ d_size \in [Inode -> Nat]
  /\ d_call \in [Inode -> [off : Nat, tot : Nat, n : Nat, byte : Value]]
FileBounds ==
  \A i \in Inode :
    /\ d_size[i] <= Len(d_file[i])
    /\ d_call[i].off <= Len(d_file[i])
    /\ d_call[i].tot <= d_call[i].n
    /\ d_call[i].off + (d_call[i].n - d_call[i].tot) <= D!MAXFILE * BSIZE
FileInv == DataOK(d_disk, d_used, d_addrs, d_file) /\ FileTypes /\ FileBounds

(* Nothing is allocated, and no file has a byte.                           *)
LEMMA InitFile == D!Init => FileInv
<1>. SUFFICES ASSUME D!Init PROVE FileInv
  OBVIOUS
<1>. USE DEF D!Init
<1>u. NBLOCKS \in Nat /\ NBLOCKS > 0 /\ BSIZE \in Nat /\ NDIRECT \in Nat /\ D!MAXFILE * BSIZE \in Nat
  BY FileAssumption DEF D!MAXFILE, D!NINDIRECT
<1>1. 0 \in Block /\ D!Zeros \in [D!Cells -> Value]
  BY <1>u DEF Block, Value, D!Zeros
<1>2. d_disk \in Disk /\ d_addrs \in Addrs /\ d_used \subseteq Block /\ 0 \in d_used
  BY <1>1 DEF Disk, Addrs, Block
<1>3. \A i \in Inode : \A k \in Place : Addr(d_disk, d_addrs, i, k) = 0
  BY <1>u DEF Addr, Place
<1>4. Owned(d_disk, d_used, d_addrs)
  BY <1>3 DEF Owned, Once
<1>5. d_file \in [Inode -> Seq(Value)] /\ \A i \in Inode : Len(d_file[i]) = 0
  OBVIOUS
<1>6. Stored(d_disk, d_addrs, d_file)
  BY <1>5 DEF Stored
<1>7. DataOK(d_disk, d_used, d_addrs, d_file)
  BY <1>2, <1>4, <1>5, <1>6, <1>u DEF DataOK
<1>8. FileTypes
  BY <1>1 DEF FileTypes, D!Idle, Value
<1>9. FileBounds
  <2>1. \A i \in Inode : d_size[i] = 0 /\ d_call[i].off = 0 /\ d_call[i].tot = 0 /\ d_call[i].n = 0
    BY DEF D!Idle
  <2>. HIDE DEF D!Init
  <2>2. 0 <= 0 /\ 0 + (0 - 0) <= D!MAXFILE * BSIZE
    BY <1>u
  <2>. QED  BY <1>5, <2>1, <2>2, Zenon DEF FileBounds
<1>. QED  BY <1>7, <1>8, <1>9 DEF FileInv

(* A call that writei accepts ends within the largest file: off + n has    *)
(* not wrapped around, because off is not beyond the file.                 *)
LEMMA GoodWrite ==
  ASSUME FileInv, NEW i \in Inode, NEW off \in Nat, NEW n \in WriteCounts, ~D!BadWrite(i, off, n)
  PROVE  off <= Len(d_file[i]) /\ off + n <= D!MAXFILE * BSIZE /\ n \in Nat
<1>u. WORD \in Int /\ WORD > 0 /\ D!MAXFILE * BSIZE \in Nat /\ D!MAXFILE * BSIZE < WORD /\ n \in 0 .. WORD - 1
  BY FileAssumption DEF D!MAXFILE, D!NINDIRECT
<1>1. d_size[i] \in Nat /\ Len(d_file[i]) \in Nat /\ d_size[i] <= Len(d_file[i]) /\ Len(d_file[i]) <= D!MAXFILE * BSIZE
  BY DEF FileInv, FileTypes, FileBounds, DataOK
<1>. DEFINE M == D!MAXFILE * BSIZE
            s == (off + n) % WORD
<1>2. ~(off > d_size[i]) /\ ~(s < off) /\ ~(s > M)
  BY Zenon DEF D!BadWrite
<1>3. off <= Len(d_file[i]) /\ off < WORD
  BY <1>1, <1>2, <1>u
<1>4. off + n < WORD
  <2>. SUFFICES ASSUME off + n >= WORD PROVE FALSE
    BY <1>u
  <2>. DEFINE r == off + n - WORD
  <2>1. r \in 0 .. WORD - 1 /\ off + n = WORD * 1 + r /\ r < off
    BY <1>3, <1>u
  <2>. HIDE DEF r
  <2>2. (WORD * 1 + r) % WORD = r
    BY <1>u, <2>1, ModIs
  <2>3. s = r
    BY <2>1, <2>2, Zenon
  <2>. QED  BY <1>2, <2>1, <2>3, Zenon
<1>5. s = off + n
  <2>. DEFINE r == off + n
  <2>1. r \in 0 .. WORD - 1 /\ WORD * 0 + r = r
    BY <1>4, <1>u
  <2>. HIDE DEF r
  <2>2. (WORD * 0 + r) % WORD = r
    BY <1>u, <2>1, ModIs
  <2>. QED  BY <2>1, <2>2, Zenon DEF r
<1>. HIDE DEF s
<1>6. off + n <= M
  BY <1>2, <1>5, <1>u
<1>7. n \in Nat
  BY <1>u
<1>. QED  BY <1>3, <1>6, <1>7, Zenon

LEMMA StepWritei ==
  ASSUME FileInv, NEW i \in Inode, NEW off \in 0 .. D!MAXFILE * BSIZE, NEW n \in WriteCounts, NEW v \in Byte,
         D!writei(i, off, n, v)
  PROVE  FileInv'
<1>1. off \in Nat /\ v \in Value
  BY FileAssumption DEF D!MAXFILE, D!NINDIRECT, Value
<1>2. off <= Len(d_file[i]) /\ off + n <= D!MAXFILE * BSIZE /\ n \in Nat
  BY <1>1, GoodWrite, Zenon DEF D!writei
<1>. DEFINE c == [off |-> off, tot |-> 0, n |-> n, byte |-> v]
<1>3. /\ d_call' = [d_call EXCEPT ![i] = c]
      /\ d_disk' = d_disk /\ d_used' = d_used /\ d_addrs' = d_addrs /\ d_size' = d_size /\ d_file' = d_file
  BY DEF D!writei
<1>4. c \in [off : Nat, tot : Nat, n : Nat, byte : Value] /\ c.off = off /\ c.tot = 0 /\ c.n = n
  BY <1>1, <1>2
<1>. HIDE DEF c
<1>5. FileTypes' /\ d_call'[i] = c /\ \A j \in Inode : j # i => d_call'[j] = d_call[j]
  BY <1>3, <1>4 DEF FileInv, FileTypes
<1>6. FileBounds'
  <2>. SUFFICES ASSUME NEW j \in Inode
                PROVE  /\ d_size[j] <= Len(d_file[j]) /\ d_call'[j].off <= Len(d_file[j])
                       /\ d_call'[j].tot <= d_call'[j].n
                       /\ d_call'[j].off + (d_call'[j].n - d_call'[j].tot) <= D!MAXFILE * BSIZE
    BY <1>3 DEF FileBounds
  <2>1. d_size[j] <= Len(d_file[j])
    BY DEF FileInv, FileBounds
  <2>2. CASE j = i
    <3>1. 0 <= n /\ off + (n - 0) <= D!MAXFILE * BSIZE
      BY <1>1, <1>2
    <3>. QED  BY <1>2, <1>4, <1>5, <2>1, <2>2, <3>1, Zenon
  <2>3. CASE j # i
    BY <1>5, <2>1, <2>3, Zenon DEF FileInv, FileBounds
  <2>. QED  BY <2>2, <2>3, Zenon
<1>7. DataOK(d_disk', d_used', d_addrs', d_file')
  BY <1>3 DEF FileInv
<1>. QED  BY <1>5, <1>6, <1>7 DEF FileInv

(* What the steps keep of the calls and the sizes of the other files.      *)
LEMMA OtherBounds ==
  ASSUME FileInv, NEW i \in Inode, NEW j \in Inode, j # i,
         d_size'[j] = d_size[j], d_call'[j] = d_call[j], d_file'[j] = d_file[j]
  PROVE  /\ d_size'[j] <= Len(d_file'[j]) /\ d_call'[j].off <= Len(d_file'[j])
         /\ d_call'[j].tot <= d_call'[j].n
         /\ d_call'[j].off + (d_call'[j].n - d_call'[j].tot) <= D!MAXFILE * BSIZE
BY Zenon DEF FileInv, FileBounds

LEMMA StepDone ==
  ASSUME FileInv, NEW i \in Inode, D!writei_done(i)
  PROVE  FileInv'
<1>. DEFINE z == D!Max({d_size[i], d_call[i].off})
<1>1. /\ d_call' = [d_call EXCEPT ![i] = D!Idle] /\ d_size' = [d_size EXCEPT ![i] = z]
      /\ d_disk' = d_disk /\ d_used' = d_used /\ d_addrs' = d_addrs /\ d_file' = d_file
  BY DEF D!writei_done
<1>2. d_size \in [Inode -> Nat] /\ d_call \in [Inode -> [off : Nat, tot : Nat, n : Nat, byte : Value]]
  BY DEF FileInv, FileTypes
<1>3. z \in Nat /\ z <= Len(d_file[i])
  <2>1. d_size[i] \in Nat /\ d_call[i].off \in Nat
    BY <1>2
  <2>2. z = IF d_size[i] >= d_call[i].off THEN d_size[i] ELSE d_call[i].off
    BY <2>1, MaxOf, Zenon
  <2>3. d_size[i] <= Len(d_file[i]) /\ d_call[i].off <= Len(d_file[i])
    BY DEF FileInv, FileBounds
  <2>. HIDE DEF z
  <2>. QED  BY <2>1, <2>2, <2>3
<1>4. D!Idle \in [off : Nat, tot : Nat, n : Nat, byte : Value] /\ D!Idle.off = 0 /\ D!Idle.tot = 0 /\ D!Idle.n = 0
  BY FileAssumption DEF D!Idle, Value, Block
<1>. HIDE DEF z
<1>5. /\ FileTypes' /\ d_call'[i] = D!Idle /\ d_size'[i] = z
      /\ \A j \in Inode : j # i => d_call'[j] = d_call[j] /\ d_size'[j] = d_size[j]
  BY <1>1, <1>2, <1>3, <1>4 DEF FileTypes
<1>6. ASSUME NEW j \in Inode
      PROVE  /\ d_size'[j] <= Len(d_file'[j]) /\ d_call'[j].off <= Len(d_file'[j])
             /\ d_call'[j].tot <= d_call'[j].n
             /\ d_call'[j].off + (d_call'[j].n - d_call'[j].tot) <= D!MAXFILE * BSIZE
  <2>1. CASE j = i
    <3>1. Len(d_file[i]) \in Nat /\ D!MAXFILE * BSIZE \in Nat
      BY FileAssumption DEF FileInv, DataOK, D!MAXFILE, D!NINDIRECT
    <3>2. 0 <= Len(d_file[i]) /\ 0 <= 0 /\ 0 + (0 - 0) <= D!MAXFILE * BSIZE
      BY <3>1
    <3>. QED  BY <1>1, <1>3, <1>4, <1>5, <2>1, <3>2, Zenon
  <2>2. CASE j # i
    <3>1. d_size'[j] = d_size[j] /\ d_call'[j] = d_call[j] /\ d_file'[j] = d_file[j]
      BY <1>1, <1>5, <2>2, Zenon
    <3>. QED  BY <2>2, <3>1, OtherBounds, Zenon
  <2>. QED  BY <2>1, <2>2, Zenon
<1>7. FileBounds'
  BY <1>6, Zenon DEF FileBounds
<1>8. DataOK(d_disk', d_used', d_addrs', d_file')
  BY <1>1 DEF FileInv
<1>. QED  BY <1>5, <1>7, <1>8 DEF FileInv

(* The blocks that itrunc frees are those at the places of its file.       *)
BlocksAt(d, A, i) == {Addr(d, A, i, k) : k \in Place} \ {0}

LEMMA BlocksAre ==
  ASSUME NEW d, NEW u, NEW A, NEW i
  PROVE  D!Blocks(Rec(d, u, A[i])) = BlocksAt(d, A, i)
<1>. SUFFICES ASSUME NEW b
              PROVE  b \in D!Blocks(Rec(d, u, A[i])) <=> b # 0 /\ \E k \in Place : Addr(d, A, i, k) = b
  BY Zenon DEF BlocksAt
<1>u. NDIRECT \in Nat /\ BSIZE \in Nat
  BY FileAssumption
<1>a. Rec(d, u, A[i]).addrs = A[i] /\ Rec(d, u, A[i]).disk = d
  BY DEF Rec
<1>1. b \in D!Blocks(Rec(d, u, A[i])) <=>
        b # 0 /\ (\/ \E k \in 0 .. NDIRECT : A[i][k] = b
                  \/ A[i][NDIRECT] # 0 /\ \E c \in D!Cells : d[A[i][NDIRECT]][c] = b)
  BY <1>a, Zenon DEF D!Blocks
<1>2. ASSUME NEW k \in 0 .. NDIRECT PROVE k \in Place /\ Addr(d, A, i, k) = A[i][k]
  BY <1>u, <1>2 DEF Place, Addr
<1>3. ASSUME NEW c \in D!Cells, A[i][NDIRECT] # 0
      PROVE  NDIRECT + 1 + c \in Place /\ Addr(d, A, i, NDIRECT + 1 + c) = d[A[i][NDIRECT]][c]
  <2>1. NDIRECT + 1 + c \in Place /\ ~(NDIRECT + 1 + c <= NDIRECT) /\ (NDIRECT + 1 + c) - NDIRECT - 1 = c
    BY EntryPlace, Zenon
  <2>. QED  BY <1>3, <2>1, Zenon DEF Addr
<1>4. ASSUME NEW k \in Place
      PROVE  \/ k \in 0 .. NDIRECT
             \/ A[i][NDIRECT] = 0 /\ Addr(d, A, i, k) = 0
             \/ A[i][NDIRECT] # 0 /\ \E c \in D!Cells : Addr(d, A, i, k) = d[A[i][NDIRECT]][c]
  <2>1. CASE k <= NDIRECT
    BY <1>u, <2>1 DEF Place
  <2>2. CASE ~(k <= NDIRECT)
    <3>1. k - NDIRECT - 1 \in D!Cells
      BY <1>u, <2>2 DEF Place, D!Cells
    <3>. QED  BY <2>2, <3>1, Zenon DEF Addr
  <2>. QED  BY <2>1, <2>2, Zenon
<1>5. ASSUME b \in D!Blocks(Rec(d, u, A[i])) PROVE b # 0 /\ \E k \in Place : Addr(d, A, i, k) = b
  BY <1>1, <1>2, <1>3, <1>5, Zenon
<1>6. ASSUME b # 0, NEW k \in Place, Addr(d, A, i, k) = b PROVE b \in D!Blocks(Rec(d, u, A[i]))
  BY <1>1, <1>2, <1>4, <1>6, Zenon
<1>. QED  BY <1>5, <1>6, Zenon

(* itrunc gives up the blocks of its file and of no other.                 *)
LEMMA Truncated ==
  ASSUME NEW d, NEW u, NEW A, NEW f, DataOK(d, u, A, f), NEW i \in Inode
  PROVE  DataOK(d, D!bfree(u, D!Blocks(Rec(d, u, A[i]))), [A EXCEPT ![i] = [k \in 0 .. NDIRECT |-> 0]],
                [f EXCEPT ![i] = <<>>])
<1>. DEFINE B == D!Blocks(Rec(d, u, A[i]))
            u2 == D!bfree(u, B)
            A2 == [A EXCEPT ![i] = [k \in 0 .. NDIRECT |-> 0]]
            f2 == [f EXCEPT ![i] = <<>>]
<1>t. /\ d \in Disk /\ u \subseteq Block /\ 0 \in u /\ A \in Addrs /\ f \in [Inode -> Seq(Value)]
      /\ Owned(d, u, A) /\ Stored(d, A, f) /\ \A j \in Inode : Len(f[j]) <= D!MAXFILE * BSIZE
  BY DEF DataOK
<1>o. Once(d, A)
  BY Zenon DEF DataOK, Owned
<1>u. NDIRECT \in Nat /\ NDIRECT \in 0 .. NDIRECT /\ D!MAXFILE * BSIZE \in Nat /\ 0 \in Block
  BY FileAssumption DEF D!MAXFILE, D!NINDIRECT, Block
<1>1. A2 \in Addrs /\ (\A k \in 0 .. NDIRECT : A2[i][k] = 0) /\ \A j \in Inode : j # i => A2[j] = A[j]
  BY <1>t, <1>u DEF Addrs
<1>2. f2 \in [Inode -> Seq(Value)] /\ Len(f2[i]) = 0 /\ \A j \in Inode : j # i => f2[j] = f[j]
  BY <1>t
<1>3. \A b : b \in B <=> b # 0 /\ \E k \in Place : Addr(d, A, i, k) = b
  <2>1. B = BlocksAt(d, A, i)
    BY BlocksAre, Zenon
  <2>. QED  BY <2>1, Zenon DEF BlocksAt
<1>4. \A b : b \in u2 <=> b \in u /\ b \notin B
  BY Zenon DEF D!bfree
<1>. HIDE DEF A2, f2, u2, B
<1>5. \A k \in Place : Addr(d, A2, i, k) = 0
  BY <1>1, <1>u DEF Addr, Place
<1>6. \A j \in Inode : j # i => \A k \in Place : Addr(d, A2, j, k) = Addr(d, A, j, k)
  BY <1>1, Zenon DEF Addr
<1>7. u2 \subseteq Block /\ 0 \in u2
  BY <1>3, <1>4, <1>t, Zenon
<1>8. Owned(d, u2, A2)
  <2>1. ASSUME NEW j \in Inode, NEW k \in Place PROVE Addr(d, A2, j, k) \in u2
    <3>1. CASE j = i
      BY <1>5, <1>7, <3>1, Zenon
    <3>2. CASE j # i /\ Addr(d, A, j, k) = 0
      BY <1>6, <1>7, <3>2, Zenon
    <3>3. CASE j # i /\ Addr(d, A, j, k) # 0
      <4>1. ASSUME NEW l \in Place PROVE Addr(d, A, i, l) # Addr(d, A, j, k)
        BY <1>o, <3>3, SMT DEF Once
      <4>2. Addr(d, A, j, k) \notin B
        BY <1>3, <4>1, Zenon
      <4>3. Addr(d, A, j, k) \in u
        BY <1>t, Zenon DEF Owned
      <4>. QED  BY <1>4, <1>6, <3>3, <4>2, <4>3, Zenon
    <3>. QED  BY <3>1, <3>2, <3>3, Zenon
  <2>2. ASSUME NEW j \in Inode, NEW h \in Inode, NEW k \in Place, NEW l \in Place,
               Addr(d, A2, j, k) = Addr(d, A2, h, l), Addr(d, A2, j, k) # 0
        PROVE  j = h /\ k = l
    <3>1. j # i /\ h # i
      BY <1>5, <2>2, Zenon
    <3>2. Addr(d, A, j, k) = Addr(d, A, h, l) /\ Addr(d, A, j, k) # 0
      BY <1>6, <2>2, <3>1, Zenon
    <3>. QED  BY <1>o, <3>2, SMT DEF Once
  <2>3. ASSUME NEW b \in u2, b # 0 PROVE \E j \in Inode : \E k \in Place : Addr(d, A2, j, k) = b
    <3>1. PICK j \in Inode, k \in Place : Addr(d, A, j, k) = b
      BY <1>4, <1>t, <2>3, Zenon DEF Owned
    <3>2. j # i
      BY <1>3, <1>4, <2>3, <3>1, Zenon
    <3>. QED  BY <1>6, <3>1, <3>2, Zenon
  <2>. QED  BY <2>1, <2>2, <2>3 DEF Owned, Once
<1>9. Stored(d, A2, f2)
  <2>. SUFFICES ASSUME NEW j \in Inode, NEW o \in 0 .. Len(f2[j]) - 1
                PROVE  /\ Addr(d, A2, j, PlaceOf(o \div BSIZE)) # 0
                       /\ d[Addr(d, A2, j, PlaceOf(o \div BSIZE))][o % BSIZE] = f2[j][o + 1]
    BY Zenon DEF Stored
  <2>1. j # i
    BY <1>2
  <2>2. f2[j] = f[j] /\ A2[j] = A[j]
    BY <1>1, <1>2, <2>1, Zenon
  <2>3. Addr(d, A2, j, PlaceOf(o \div BSIZE)) = Addr(d, A, j, PlaceOf(o \div BSIZE))
    BY <2>2, Zenon DEF Addr
  <2>. QED  BY <1>t, <2>2, <2>3, Zenon DEF Stored
<1>10. \A j \in Inode : Len(f2[j]) <= D!MAXFILE * BSIZE
  <2>1. 0 <= D!MAXFILE * BSIZE
    BY <1>u
  <2>. QED  BY <1>2, <1>t, <2>1, Zenon
<1>11. DataOK(d, u2, A2, f2)
  BY <1>1, <1>2, <1>7, <1>8, <1>9, <1>10, <1>t, Zenon DEF DataOK
<1>. QED  BY <1>11, Zenon DEF A2, f2, u2, B

LEMMA StepTrunc ==
  ASSUME FileInv, NEW i \in Inode, D!itrunc(i)
  PROVE  FileInv'
<1>1. /\ d_call[i] = D!Idle /\ d_disk' = d_disk /\ d_call' = d_call
      /\ d_used' = D!bfree(d_used, D!Blocks(D!State(i)))
      /\ d_addrs' = [d_addrs EXCEPT ![i] = [k \in 0 .. NDIRECT |-> 0]]
      /\ d_size' = [d_size EXCEPT ![i] = 0] /\ d_file' = [d_file EXCEPT ![i] = <<>>]
  BY DEF D!itrunc
<1>2. D!State(i) = Rec(d_disk, d_used, d_addrs[i])
  BY Zenon DEF D!State, Rec
<1>3. DataOK(d_disk', d_used', d_addrs', d_file')
  <2>1. DataOK(d_disk, d_used, d_addrs, d_file)
    BY DEF FileInv
  <2>. QED  BY <1>1, <1>2, <2>1, Truncated, Zenon
<1>4. d_size \in [Inode -> Nat] /\ d_call \in [Inode -> [off : Nat, tot : Nat, n : Nat, byte : Value]]
  BY DEF FileInv, FileTypes
<1>5. FileTypes' /\ d_size'[i] = 0 /\ \A j \in Inode : j # i => d_size'[j] = d_size[j]
  BY <1>1, <1>4 DEF FileTypes
<1>6. Len(d_file'[i]) = 0 /\ \A j \in Inode : j # i => d_file'[j] = d_file[j]
  BY <1>1 DEF FileInv, DataOK
<1>7. ASSUME NEW j \in Inode
      PROVE  /\ d_size'[j] <= Len(d_file'[j]) /\ d_call'[j].off <= Len(d_file'[j])
             /\ d_call'[j].tot <= d_call'[j].n
             /\ d_call'[j].off + (d_call'[j].n - d_call'[j].tot) <= D!MAXFILE * BSIZE
  <2>1. CASE j = i
    <3>1. d_call'[i].off = 0 /\ d_call'[i].tot = 0 /\ d_call'[i].n = 0
      BY <1>1 DEF D!Idle
    <3>2. D!MAXFILE * BSIZE \in Nat
      BY FileAssumption DEF D!MAXFILE, D!NINDIRECT
    <3>. QED  BY <1>5, <1>6, <2>1, <3>1, <3>2
  <2>2. CASE j # i
    <3>1. d_size'[j] = d_size[j] /\ d_call'[j] = d_call[j] /\ d_file'[j] = d_file[j]
      BY <1>1, <1>5, <1>6, <2>2, Zenon
    <3>. QED  BY <2>2, <3>1, OtherBounds, Zenon
  <2>. QED  BY <2>1, <2>2, Zenon
<1>8. FileBounds'
  BY <1>7, Zenon DEF FileBounds
<1>. QED  BY <1>3, <1>5, <1>8 DEF FileInv

(* The instance's Cardinality is the one the theorems are about.           *)
LEMMA SameCardinality ==
  ASSUME NEW S
  PROVE  D!Cardinality(S) = Cardinality(S)
BY Zenon DEF D!Cardinality, Cardinality

LEMMA StepBlock ==
  ASSUME FileInv, NEW i \in Inode, D!writei_block(i)
  PROVE  FileInv'
<1>. DEFINE off == d_call[i].off
            tot == d_call[i].tot
            n == d_call[i].n
            v == d_call[i].byte
            bn == off \div BSIZE
            w == off % BSIZE
            m == D!Min({n - tot, BSIZE - w})
            got == D!bmap(D!State(i), bn)
<1>1. /\ tot < n /\ D!Needs(D!State(i), bn) <= NBLOCKS - D!Cardinality(d_used)
      /\ d_disk' = [got.s.disk EXCEPT ![got.at] =
                      [x \in D!Cells |-> IF x \in w .. w + m - 1 THEN v ELSE got.s.disk[got.at][x]]]
      /\ d_used' = got.s.used /\ d_addrs' = [d_addrs EXCEPT ![i] = got.s.addrs] /\ d_size' = d_size
      /\ d_call' = [d_call EXCEPT ![i].tot = @ + m, ![i].off = @ + m]
      /\ d_file' = [d_file EXCEPT ![i] = D!Written(d_file[i], off, m, v)]
  BY Zenon DEF D!writei_block, D!Within
<1>. HIDE DEF got
<1>t. /\ d_size \in [Inode -> Nat] /\ d_call \in [Inode -> [off : Nat, tot : Nat, n : Nat, byte : Value]]
      /\ DataOK(d_disk, d_used, d_addrs, d_file)
  BY DEF FileInv, FileTypes
<1>u. off \in Nat /\ tot \in Nat /\ n \in Nat /\ v \in Value /\ BSIZE \in Int /\ BSIZE > 0 /\ D!MAXFILE * BSIZE \in Nat
  BY <1>t, FileAssumption DEF D!MAXFILE, D!NINDIRECT
<1>b. off <= Len(d_file[i]) /\ off + (n - tot) <= D!MAXFILE * BSIZE /\ d_size[i] <= Len(d_file[i])
  BY DEF FileInv, FileBounds
<1>. HIDE DEF off, tot, n, v
<1>w. w \in 0 .. BSIZE - 1
  BY <1>u, ModParts
<1>. HIDE DEF w
<1>2. m \in Nat /\ m <= n - tot /\ w + m <= BSIZE
  <2>1. n - tot \in Nat /\ BSIZE - w \in Nat
    BY <1>1, <1>u, <1>w
  <2>2. m = IF n - tot <= BSIZE - w THEN n - tot ELSE BSIZE - w
    BY <2>1, MinOf, Zenon
  <2>. HIDE DEF m
  <2>. QED  BY <1>u, <1>w, <2>1, <2>2
<1>. HIDE DEF m
<1>3. off < D!MAXFILE * BSIZE /\ off + m <= D!MAXFILE * BSIZE
  BY <1>1, <1>2, <1>b, <1>u
<1>4. D!State(i) = Rec(d_disk, d_used, d_addrs[i])
  BY Zenon DEF D!State, Rec
<1>5. BmapGives(d_disk, d_used, d_addrs, d_file, i, bn)
  <2>1. bn \in 0 .. D!MAXFILE - 1
    BY <1>3, <1>u, InBlock, Zenon
  <2>. HIDE DEF bn
  <2>2. D!Needs(Rec(d_disk, d_used, d_addrs[i]), bn) <= NBLOCKS - Cardinality(d_used)
    BY <1>1, <1>4, SameCardinality, Zenon
  <2>. QED  BY <1>t, <2>1, <2>2, BmapIs, Zenon
<1>6. PICK d2, u2, a2, b :
        /\ D!bmap(Rec(d_disk, d_used, d_addrs[i]), bn) = [at |-> b, s |-> Rec(d2, u2, a2)]
        /\ DataOK(d2, u2, [d_addrs EXCEPT ![i] = a2], d_file) /\ b # 0 /\ b \in Block
        /\ Addr(d2, [d_addrs EXCEPT ![i] = a2], i, PlaceOf(bn)) = b
  BY <1>5, Zenon DEF BmapGives
<1>7. got.at = b /\ got.s.disk = d2 /\ got.s.used = u2 /\ got.s.addrs = a2
  <2>1. got = [at |-> b, s |-> Rec(d2, u2, a2)]
    BY <1>4, <1>6, Zenon DEF got
  <2>. QED  BY <2>1 DEF Rec
<1>. DEFINE A2 == [d_addrs EXCEPT ![i] = a2]
            f2 == [d_file EXCEPT ![i] = D!Written(d_file[i], off, m, v)]
<1>8. d_disk' = Filled(d2, b, w, m, v) /\ d_used' = u2 /\ d_addrs' = A2
  BY <1>1, <1>7, Zenon DEF Filled
<1>9. DataOK(d_disk', d_used', d_addrs', d_file')
  <2>1. DataOK(d2, u2, A2, d_file) /\ Addr(d2, A2, i, PlaceOf(off \div BSIZE)) = b /\ b # 0
    BY <1>6, Zenon
  <2>. HIDE DEF A2
  <2>2. (off % BSIZE) + m <= BSIZE
    BY <1>2, Zenon DEF w
  <2>3. Addr(d2, A2, i, PlaceOf(off \div BSIZE)) # 0
    BY <2>1, Zenon
  <2>4. DataOK(Filled(d2, Addr(d2, A2, i, PlaceOf(off \div BSIZE)), off % BSIZE, m, v), u2, A2, f2)
    BY <1>2, <1>3, <1>b, <1>u, <2>1, <2>2, <2>3, Fill, Zenon
  <2>5. DataOK(Filled(d2, b, w, m, v), u2, A2, f2)
    BY <2>1, <2>4, Zenon DEF w
  <2>. QED  BY <1>1, <1>8, <2>5, Zenon
<1>10. /\ Len(d_file'[i]) \in Nat /\ off + m <= Len(d_file'[i]) /\ d_size[i] <= Len(d_file'[i])
       /\ \A j \in Inode : j # i => d_file'[j] = d_file[j]
  <2>1. d_file \in [Inode -> Seq(Value)]
    BY <1>t DEF DataOK
  <2>2. d_file'[i] = D!Written(d_file[i], off, m, v) /\ \A j \in Inode : j # i => d_file'[j] = d_file[j]
    BY <1>1, <2>1
  <2>3. d_file[i] \in Seq(Value)
    BY <2>1
  <2>4. Len(D!Written(d_file[i], off, m, v)) = IF Len(d_file[i]) >= off + m THEN Len(d_file[i]) ELSE off + m
    <3>. DEFINE g == d_file[i]
    <3>1. g \in Seq(Value) /\ off <= Len(g)
      BY <1>b, <2>3, Zenon
    <3>. HIDE DEF g
    <3>2. off \in Nat /\ m \in Nat /\ v \in Value
      BY <1>2, <1>u, Zenon
    <3>3. WriteGives(g, D!Written(g, off, m, v), off, m, v)
      BY <3>1, <3>2, WrittenIs, Zenon
    <3>. QED  BY <3>3, Zenon DEF g, WriteGives
  <2>5. Len(d_file'[i]) = IF Len(d_file[i]) >= off + m THEN Len(d_file[i]) ELSE off + m
    BY <2>2, <2>4, Zenon
  <2>6. Len(d_file[i]) \in Nat /\ d_size[i] \in Nat
    BY <1>t, <2>3
  <2>7. /\ Len(d_file'[i]) \in Nat /\ off + m <= Len(d_file'[i]) /\ d_size[i] <= Len(d_file'[i])
    BY <1>2, <1>b, <1>u, <2>5, <2>6
  <2>. QED  BY <2>2, <2>7, Zenon
<1>11. /\ d_call' \in [Inode -> [off : Nat, tot : Nat, n : Nat, byte : Value]]
       /\ d_call'[i].off = off + m /\ d_call'[i].tot = tot + m /\ d_call'[i].n = n
       /\ \A j \in Inode : j # i => d_call'[j] = d_call[j]
  <2>. DEFINE c == [d_call[i] EXCEPT !.tot = @ + m]
              e == [c EXCEPT !.off = @ + m]
  <2>1. d_call' = [[d_call EXCEPT ![i].tot = @ + m] EXCEPT ![i].off = @ + m]
    BY <1>1
  <2>2. c \in [off : Nat, tot : Nat, n : Nat, byte : Value] /\ c.off = off /\ c.tot = tot + m /\ c.n = n
    BY <1>2, <1>t DEF off, tot, n
  <2>3. [d_call EXCEPT ![i].tot = @ + m] = [d_call EXCEPT ![i] = c]
    BY <1>t
  <2>. HIDE DEF c
  <2>4. [[d_call EXCEPT ![i] = c] EXCEPT ![i].off = @ + m] = [d_call EXCEPT ![i] = e]
    BY <1>t, <2>2, Zenon
  <2>5. e \in [off : Nat, tot : Nat, n : Nat, byte : Value] /\ e.off = off + m /\ e.tot = tot + m /\ e.n = n
    BY <1>2, <1>u, <2>2
  <2>. HIDE DEF e
  <2>6. d_call' = [d_call EXCEPT ![i] = e]
    BY <2>1, <2>3, <2>4
  <2>. QED  BY <1>t, <2>5, <2>6
<1>12. ASSUME NEW j \in Inode
      PROVE  /\ d_size'[j] <= Len(d_file'[j]) /\ d_call'[j].off <= Len(d_file'[j])
             /\ d_call'[j].tot <= d_call'[j].n
             /\ d_call'[j].off + (d_call'[j].n - d_call'[j].tot) <= D!MAXFILE * BSIZE
  <2>1. CASE j = i
    <3>1. tot + m <= n /\ (off + m) + (n - (tot + m)) <= D!MAXFILE * BSIZE
      BY <1>1, <1>2, <1>b, <1>u
    <3>. QED  BY <1>1, <1>10, <1>11, <2>1, <3>1, Zenon
  <2>2. CASE j # i
    <3>1. d_size'[j] = d_size[j] /\ d_call'[j] = d_call[j] /\ d_file'[j] = d_file[j]
      BY <1>1, <1>10, <1>11, <2>2, Zenon
    <3>. QED  BY <2>2, <3>1, OtherBounds, Zenon
  <2>. QED  BY <2>1, <2>2, Zenon
<1>13. FileBounds'
  BY <1>12, Zenon DEF FileBounds
<1>14. FileTypes'
  BY <1>1, <1>11, <1>t, Zenon DEF FileTypes
<1>. QED  BY <1>9, <1>13, <1>14 DEF FileInv

(* Each step keeps the invariant.                                          *)
LEMMA StepFile == FileInv /\ [D!Next]_D!vars => FileInv'
<1>. SUFFICES ASSUME FileInv, [D!Next]_D!vars PROVE FileInv'
  OBVIOUS
<1>1. CASE UNCHANGED D!vars
  BY <1>1 DEF D!vars, FileInv, FileTypes, FileBounds
<1>2. CASE D!Next
  BY <1>2, StepWritei, StepBlock, StepDone, StepTrunc, Zenon DEF D!Next
<1>. QED  BY <1>1, <1>2, Zenon

(* The invariant implies what the run checks.                              *)
LEMMA FileSafe == FileInv => FileContents
<1>. SUFFICES ASSUME FileInv PROVE FileContents
  OBVIOUS
<1>t. /\ DataOK(d_disk, d_used, d_addrs, d_file) /\ Owned(d_disk, d_used, d_addrs)
      /\ Stored(d_disk, d_addrs, d_file) /\ 0 \in d_used /\ d_size \in [Inode -> Nat]
  BY DEF FileInv, DataOK, FileTypes
<1>o. Once(d_disk, d_addrs)
  BY <1>t, Zenon DEF Owned
<1>u. NDIRECT \in Nat /\ BSIZE \in Nat
  BY FileAssumption
<1>1. ASSUME NEW i \in Inode, NEW off \in 0 .. d_size[i] - 1
      PROVE  /\ D!readi(i, off) = d_file[i][off + 1]
             /\ D!Needs(D!State(i), off \div BSIZE) = 0
  <2>. DEFINE k == PlaceOf(off \div BSIZE)
              a == Addr(d_disk, d_addrs, i, k)
  <2>1. off \in Nat /\ off \in 0 .. Len(d_file[i]) - 1 /\ off < D!MAXFILE * BSIZE
    <3>1. Len(d_file[i]) \in Nat /\ d_size[i] <= Len(d_file[i]) /\ Len(d_file[i]) <= D!MAXFILE * BSIZE
      BY DEF FileInv, DataOK, FileBounds
    <3>2. D!MAXFILE * BSIZE \in Nat /\ d_size[i] \in Nat
      BY <1>t, FileAssumption DEF D!MAXFILE, D!NINDIRECT
    <3>. QED  BY <3>1, <3>2
  <2>2. off \div BSIZE \in 0 .. D!MAXFILE - 1
    BY <2>1, InBlock, Zenon
  <2>3. a # 0 /\ d_disk[a][off % BSIZE] = d_file[i][off + 1]
    BY <1>t, <2>1, Zenon DEF Stored
  <2>4. D!State(i) = Rec(d_disk, d_used, d_addrs[i])
    BY Zenon DEF D!State, Rec
  <2>5. /\ D!bmap(Rec(d_disk, d_used, d_addrs[i]), off \div BSIZE).at = a
        /\ D!Needs(Rec(d_disk, d_used, d_addrs[i]), off \div BSIZE) = 0
    <3>. DEFINE bn == off \div BSIZE
    <3>1. bn \in 0 .. D!MAXFILE - 1 /\ Addr(d_disk, d_addrs, i, PlaceOf(bn)) # 0
      BY <2>2, <2>3, Zenon
    <3>. HIDE DEF bn
    <3>2. /\ D!bmap(Rec(d_disk, d_used, d_addrs[i]), bn).at = Addr(d_disk, d_addrs, i, PlaceOf(bn))
          /\ D!Needs(Rec(d_disk, d_used, d_addrs[i]), bn) = 0
      BY <3>1, BmapFinds, SMT
    <3>. QED  BY <3>2, Zenon DEF bn
  <2>. HIDE DEF a
  <2>. QED  BY <2>3, <2>4, <2>5, Zenon DEF D!readi
<1>2. D!ReadsBack /\ D!NoHoles
  BY <1>1, Zenon DEF D!ReadsBack, D!NoHoles
<1>3. ASSUME NEW i \in Inode, NEW x \in D!Refs(i), x[1] # 0
      PROVE  \E k \in Place : /\ x[1] = Addr(d_disk, d_addrs, i, k)
                              /\ \/ k <= NDIRECT /\ x = <<x[1], i, "inode", k>>
                                 \/ ~(k <= NDIRECT) /\ x = <<x[1], i, "indirect", k - NDIRECT - 1>>
  <2>1. CASE \E k \in 0 .. NDIRECT : x = <<d_addrs[i][k], i, "inode", k>>
    <3>1. PICK k \in 0 .. NDIRECT : x = <<d_addrs[i][k], i, "inode", k>>
      BY <2>1, Zenon
    <3>2. k \in Place /\ k <= NDIRECT /\ x[1] = d_addrs[i][k]
      BY <1>u, <3>1 DEF Place
    <3>. QED  BY <3>1, <3>2, Zenon DEF Addr
  <2>2. CASE d_addrs[i][NDIRECT] # 0 /\ \E c \in D!Cells : x = <<d_disk[d_addrs[i][NDIRECT]][c], i, "indirect", c>>
    <3>. DEFINE b == d_addrs[i][NDIRECT]
    <3>1. PICK c \in D!Cells : x = <<d_disk[b][c], i, "indirect", c>>
      BY <2>2, Zenon
    <3>. DEFINE k == NDIRECT + 1 + c
    <3>2. k \in Place /\ ~(k <= NDIRECT) /\ k - NDIRECT - 1 = c
      BY EntryPlace, Zenon
    <3>3. x[1] = d_disk[b][c] /\ b # 0
      BY <2>2, <3>1
    <3>. HIDE DEF k
    <3>. QED  BY <3>1, <3>2, <3>3, Zenon DEF Addr
  <2>. QED  BY <1>3, <2>1, <2>2, Zenon DEF D!Refs
<1>4. ASSUME NEW i \in Inode, NEW k \in Place, Addr(d_disk, d_addrs, i, k) # 0
      PROVE  \E x \in D!Refs(i) : x[1] = Addr(d_disk, d_addrs, i, k)
  <2>1. CASE k <= NDIRECT
    <3>1. k \in 0 .. NDIRECT /\ Addr(d_disk, d_addrs, i, k) = d_addrs[i][k]
      BY <1>u, <2>1 DEF Place, Addr
    <3>2. <<d_addrs[i][k], i, "inode", k>> \in D!Refs(i)
      BY <3>1, Zenon DEF D!Refs
    <3>3. <<d_addrs[i][k], i, "inode", k>>[1] = d_addrs[i][k]
      OBVIOUS
    <3>. QED  BY <3>1, <3>2, <3>3, Zenon
  <2>2. CASE ~(k <= NDIRECT)
    <3>. DEFINE b == d_addrs[i][NDIRECT]
                c == k - NDIRECT - 1
    <3>1. c \in D!Cells
      BY <1>u, <2>2 DEF Place, D!Cells
    <3>2. b # 0 /\ Addr(d_disk, d_addrs, i, k) = d_disk[b][c]
      BY <1>4, <2>2, Zenon DEF Addr
    <3>3. <<d_disk[b][c], i, "indirect", c>> \in D!Refs(i)
      BY <3>1, <3>2, Zenon DEF D!Refs
    <3>4. <<d_disk[b][c], i, "indirect", c>>[1] = d_disk[b][c]
      OBVIOUS
    <3>. QED  BY <3>2, <3>3, <3>4, Zenon
  <2>. QED  BY <2>1, <2>2, Zenon
<1>. DEFINE refs == {x \in UNION {D!Refs(i) : i \in Inode} : x[1] # 0}
<1>5. {x[1] : x \in refs} \cup {0} = d_used
  <2>1. ASSUME NEW x \in refs PROVE x[1] \in d_used
    <3>1. PICK i \in Inode : x \in D!Refs(i) /\ x[1] # 0
      BY Zenon
    <3>2. PICK k \in Place : x[1] = Addr(d_disk, d_addrs, i, k)
      BY <1>3, <3>1, Zenon
    <3>3. Addr(d_disk, d_addrs, i, k) \in d_used
      BY <1>t, Zenon DEF Owned
    <3>. QED  BY <3>2, <3>3, Zenon
  <2>2. ASSUME NEW b \in d_used, b # 0 PROVE \E x \in refs : b = x[1]
    <3>1. PICK i \in Inode, k \in Place : Addr(d_disk, d_addrs, i, k) = b
      BY <1>t, <2>2, Zenon DEF Owned
    <3>2. PICK x \in D!Refs(i) : x[1] = b
      BY <1>4, <2>2, <3>1, Zenon
    <3>. QED  BY <2>2, <3>2, Zenon
  <2>. HIDE DEF refs
  <2>. QED  BY <1>t, <2>1, <2>2, Zenon
<1>6. ASSUME NEW x \in refs, NEW y \in refs, x[1] = y[1] PROVE x = y
  <2>1. PICK i \in Inode : x \in D!Refs(i) /\ x[1] # 0
    BY Zenon
  <2>2. PICK j \in Inode : y \in D!Refs(j) /\ y[1] # 0
    BY Zenon
  <2>3. PICK k \in Place : /\ x[1] = Addr(d_disk, d_addrs, i, k)
                           /\ \/ k <= NDIRECT /\ x = <<x[1], i, "inode", k>>
                              \/ ~(k <= NDIRECT) /\ x = <<x[1], i, "indirect", k - NDIRECT - 1>>
    BY <1>3, <2>1, Zenon
  <2>4. PICK l \in Place : /\ y[1] = Addr(d_disk, d_addrs, j, l)
                           /\ \/ l <= NDIRECT /\ y = <<y[1], j, "inode", l>>
                              \/ ~(l <= NDIRECT) /\ y = <<y[1], j, "indirect", l - NDIRECT - 1>>
    BY <1>3, <2>2, Zenon
  <2>5. Addr(d_disk, d_addrs, i, k) = Addr(d_disk, d_addrs, j, l) /\ Addr(d_disk, d_addrs, i, k) # 0
    BY <1>6, <2>1, <2>3, <2>4, Zenon
  <2>6. i = j /\ k = l
    BY <1>o, <2>5, SMT DEF Once
  <2>. QED  BY <1>6, <2>3, <2>4, <2>6, Zenon
<1>7. D!BlocksOnce
  BY <1>5, <1>6, Zenon DEF D!BlocksOnce
<1>. QED  BY <1>2, <1>7, Zenon DEF FileContents

(* FileContents, for every number of files, blocks, cells and direct       *)
(* addresses: however the passes of writei on different files and itrunc   *)
(* interleave, a block balloc marks has one place in one file, readi gives *)
(* back what writei wrote, and bmap finds every block readi asks for.      *)
THEOREM FilesKeepContents == D!Spec => []FileContents
<1>1. FileInv /\ [D!Next]_D!vars => FileInv'
  BY StepFile
<1>. QED  BY InitFile, <1>1, FileSafe, PTL DEF D!Spec
=============================================================================
