---------------------------- MODULE DeviceProofs ----------------------------
(***************************************************************************)
(* Console input and timed sleep for any number of processes, any size of  *)
(* the ring and any width of the indices and of ticks.                     *)
(***************************************************************************)
EXTENDS Devices, Integers, Sequences, WellFoundedInduction, TLAPS

(* Arithmetic modulo the size of the ring and the width of its indices.    *)
LEMMA ModParts ==
  ASSUME NEW a \in Int, NEW m \in Int, m > 0
  PROVE  a = m * (a \div m) + (a % m) /\ a \div m \in Int /\ a % m \in 0 .. m - 1
BY Z3T(60)

LEMMA ModUnique ==
  ASSUME NEW m \in Int, m > 0, NEW q \in Int, NEW s \in Int, NEW r \in 0 .. m - 1, NEW t \in 0 .. m - 1, m * q + r = m * s + t
  PROVE  q = s /\ r = t
<1>1. m * (q - s) = t - r
  OBVIOUS
<1>2. q - s < 1
  <2>1. q - s >= 1 => m * (q - s) >= m
    OBVIOUS
  <2> QED  BY <1>1, <2>1
<1>3. q - s > -1
  <2>1. q - s <= -1 => m * (q - s) <= -m
    OBVIOUS
  <2> QED  BY <1>1, <2>1
<1> QED  BY <1>1, <1>2, <1>3

LEMMA ModIs ==
  ASSUME NEW m \in Int, m > 0, NEW q \in Int, NEW r \in 0 .. m - 1
  PROVE  (m * q + r) % m = r
<1> DEFINE a == m * q + r
<1>1. a \in Int
  OBVIOUS
<1>2. a = m * (a \div m) + (a % m) /\ a \div m \in Int /\ a % m \in 0 .. m - 1
  BY <1>1, ModParts
<1> QED  BY <1>1, <1>2, ModUnique

LEMMA ModShift ==
  ASSUME NEW a \in Int, NEW m \in Int, m > 0, NEW k \in Int
  PROVE  (a + m * k) % m = a % m
<1>1. a = m * (a \div m) + (a % m) /\ a \div m \in Int /\ a % m \in 0 .. m - 1
  BY ModParts
<1>2. a + m * k = m * ((a \div m) + k) + (a % m)
  BY <1>1
<1>3. (m * ((a \div m) + k) + (a % m)) % m = a % m
  BY <1>1, ModIs
<1> QED  BY <1>2, <1>3

LEMMA ModApart ==
  ASSUME NEW a \in Int, NEW m \in Int, m > 0, NEW d \in 1 .. m - 1
  PROVE  (a + d) % m # a % m
<1>1. a = m * (a \div m) + (a % m) /\ a \div m \in Int /\ a % m \in 0 .. m - 1
  BY ModParts
<1>2. a + d = m * ((a + d) \div m) + ((a + d) % m) /\ (a + d) \div m \in Int /\ (a + d) % m \in 0 .. m - 1
  BY ModParts
<1> SUFFICES ASSUME (a + d) % m = a % m PROVE FALSE
  OBVIOUS
<1>3. m * (((a + d) \div m) - (a \div m)) = d
  BY <1>1, <1>2
<1> DEFINE k == ((a + d) \div m) - (a \div m)
<1>4. k \in Int /\ m * k = d
  BY <1>1, <1>2, <1>3
<1> HIDE DEF k
<1>5. k >= 1 => m * k >= m
  BY <1>4
<1>6. k <= 0 => m * k <= 0
  BY <1>4
<1> QED  BY <1>4, <1>5, <1>6

-----------------------------------------------------------------------------
(* Timed sleep.                                                            *)

TickTypes ==
  /\ t_ticks \in 0 .. UINT - 1 /\ t_ticks0 \in [Sleeper -> 0 .. UINT - 1]
  /\ t_pc \in [Sleeper -> {"idle", "sleep", "asleep", "runnable", "slept", "failed"}]
  /\ t_n \in [Sleeper -> Nat] /\ t_killed \in [Sleeper -> BOOLEAN]
  /\ t_passed \in [Sleeper -> Nat] /\ t_late \in [Sleeper -> 0 .. MaxLate]

(* What a call in progress knows: ticks0 + passed is ticks, at most one     *)
(* wrap around ago, and passed is past n only by the lateness of the        *)
(* process that was woken.                                                  *)
Called(p) ==
  /\ t_n[p] \in Times /\ t_passed[p] <= t_n[p] + t_late[p]
  /\ t_ticks = t_ticks0[p] + t_passed[p] \/ t_ticks + UINT = t_ticks0[p] + t_passed[p]

TickInv ==
  /\ TickTypes
  /\ \A p \in Sleeper :
       /\ t_pc[p] = "idle" => t_passed[p] = 0
       /\ t_pc[p] \in {"sleep", "asleep", "runnable"} => Called(p)
       /\ t_pc[p] \in {"sleep", "asleep"} => t_passed[p] < t_n[p]
       /\ t_pc[p] = "slept" => t_passed[p] >= t_n[p]

(* The difference that sys_sleep computes is the time that has passed.     *)
LEMMA Elapsed ==
  ASSUME NEW U \in Nat, NEW t \in 0 .. U - 1, NEW t0 \in 0 .. U - 1, NEW d \in 0 .. U - 1,
         t = t0 + d \/ t + U = t0 + d
  PROVE  (t + U - t0) % U = d
<1>u. U \in Int /\ U > 0
  OBVIOUS
<1>1. CASE t = t0 + d
  <2>1. t + U - t0 = U * 1 + d
    BY <1>1
  <2>2. (U * 1 + d) % U = d
    BY <1>u, ModIs
  <2>. QED  BY <2>1, <2>2
<1>2. CASE t + U = t0 + d
  <2>1. t + U - t0 = U * 0 + d
    BY <1>2
  <2>2. (U * 0 + d) % U = d
    BY <1>u, ModIs
  <2>. QED  BY <2>1, <2>2
<1>. QED  BY <1>1, <1>2

LEMMA NextTick ==
  ASSUME NEW U \in Nat, NEW t \in 0 .. U - 1
  PROVE  (t + 1) % U \in 0 .. U - 1 /\ ((t + 1) % U = t + 1 \/ ((t + 1) % U) + U = t + 1)
<1>u. U \in Int /\ U > 0
  OBVIOUS
<1>1. CASE t + 1 < U
  <2>1. (U * 0 + (t + 1)) % U = t + 1
    BY <1>u, <1>1, ModIs
  <2>. QED  BY <2>1, <1>1
<1>2. CASE t + 1 >= U
  <2>1. (U * 1 + 0) % U = 0
    BY <1>u, ModIs
  <2>. QED  BY <2>1, <1>2
<1>. QED  BY <1>1, <1>2

LEMMA EarlyIs ==
  ASSUME TickTypes, NEW p \in Sleeper, Called(p)
  PROVE  T!Early(t_ticks0[p], t_n[p]) <=> t_passed[p] < t_n[p]
<1>1. t_passed[p] \in 0 .. UINT - 1
  BY DevicesAssumption DEF TickTypes, Called
<1>2. (t_ticks + UINT - t_ticks0[p]) % UINT = t_passed[p]
  <2>1. UINT \in Nat /\ t_ticks \in 0 .. UINT - 1 /\ t_ticks0[p] \in 0 .. UINT - 1
    BY DevicesAssumption DEF TickTypes
  <2>. QED  BY <1>1, <2>1, Elapsed DEF Called
<1>. QED  BY <1>2 DEF T!Early

LEMMA InitTick == T!Init => TickInv
  BY DevicesAssumption DEF T!Init, TickInv, TickTypes, Called

LEMMA StepTick == TickInv /\ [T!Next]_T!vars => TickInv'
<1>. SUFFICES ASSUME TickInv, [T!Next]_T!vars PROVE TickInv'
  OBVIOUS
<1>. USE DevicesAssumption DEF TickInv
<1>1. ASSUME NEW p \in Sleeper, T!sys_sleep(p) PROVE TickInv'
  <2>1. PICK t \in Times :
          /\ t_pc[p] = "idle"
          /\ t_ticks0' = [t_ticks0 EXCEPT ![p] = t_ticks]
          /\ t_n' = [t_n EXCEPT ![p] = t]
          /\ T!Loop(p, t_ticks, t)
          /\ UNCHANGED <<t_ticks, t_killed, t_passed, t_late>>
    BY <1>1 DEF T!sys_sleep
  <2>2. t_passed[p] = 0 /\ t_late[p] \in Nat /\ t \in 0 .. UINT - 1
    BY <2>1 DEF TickTypes
  <2>3. T!Early(t_ticks, t) <=> 0 < t
    <3>1. (t_ticks + UINT - t_ticks) % UINT = 0
      BY Elapsed DEF TickTypes
    <3>. QED  BY <3>1 DEF T!Early
  <2>4. t_pc' = [t_pc EXCEPT ![p] = IF ~(0 < t) THEN "slept" ELSE IF t_killed[p] THEN "failed" ELSE "sleep"]
    BY <2>1, <2>3 DEF T!Loop
  <2>5. TickTypes'
    BY <2>1, <2>4 DEF TickTypes
  <2>. QED  BY <2>1, <2>2, <2>4, <2>5 DEF TickTypes, Called
<1>2. ASSUME NEW p \in Sleeper, T!again(p) PROVE TickInv'
  <2>1. t_pc[p] = "runnable" /\ Called(p)
    BY <1>2 DEF T!again
  <2>2. T!Early(t_ticks0[p], t_n[p]) <=> t_passed[p] < t_n[p]
    BY <2>1, EarlyIs
  <2>3. t_pc' = [t_pc EXCEPT ![p] = IF ~(t_passed[p] < t_n[p]) THEN "slept" ELSE IF t_killed[p] THEN "failed" ELSE "sleep"]
    BY <1>2, <2>2 DEF T!again, T!Loop
  <2>. QED  BY <1>2, <2>1, <2>3 DEF T!again, TickTypes, Called
<1>3. ASSUME NEW p \in Sleeper, T!sleep(p) PROVE TickInv'
  BY <1>3 DEF T!sleep, TickTypes, Called
<1>4. ASSUME NEW p \in Sleeper, T!kill(p) PROVE TickInv'
  BY <1>4 DEF T!kill, TickTypes, Called
<1>5. ASSUME NEW p \in Sleeper, T!leave(p) PROVE TickInv'
  BY <1>5 DEF T!leave, TickTypes, Called
<1>6. ASSUME T!timer PROVE TickInv'
  <2>1. t_ticks' \in 0 .. UINT - 1 /\ (t_ticks' = t_ticks + 1 \/ t_ticks' + UINT = t_ticks + 1)
    BY <1>6, NextTick DEF T!timer, TickTypes
  <2>2. TickTypes'
    BY <1>6, <2>1 DEF T!timer, T!Woken, TickTypes
  <2>. SUFFICES ASSUME NEW p \in Sleeper
                PROVE  /\ t_pc'[p] = "idle" => t_passed'[p] = 0
                       /\ t_pc'[p] \in {"sleep", "asleep", "runnable"} => Called(p)'
                       /\ t_pc'[p] \in {"sleep", "asleep"} => t_passed'[p] < t_n'[p]
                       /\ t_pc'[p] = "slept" => t_passed'[p] >= t_n'[p]
    BY <2>2
  <2>3. /\ t_pc'[p] = (IF t_pc[p] = "asleep" THEN "runnable" ELSE t_pc[p]) /\ t_pc[p] # "sleep"
        /\ t_passed'[p] = (IF t_pc[p] \in {"runnable", "asleep"} THEN t_passed[p] + 1 ELSE t_passed[p])
        /\ t_late'[p] = (IF t_pc[p] = "runnable" THEN t_late[p] + 1 ELSE 0)
        /\ t_n' = t_n /\ t_ticks0' = t_ticks0
    BY <1>6 DEF T!timer, T!Woken, T!Free
  <2>4. t_passed[p] \in Nat /\ t_n[p] \in Nat /\ t_late[p] \in Nat /\ t_ticks0[p] \in 0 .. UINT - 1 /\ t_ticks \in Nat
    BY DEF TickTypes
  <2>5. CASE t_pc[p] \in {"runnable", "asleep"}
    <3>1. t_passed[p] <= t_n[p] + t_late[p] /\ (t_pc[p] = "asleep" => t_passed[p] < t_n[p]) /\ t_n[p] \in Times
      BY <2>5 DEF Called
    <3>2. t_late[p] + 1 <= MaxLate \/ t_late'[p] = 0
      BY <1>6, <2>3 DEF T!timer, TickTypes
    <3>3. t_passed'[p] <= t_n[p] + t_late'[p] /\ t_pc'[p] = "runnable"
      BY <2>3, <2>4, <2>5, <3>1
    <3>4. t_ticks' = t_ticks0[p] + t_passed'[p] \/ t_ticks' + UINT = t_ticks0[p] + t_passed'[p]
      <4>1. t_passed'[p] = t_passed[p] + 1 /\ t_passed'[p] < UINT
        BY <2>2, <2>3, <2>4, <2>5, <3>1, <3>3 DEF TickTypes
      <4>2. t_ticks = t_ticks0[p] + t_passed[p] \/ t_ticks + UINT = t_ticks0[p] + t_passed[p]
        BY <2>5 DEF Called
      <4>. QED  BY <2>1, <2>4, <4>1, <4>2
    <3>. QED  BY <2>3, <3>1, <3>3, <3>4 DEF Called
  <2>6. CASE t_pc[p] \notin {"runnable", "asleep"}
    BY <2>3, <2>6
  <2>. QED  BY <2>5, <2>6
<1>7. CASE UNCHANGED T!vars
  BY <1>7 DEF T!vars, TickTypes, Called
<1>. QED  BY <1>1, <1>2, <1>3, <1>4, <1>5, <1>6, <1>7 DEF T!Next

(* sys_sleep returns 0 only after n ticks, and a process is asleep only     *)
(* before its time has come, wherever ticks wraps around meanwhile.         *)
THEOREM SleepsOnTime == T!Spec => []TimedSleep
<1>1. TickInv => TimedSleep
  BY DEF TickInv, TimedSleep, T!SleptLongEnough, T!NobodyOversleeps
<1>. QED  BY <1>1, InitTick, StepTick, PTL DEF T!Spec

-----------------------------------------------------------------------------
(* Console input.                                                          *)

Char == Keys \cup {"", "n", "D"}

ConsTypes ==
  /\ c_buf \in [0 .. INPUT_BUF - 1 -> Char]
  /\ c_r \in 0 .. UINT - 1 /\ c_w \in 0 .. UINT - 1 /\ c_e \in 0 .. UINT - 1
  /\ c_pc \in [Reader -> {"idle", "runnable", "sleep", "asleep"}]
  /\ c_n \in [Reader -> Nat] /\ c_dst \in [Reader -> Seq(Char)]
  /\ c_killed \in [Reader -> BOOLEAN]
  /\ c_line \in Seq(Char) /\ c_queue \in Seq(Char)

(* The index b is d places after the index a.                              *)
After(a, b, d) == b = a + d \/ b + UINT = a + d

(* The sequence s is in the ring, from i places after r on.                *)
InRing(i, s) == \A k \in 1 .. Len(s) : s[k] = c_buf[(c_r + i + k - 1) % INPUT_BUF]

(* The indices are as far apart as the two sequences are long, a full ring *)
(* has no line that is not finished, and a line ends at its newline.       *)
RingInv ==
  /\ Len(c_queue) + Len(c_line) <= INPUT_BUF
  /\ Len(c_queue) + Len(c_line) = INPUT_BUF => Len(c_line) = 0
  /\ After(c_r, c_w, Len(c_queue)) /\ After(c_r, c_e, Len(c_queue) + Len(c_line))
  /\ InRing(0, c_queue) /\ InRing(Len(c_queue), c_line)
  /\ \A k \in 1 .. Len(c_line) : c_line[k] # "n"

ConsInv ==
  /\ ConsTypes /\ RingInv
  /\ \A p \in Reader : c_pc[p] \in {"sleep", "asleep"} => Len(c_queue) = 0

LEMMA PlusIs ==
  ASSUME NEW U \in Nat, NEW a \in 0 .. U - 1, NEW d \in 0 .. U - 1
  PROVE  (a + d) % U \in 0 .. U - 1 /\ ((a + d) % U = a + d \/ ((a + d) % U) + U = a + d)
<1>u. U \in Int /\ U > 0
  OBVIOUS
<1>1. CASE a + d < U
  <2>1. (U * 0 + (a + d)) % U = a + d
    BY <1>u, <1>1, ModIs
  <2>. QED  BY <2>1, <1>1
<1>2. CASE a + d >= U
  <2>1. (U * 1 + (a + d - U)) % U = a + d - U
    BY <1>u, <1>2, ModIs
  <2>2. U * 1 + (a + d - U) = a + d
    OBVIOUS
  <2>. QED  BY <2>1, <2>2, <1>2
<1>. QED  BY <1>1, <1>2

(* The sum and the difference of unsigned numbers.                         *)
LEMMA PlusAfter ==
  ASSUME NEW a \in 0 .. UINT - 1, NEW d \in 0 .. UINT - 1
  PROVE  C!Plus(a, d) \in 0 .. UINT - 1 /\ After(a, C!Plus(a, d), d)
<1>1. UINT \in Nat
  BY DevicesAssumption
<1>. QED  BY <1>1, PlusIs, Zenon DEF C!Plus, After

LEMMA MinusAfter ==
  ASSUME NEW a \in 0 .. UINT - 1, NEW b \in 0 .. UINT - 1, NEW d \in 0 .. UINT - 1, After(a, b, d)
  PROVE  C!Minus(b, a) = d
<1>1. (b + UINT - a) % UINT = d
  BY Elapsed, DevicesAssumption DEF After
<1>. QED  BY <1>1 DEF C!Minus

(* The cell of an index does not depend on where the index wraps around.   *)
LEMMA CellAfter ==
  ASSUME NEW a \in Int, NEW b \in Int, NEW d \in Int, After(a, b, d)
  PROVE  b % INPUT_BUF = (a + d) % INPUT_BUF
<1>u. INPUT_BUF \in Int /\ INPUT_BUF > 0 /\ UINT \in Int
  BY DevicesAssumption
<1>1. UINT = INPUT_BUF * (UINT \div INPUT_BUF) /\ UINT \div INPUT_BUF \in Int
  <2>1. UINT = INPUT_BUF * (UINT \div INPUT_BUF) + (UINT % INPUT_BUF) /\ UINT \div INPUT_BUF \in Int /\ UINT % INPUT_BUF = 0
    BY ModParts, DevicesAssumption
  <2>. QED  BY <2>1, <1>u
<1>2. CASE b = a + d
  BY <1>2
<1>3. CASE b + UINT = a + d
  <2>1. (b + INPUT_BUF * (UINT \div INPUT_BUF)) % INPUT_BUF = b % INPUT_BUF
    BY <1>u, <1>1, ModShift, Zenon
  <2>. QED  BY <1>1, <1>3, <2>1, Zenon
<1>. QED  BY <1>2, <1>3 DEF After

LEMMA Shifted ==
  ASSUME NEW a \in Int, NEW b \in Int, NEW d \in Int, After(a, b, d), NEW i \in Int
  PROVE  After(a, b + i, d + i)
  BY DevicesAssumption DEF After

(* The cells of fewer than INPUT_BUF places in a row are different.        *)
LEMMA OtherCells ==
  ASSUME NEW a \in Nat, NEW m \in 0 .. INPUT_BUF - 1
  PROVE  /\ (a + m) % INPUT_BUF \in 0 .. INPUT_BUF - 1
         /\ \A j \in 0 .. m - 1 : (a + j) % INPUT_BUF # (a + m) % INPUT_BUF /\ (a + j) % INPUT_BUF \in 0 .. INPUT_BUF - 1
<1>u. INPUT_BUF \in Int /\ INPUT_BUF > 0
  BY DevicesAssumption
<1>1. (a + m) % INPUT_BUF \in 0 .. INPUT_BUF - 1
  BY <1>u, ModParts
<1>2. ASSUME NEW j \in 0 .. m - 1 PROVE (a + j) % INPUT_BUF # (a + m) % INPUT_BUF /\ (a + j) % INPUT_BUF \in 0 .. INPUT_BUF - 1
  <2>1. a + j \in Int /\ m - j \in 1 .. INPUT_BUF - 1 /\ (a + j) + (m - j) = a + m
    BY <1>u
  <2>2. ((a + j) + (m - j)) % INPUT_BUF # (a + j) % INPUT_BUF
    BY <1>u, <2>1, ModApart, Zenon
  <2>3. (a + j) % INPUT_BUF \in 0 .. INPUT_BUF - 1
    BY <1>u, <2>1, ModParts
  <2>. QED  BY <2>1, <2>2, <2>3, Zenon
<1>. QED  BY <1>1, <1>2, Zenon

(* What the invariant says of the differences that the code computes.      *)
LEMMA Lengths ==
  ASSUME ConsTypes, RingInv
  PROVE  /\ C!Minus(c_w, c_r) = Len(c_queue) /\ C!Minus(c_e, c_w) = Len(c_line)
         /\ C!Minus(c_e, c_r) = Len(c_queue) + Len(c_line)
         /\ Len(c_queue) \in 0 .. INPUT_BUF /\ Len(c_line) \in 0 .. INPUT_BUF /\ After(c_w, c_e, Len(c_line))
         /\ Len(c_queue) + Len(c_line) \in 0 .. INPUT_BUF /\ INPUT_BUF \in 1 .. UINT - 1
         /\ c_r \in 0 .. UINT - 1 /\ c_w \in 0 .. UINT - 1 /\ c_e \in 0 .. UINT - 1
<1>1. Len(c_queue) \in Nat /\ Len(c_line) \in Nat
  BY DEF ConsTypes
<1>2. /\ Len(c_queue) \in 0 .. INPUT_BUF /\ Len(c_line) \in 0 .. INPUT_BUF /\ INPUT_BUF \in 1 .. UINT - 1
      /\ Len(c_queue) + Len(c_line) \in 0 .. INPUT_BUF
  BY <1>1, DevicesAssumption DEF RingInv
<1>3. After(c_w, c_e, Len(c_line))
  <2>1. \A q, l \in Nat : After(c_r, c_w, q) /\ After(c_r, c_e, q + l) /\ q + l < UINT => After(c_w, c_e, l)
    BY DevicesAssumption DEF After, ConsTypes
  <2>2. Len(c_queue) + Len(c_line) < UINT
    BY <1>1, <1>2, DevicesAssumption
  <2>. QED  BY <1>1, <2>1, <2>2, Zenon DEF RingInv
<1>4. c_r \in 0 .. UINT - 1 /\ c_w \in 0 .. UINT - 1 /\ c_e \in 0 .. UINT - 1
  BY DEF ConsTypes
<1>5. Len(c_queue) \in 0 .. UINT - 1 /\ Len(c_line) \in 0 .. UINT - 1 /\ Len(c_queue) + Len(c_line) \in 0 .. UINT - 1
  BY <1>1, <1>2, DevicesAssumption
<1>6. C!Minus(c_w, c_r) = Len(c_queue) /\ C!Minus(c_e, c_w) = Len(c_line) /\ C!Minus(c_e, c_r) = Len(c_queue) + Len(c_line)
  BY <1>3, <1>4, <1>5, MinusAfter, Zenon DEF RingInv
<1>. QED  BY <1>2, <1>3, <1>4, <1>6, Zenon

(* The two sequences are what the code finds in the ring.                  *)
LEMMA UnreadIs ==
  ASSUME ConsTypes, RingInv
  PROVE  C!Unread = c_queue
<1>1. /\ C!Minus(c_w, c_r) = Len(c_queue) /\ Len(c_queue) \in 0 .. INPUT_BUF
      /\ c_r \in 0 .. UINT - 1 /\ INPUT_BUF \in 1 .. UINT - 1
  BY Lengths, Zenon
<1>2. ASSUME NEW i \in 1 .. Len(c_queue) PROVE c_buf[C!Cell(C!Plus(c_r, i - 1))] = c_queue[i]
  <2>1. i - 1 \in 0 .. UINT - 1 /\ c_r \in Int /\ i - 1 \in Int /\ 0 \in Int
    BY <1>1, DevicesAssumption
  <2>2. C!Plus(c_r, i - 1) \in 0 .. UINT - 1 /\ After(c_r, C!Plus(c_r, i - 1), i - 1)
    BY <1>1, <2>1, PlusAfter, Zenon
  <2>3. C!Plus(c_r, i - 1) % INPUT_BUF = (c_r + (i - 1)) % INPUT_BUF
    <3>1. C!Plus(c_r, i - 1) \in Int
      BY <2>2
    <3>. QED  BY <2>1, <2>2, <3>1, CellAfter, Zenon
  <2>4. c_r + (i - 1) = c_r + 0 + i - 1
    BY <2>1
  <2>5. c_queue[i] = c_buf[(c_r + 0 + i - 1) % INPUT_BUF]
    BY Zenon DEF RingInv, InRing
  <2>. QED  BY <2>3, <2>4, <2>5, Zenon DEF C!Cell
<1>3. C!Unread = [i \in 1 .. Len(c_queue) |-> c_queue[i]]
  BY <1>1, <1>2, Zenon DEF C!Unread
<1>. QED  BY <1>3 DEF ConsTypes

LEMMA LineIs ==
  ASSUME ConsTypes, RingInv
  PROVE  [i \in 1 .. C!Minus(c_e, c_w) |-> c_buf[C!Cell(C!Plus(c_w, i - 1))]] = c_line
<1>1. /\ C!Minus(c_e, c_w) = Len(c_line) /\ Len(c_line) \in 0 .. INPUT_BUF /\ Len(c_queue) \in 0 .. INPUT_BUF
      /\ c_r \in 0 .. UINT - 1 /\ c_w \in 0 .. UINT - 1 /\ INPUT_BUF \in 1 .. UINT - 1
  BY Lengths, Zenon
<1>2. ASSUME NEW i \in 1 .. Len(c_line) PROVE c_buf[C!Cell(C!Plus(c_w, i - 1))] = c_line[i]
  <2>1. i - 1 \in 0 .. UINT - 1 /\ c_r \in Int /\ c_w \in Int /\ i - 1 \in Int /\ 0 \in Int /\ Len(c_queue) \in Int
    BY <1>1, DevicesAssumption
  <2>2. C!Plus(c_w, i - 1) \in 0 .. UINT - 1 /\ After(c_w, C!Plus(c_w, i - 1), i - 1)
    BY <1>1, <2>1, PlusAfter, Zenon
  <2>3. C!Plus(c_w, i - 1) % INPUT_BUF = (c_w + (i - 1)) % INPUT_BUF
    <3>1. C!Plus(c_w, i - 1) \in Int
      BY <2>2
    <3>. QED  BY <2>1, <2>2, <3>1, CellAfter, Zenon
  <2>4. (c_w + (i - 1)) % INPUT_BUF = (c_r + (Len(c_queue) + (i - 1))) % INPUT_BUF
    <3>1. After(c_r, c_w + (i - 1), Len(c_queue) + (i - 1))
      BY <2>1, Shifted, Zenon DEF RingInv
    <3>. DEFINE b == c_w + (i - 1)
                d == Len(c_queue) + (i - 1)
    <3>2. b \in Int /\ d \in Int /\ c_r \in Int
      BY <2>1
    <3>3. b % INPUT_BUF = (c_r + d) % INPUT_BUF
      <4>1. After(c_r, b, d)
        BY <3>1, Zenon
      <4>. HIDE DEF b, d
      <4>. QED  BY <3>2, <4>1, CellAfter, Zenon
    <3>. QED  BY <3>3, Zenon
  <2>5. c_r + (Len(c_queue) + (i - 1)) = c_r + Len(c_queue) + i - 1
    BY <2>1
  <2>6. c_line[i] = c_buf[(c_r + Len(c_queue) + i - 1) % INPUT_BUF]
    BY Zenon DEF RingInv, InRing
  <2>. QED  BY <2>3, <2>4, <2>5, <2>6, Zenon DEF C!Cell
<1>3. [i \in 1 .. C!Minus(c_e, c_w) |-> c_buf[C!Cell(C!Plus(c_w, i - 1))]] = [i \in 1 .. Len(c_line) |-> c_line[i]]
  BY <1>1, <1>2
<1>4. c_line = [i \in 1 .. Len(c_line) |-> c_line[i]]
  BY DEF ConsTypes
<1>. QED  BY <1>3, <1>4, Zenon

LEMMA ConsSafe == ConsInv => ConsoleInput
<1>. SUFFICES ASSUME ConsInv PROVE ConsoleInput
  OBVIOUS
<1>1. ConsTypes /\ RingInv
  BY DEF ConsInv
<1>2. C!RingIsQueue
  BY <1>1, UnreadIs, LineIs, Zenon DEF C!RingIsQueue
<1>3. /\ C!Minus(c_e, c_r) = Len(c_queue) + Len(c_line) /\ Len(c_queue) \in Nat /\ Len(c_line) \in Nat
      /\ c_r \in 0 .. UINT - 1 /\ c_w \in 0 .. UINT - 1
  BY <1>1, Lengths
<1>4. C!FullRingReadable
  BY <1>1, <1>3, DevicesAssumption DEF C!FullRingReadable, C!Room, RingInv
<1>5. C!NoForgottenInput
  <2>1. Len(c_queue) = 0 => c_r = c_w
    BY <1>1, <1>3, DevicesAssumption DEF RingInv, After
  <2>. QED  BY <2>1 DEF ConsInv, C!NoForgottenInput
<1>. QED  BY <1>2, <1>4, <1>5 DEF ConsoleInput

(* An index that is moved on or back.                                      *)
LEMMA Moves ==
  ASSUME NEW a \in 0 .. UINT - 1, NEW b \in 0 .. UINT - 1, NEW d \in 0 .. UINT - 1, After(a, b, d)
  PROVE  /\ \A c \in 0 .. UINT - 1, i \in Nat : d + i < UINT /\ After(b, c, i) => After(a, c, d + i)
         /\ \A c \in 0 .. UINT - 1, i \in Nat : i <= d /\ After(c, b, i) => After(a, c, d - i)
         /\ \A c \in 0 .. UINT - 1, i \in Nat : i <= d /\ After(a, c, i) => After(c, b, d - i)
  BY DevicesAssumption DEF After

LEMMA MinusBack ==
  ASSUME NEW b \in 0 .. UINT - 1, NEW d \in 0 .. UINT - 1
  PROVE  C!Minus(b, d) \in 0 .. UINT - 1 /\ After(C!Minus(b, d), b, d)
<1>u. UINT \in Int /\ UINT > 0 /\ UINT \in Nat
  BY DevicesAssumption
<1>1. CASE b >= d
  <2>1. b - d \in 0 .. UINT - 1 /\ After(d, b, b - d) /\ After(b - d, b, d)
    BY <1>u, <1>1 DEF After
  <2>2. C!Minus(b, d) = b - d
    BY <2>1, MinusAfter
  <2>. QED  BY <2>1, <2>2
<1>2. CASE b < d
  <2>1. b + UINT - d \in 0 .. UINT - 1 /\ After(d, b, b + UINT - d) /\ After(b + UINT - d, b, d)
    BY <1>u, <1>2 DEF After
  <2>2. C!Minus(b, d) = b + UINT - d
    BY <2>1, MinusAfter
  <2>. QED  BY <2>1, <2>2
<1>. QED  BY <1>u, <1>1, <1>2

(* A key goes behind the line, which it ends when it is a newline or a     *)
(* control-D or fills the ring.                                            *)
LEMMA KeyCell ==
  ASSUME ConsTypes, RingInv, C!Room
  PROVE  /\ Len(c_queue) + Len(c_line) \in 0 .. INPUT_BUF - 1
         /\ C!Cell(c_e) = (c_r + (Len(c_queue) + Len(c_line))) % INPUT_BUF
         /\ C!Plus(c_e, 1) \in 0 .. UINT - 1
         /\ After(c_r, C!Plus(c_e, 1), Len(c_queue) + Len(c_line) + 1)
         /\ C!Plus(c_e, 1) = C!Plus(c_r, INPUT_BUF) <=> Len(c_queue) + Len(c_line) + 1 = INPUT_BUF
<1>. DEFINE m == Len(c_queue) + Len(c_line)
<1>1. /\ C!Minus(c_e, c_r) = m /\ m \in 0 .. INPUT_BUF /\ INPUT_BUF \in 1 .. UINT - 1
      /\ c_r \in 0 .. UINT - 1 /\ c_e \in 0 .. UINT - 1
  BY Lengths, Zenon
<1>2. After(c_r, c_e, m)
  BY Zenon DEF RingInv
<1>. HIDE DEF m
<1>3. m \in 0 .. INPUT_BUF - 1 /\ m \in 0 .. UINT - 1 /\ m \in Int /\ c_r \in Int /\ c_e \in Int /\ 1 \in 0 .. UINT - 1
  BY <1>1, DevicesAssumption DEF C!Room
<1>4. C!Cell(c_e) = (c_r + m) % INPUT_BUF
  BY <1>2, <1>3, CellAfter, Zenon DEF C!Cell
<1>5. C!Plus(c_e, 1) \in 0 .. UINT - 1 /\ After(c_e, C!Plus(c_e, 1), 1)
  BY <1>1, <1>3, PlusAfter, Zenon
<1>6. After(c_r, C!Plus(c_e, 1), m + 1)
  <2>1. m + 1 < UINT /\ 1 \in Nat
    BY <1>1, <1>3, DevicesAssumption
  <2>. QED  BY <1>1, <1>2, <1>3, <1>5, <2>1, Moves, Zenon
<1>7. C!Plus(c_r, INPUT_BUF) \in 0 .. UINT - 1 /\ After(c_r, C!Plus(c_r, INPUT_BUF), INPUT_BUF)
  <2>1. INPUT_BUF \in 0 .. UINT - 1
    BY <1>1
  <2>. QED  BY <1>1, <2>1, PlusAfter, Zenon
<1>8. C!Plus(c_e, 1) = C!Plus(c_r, INPUT_BUF) <=> m + 1 = INPUT_BUF
  BY <1>1, <1>3, <1>5, <1>6, <1>7, DevicesAssumption DEF After
<1>. QED  BY <1>3, <1>4, <1>5, <1>6, <1>8, Zenon DEF m

(* The three parts of the input after a key that ends the line.            *)
LEMMA Joined ==
  ASSUME NEW S, NEW q \in Seq(S), NEW l \in Seq(S), NEW c \in S, NEW t, t = q \o l \o <<c>>
  PROVE  /\ t \in Seq(S) /\ Len(t) = Len(q) + Len(l) + 1
         /\ \A k \in 1 .. Len(q) : t[k] = q[k]
         /\ \A k \in 1 .. Len(l) : t[Len(q) + k] = l[k]
         /\ t[Len(q) + Len(l) + 1] = c
  OBVIOUS

LEMMA StepKey ==
  ASSUME ConsInv, NEW c \in Keys \cup {"n", "D"}, C!Key(c)
  PROVE  ConsInv'
<1>1. ConsTypes /\ RingInv
  BY DEF ConsInv
<1>2. CASE ~C!Room
  <2>1. UNCHANGED C!vars
    BY <1>2, Zenon DEF C!Key
  <2>. QED  BY <2>1, Zenon DEF C!vars, ConsInv, ConsTypes, RingInv, InRing, After
<1>3. CASE C!Room
  <2>. DEFINE m == Len(c_queue) + Len(c_line)
  <2>1. /\ m \in 0 .. INPUT_BUF - 1 /\ C!Cell(c_e) = (c_r + m) % INPUT_BUF
        /\ C!Plus(c_e, 1) \in 0 .. UINT - 1 /\ After(c_r, C!Plus(c_e, 1), m + 1)
        /\ C!Plus(c_e, 1) = C!Plus(c_r, INPUT_BUF) <=> m + 1 = INPUT_BUF
    BY <1>1, <1>3, KeyCell, Zenon
  <2>2. /\ c_buf' = [c_buf EXCEPT ![(c_r + m) % INPUT_BUF] = c] /\ c_e' = C!Plus(c_e, 1)
        /\ UNCHANGED <<c_r, c_n, c_dst, c_killed>> /\ \A p \in Reader : c_pc[p] # "sleep"
    BY <1>3, <2>1, Zenon DEF C!Key, C!Free
  <2>3. /\ c_buf' \in [0 .. INPUT_BUF - 1 -> Char] /\ c_buf'[(c_r + m) % INPUT_BUF] = c /\ c \in Char
        /\ \A j \in 0 .. m - 1 : c_buf'[(c_r + j) % INPUT_BUF] = c_buf[(c_r + j) % INPUT_BUF]
    <3>c. c \in Char
      BY Zenon DEF Char
    <3>1. c_r \in Nat /\ c_buf \in [0 .. INPUT_BUF - 1 -> Char] /\ c \in Char
      BY <1>1, <3>c, DevicesAssumption DEF ConsTypes
    <3>2. m \in 0 .. INPUT_BUF - 1
      BY <2>1, Zenon
    <3>. HIDE DEF m
    <3>3. /\ (c_r + m) % INPUT_BUF \in 0 .. INPUT_BUF - 1
          /\ \A j \in 0 .. m - 1 : (c_r + j) % INPUT_BUF # (c_r + m) % INPUT_BUF /\ (c_r + j) % INPUT_BUF \in 0 .. INPUT_BUF - 1
      BY <3>1, <3>2, OtherCells, Zenon
    <3>. QED  BY <2>2, <3>1, <3>3, Zenon
  <2>4. /\ c_queue \in Seq(Char) /\ c_line \in Seq(Char) /\ c_r \in 0 .. UINT - 1 /\ Len(c_queue) \in Nat /\ Len(c_line) \in Nat
        /\ INPUT_BUF \in Nat /\ UINT \in Nat /\ INPUT_BUF < UINT
    BY <1>1, DevicesAssumption DEF ConsTypes
  <2>5. /\ \A k \in 1 .. Len(c_queue) : c_queue[k] = c_buf'[(c_r + 0 + k - 1) % INPUT_BUF]
        /\ \A k \in 1 .. Len(c_line) : c_line[k] = c_buf'[(c_r + Len(c_queue) + k - 1) % INPUT_BUF]
    <3>1. ASSUME NEW k \in 1 .. Len(c_queue) PROVE c_queue[k] = c_buf'[(c_r + 0 + k - 1) % INPUT_BUF]
      <4>1. k - 1 \in 0 .. m - 1 /\ c_r + 0 + k - 1 = c_r + (k - 1)
        BY <2>4
      <4>2. c_queue[k] = c_buf[(c_r + 0 + k - 1) % INPUT_BUF]
        BY <1>1, Zenon DEF RingInv, InRing
      <4>. QED  BY <2>3, <4>1, <4>2, Zenon
    <3>2. ASSUME NEW k \in 1 .. Len(c_line) PROVE c_line[k] = c_buf'[(c_r + Len(c_queue) + k - 1) % INPUT_BUF]
      <4>1. Len(c_queue) + k - 1 \in 0 .. m - 1 /\ c_r + Len(c_queue) + k - 1 = c_r + (Len(c_queue) + k - 1)
        BY <2>4
      <4>2. c_line[k] = c_buf[(c_r + Len(c_queue) + k - 1) % INPUT_BUF]
        BY <1>1, Zenon DEF RingInv, InRing
      <4>. QED  BY <2>3, <4>1, <4>2, Zenon
    <3>. QED  BY <3>1, <3>2, Zenon
  <2>6. CASE C!EndsLine(c)
    <3>1. c_w' = c_e' /\ c_pc' = C!Awake /\ c_queue' = c_queue \o c_line \o <<c>> /\ c_line' = <<>>
      BY <1>3, <2>6, Zenon DEF C!Key
    <3>2. /\ c_queue' \in Seq(Char) /\ Len(c_queue') = m + 1
          /\ \A k \in 1 .. Len(c_queue) : c_queue'[k] = c_queue[k]
          /\ \A k \in 1 .. Len(c_line) : c_queue'[Len(c_queue) + k] = c_line[k]
          /\ c_queue'[m + 1] = c
      BY <2>3, <2>4, <3>1, Joined, SMT
    <3>3. ASSUME NEW k \in 1 .. m + 1 PROVE c_queue'[k] = c_buf'[(c_r + 0 + k - 1) % INPUT_BUF]
      <4>1. CASE k \in 1 .. Len(c_queue)
        BY <2>5, <3>2, <4>1, Zenon
      <4>2. ASSUME NEW j \in 1 .. Len(c_line), k = Len(c_queue) + j
            PROVE  c_queue'[k] = c_buf'[(c_r + 0 + k - 1) % INPUT_BUF]
        <5>1. c_r + Len(c_queue) + j - 1 = c_r + 0 + k - 1
          BY <2>4, <4>2
        <5>. QED  BY <2>5, <3>2, <4>2, <5>1, Zenon
      <4>3. CASE k = m + 1
        <5>1. c_r + 0 + k - 1 = c_r + m
          BY <2>4, <4>3
        <5>. QED  BY <2>3, <3>2, <4>3, <5>1, Zenon
      <4>4. k \in 1 .. Len(c_queue) \/ k - Len(c_queue) \in 1 .. Len(c_line) \/ k = m + 1
        BY <2>4
      <4>5. k = Len(c_queue) + (k - Len(c_queue))
        BY <2>4
      <4>. QED  BY <4>1, <4>2, <4>3, <4>4, <4>5, Zenon
    <3>4. c_pc' \in [Reader -> {"idle", "runnable", "sleep", "asleep"}] /\ \A p \in Reader : c_pc'[p] \notin {"sleep", "asleep"}
      BY <1>1, <2>2, <3>1 DEF C!Awake, ConsTypes
    <3>5. ConsTypes'
      BY <1>1, <2>1, <2>2, <2>3, <3>1, <3>2, <3>4 DEF ConsTypes
    <3>6. Len(c_line') = 0 /\ Len(c_queue') + Len(c_line') = m + 1 /\ m + 1 <= INPUT_BUF
      BY <2>1, <2>4, <3>1, <3>2
    <3>7. RingInv'
      <4>1. InRing(0, c_queue)'
        BY <2>2, <3>2, <3>3, Zenon DEF InRing
      <4>2. InRing(Len(c_queue), c_line)' /\ \A k \in 1 .. Len(c_line') : c_line'[k] # "n"
        BY <3>6 DEF InRing
      <4>3. After(c_r', c_w', Len(c_queue')) /\ After(c_r', c_e', Len(c_queue') + Len(c_line'))
        BY <2>1, <2>2, <3>1, <3>2, <3>6, Zenon
      <4>. HIDE DEF m
      <4>. QED  BY <3>6, <4>1, <4>2, <4>3 DEF RingInv, After
    <3>. QED  BY <3>4, <3>5, <3>7 DEF ConsInv
  <2>7. CASE ~C!EndsLine(c)
    <3>1. UNCHANGED <<c_w, c_pc, c_queue>> /\ c_line' = Append(c_line, c)
      BY <1>3, <2>7, Zenon DEF C!Key
    <3>2. /\ c_line' \in Seq(Char) /\ Len(c_line') = Len(c_line) + 1 /\ c_line'[Len(c_line) + 1] = c
          /\ \A k \in 1 .. Len(c_line) : c_line'[k] = c_line[k]
      BY <2>3, <2>4, <3>1
    <3>3. c # "n" /\ m + 1 # INPUT_BUF
      BY <2>1, <2>7, Zenon DEF C!EndsLine, C!Newline
    <3>4. ASSUME NEW k \in 1 .. Len(c_line) + 1
          PROVE  c_line'[k] = c_buf'[(c_r + Len(c_queue) + k - 1) % INPUT_BUF] /\ c_line'[k] # "n"
      <4>1. CASE k \in 1 .. Len(c_line)
        BY <1>1, <2>5, <3>2, <4>1, Zenon DEF RingInv
      <4>2. CASE k = Len(c_line) + 1
        <5>1. c_r + Len(c_queue) + k - 1 = c_r + m
          BY <2>4, <4>2
        <5>. QED  BY <2>3, <3>2, <3>3, <4>2, <5>1, Zenon
      <4>. QED  BY <2>4, <4>1, <4>2
    <3>5. ConsTypes'
      BY <1>1, <2>1, <2>2, <2>3, <3>1, <3>2 DEF ConsTypes
    <3>6. Len(c_queue') + Len(c_line') = m + 1 /\ m + 1 <= INPUT_BUF
      BY <2>1, <2>4, <3>1, <3>2
    <3>7. RingInv'
      <4>1. InRing(0, c_queue)' /\ InRing(Len(c_queue), c_line)' /\ \A k \in 1 .. Len(c_line') : c_line'[k] # "n"
        BY <2>2, <2>5, <3>1, <3>2, <3>4, Zenon DEF InRing
      <4>2. After(c_r', c_w', Len(c_queue')) /\ After(c_r', c_e', Len(c_queue') + Len(c_line'))
        BY <1>1, <2>1, <2>2, <3>1, <3>6, Zenon DEF RingInv
      <4>. HIDE DEF m
      <4>. QED  BY <3>3, <3>6, <4>1, <4>2 DEF RingInv, After
    <3>. QED  BY <3>1, <3>5, <3>7, Zenon DEF ConsInv
  <2>. QED  BY <2>6, <2>7
<1>. QED  BY <1>2, <1>3

LEMMA PartOf ==
  ASSUME NEW S, NEW s \in Seq(S), NEW i \in Nat, NEW j \in Nat, i <= j, j <= Len(s)
  PROVE  /\ SubSeq(s, i + 1, j) \in Seq(S) /\ Len(SubSeq(s, i + 1, j)) = j - i
         /\ \A k \in 1 .. j - i : SubSeq(s, i + 1, j)[k] = s[i + k]
  OBVIOUS

(* Editing stays within the line: backspace takes its last character, and  *)
(* the loop of control-U ends where the line begins, as there is no        *)
(* newline in it.                                                          *)
LEMMA StepBackspace ==
  ASSUME ConsInv, C!Backspace
  PROVE  ConsInv'
<1>1. ConsTypes /\ RingInv
  BY DEF ConsInv
<1>2. /\ c_e # c_w /\ c_e' = C!Minus(c_e, 1) /\ c_line' = SubSeq(c_line, 1, Len(c_line) - 1)
      /\ UNCHANGED <<c_buf, c_r, c_w, c_pc, c_n, c_dst, c_killed, c_queue>>
  BY Zenon DEF C!Backspace
<1>3. /\ Len(c_queue) \in Nat /\ Len(c_line) \in Nat /\ After(c_w, c_e, Len(c_line)) /\ Len(c_queue) + Len(c_line) \in 0 .. INPUT_BUF
      /\ INPUT_BUF \in 1 .. UINT - 1 /\ UINT \in Nat
      /\ c_r \in 0 .. UINT - 1 /\ c_w \in 0 .. UINT - 1 /\ c_e \in 0 .. UINT - 1
  BY <1>1, Lengths, DevicesAssumption
<1>4. Len(c_line) >= 1
  BY <1>2, <1>3 DEF After
<1>5. /\ c_line' \in Seq(Char) /\ Len(c_line') = Len(c_line) - 1
      /\ \A k \in 1 .. Len(c_line) - 1 : c_line'[k] = c_line[k]
  <2>1. c_line \in Seq(Char) /\ 0 \in Nat /\ Len(c_line) - 1 \in Nat /\ 0 <= Len(c_line) - 1 /\ Len(c_line) - 1 <= Len(c_line) /\ 0 + 1 = 1
        /\ Len(c_line) - 1 - 0 = Len(c_line) - 1 /\ \A k \in 1 .. Len(c_line) - 1 : 0 + k = k
    BY <1>1, <1>3, <1>4 DEF ConsTypes
  <2>. QED  BY <1>2, <2>1, PartOf, SMT
<1>6. c_e' \in 0 .. UINT - 1 /\ After(c_r, c_e', Len(c_queue) + Len(c_line) - 1)
  <2>1. 1 \in 0 .. UINT - 1 /\ 1 \in Nat /\ 1 <= Len(c_queue) + Len(c_line) /\ Len(c_queue) + Len(c_line) \in 0 .. UINT - 1
    BY <1>3, <1>4
  <2>2. c_e' \in 0 .. UINT - 1 /\ After(c_e', c_e, 1)
    BY <1>2, <1>3, <2>1, MinusBack, Zenon
  <2>3. After(c_r, c_e, Len(c_queue) + Len(c_line))
    BY <1>1 DEF RingInv
  <2>. DEFINE m == Len(c_queue) + Len(c_line)
  <2>4. m \in 0 .. UINT - 1 /\ 1 <= m /\ After(c_r, c_e, m)
    BY <2>1, <2>3
  <2>5. SUFFICES After(c_r, c_e', m - 1)
    BY <2>2
  <2>. HIDE DEF m
  <2>. QED  BY <1>3, <2>1, <2>2, <2>4, Moves, Zenon
<1>7. ConsTypes'
  BY <1>1, <1>2, <1>5, <1>6 DEF ConsTypes
<1>8. Len(c_queue') + Len(c_line') = Len(c_queue) + Len(c_line) - 1 /\ \A k \in 1 .. Len(c_line') : k \in 1 .. Len(c_line) /\ k \in 1 .. Len(c_line) - 1
  BY <1>2, <1>3, <1>4, <1>5
<1>9. RingInv'
  <2>1. InRing(0, c_queue)' /\ InRing(Len(c_queue), c_line)' /\ \A k \in 1 .. Len(c_line') : c_line'[k] # "n"
    BY <1>1, <1>2, <1>5, <1>8, Zenon DEF InRing, RingInv
  <2>2. After(c_r', c_w', Len(c_queue')) /\ After(c_r', c_e', Len(c_queue') + Len(c_line'))
    BY <1>1, <1>2, <1>6, <1>8, Zenon DEF RingInv
  <2>. QED  BY <1>3, <1>8, <2>1, <2>2 DEF RingInv, After
<1>. QED  BY <1>2, <1>7, <1>9, Zenon DEF ConsInv

LEMMA LineStartIs ==
  ASSUME ConsTypes, RingInv
  PROVE  C!LineStart = c_w
<1>. DEFINE m == Len(c_queue) + Len(c_line)
            l == Len(c_line)
<1>1. /\ C!Minus(c_e, c_w) = l /\ l \in 0 .. INPUT_BUF /\ m \in 0 .. INPUT_BUF /\ INPUT_BUF \in 1 .. UINT - 1 /\ Len(c_queue) \in Nat
      /\ UINT \in Nat /\ c_r \in 0 .. UINT - 1 /\ c_w \in 0 .. UINT - 1 /\ c_e \in 0 .. UINT - 1 /\ After(c_w, c_e, l)
  BY Lengths, DevicesAssumption
<1>2. ASSUME NEW j \in 1 .. l PROVE c_buf[C!Cell(C!Minus(c_e, j))] # "n"
  <2>1. j \in 0 .. UINT - 1 /\ j \in Nat /\ j <= m /\ m \in 0 .. UINT - 1 /\ l - j + 1 \in 1 .. l /\ c_r \in Int /\ m - j \in Int
    BY <1>1
  <2>2. C!Minus(c_e, j) \in 0 .. UINT - 1 /\ After(C!Minus(c_e, j), c_e, j)
    BY <1>1, <2>1, MinusBack, Zenon
  <2>3. After(c_r, C!Minus(c_e, j), m - j)
    <3>1. After(c_r, c_e, m)
      BY Zenon DEF RingInv
    <3>. HIDE DEF m, l
    <3>. QED  BY <1>1, <2>1, <2>2, <3>1, Moves, Zenon
  <2>4. C!Minus(c_e, j) \in Int
    BY <1>1, <2>2
  <2>5. C!Cell(C!Minus(c_e, j)) = (c_r + (m - j)) % INPUT_BUF
    BY <2>1, <2>3, <2>4, CellAfter, Zenon DEF C!Cell
  <2>6. c_r + (m - j) = c_r + Len(c_queue) + (l - j + 1) - 1
    BY <1>1, <2>1
  <2>7. c_line[l - j + 1] = c_buf[(c_r + Len(c_queue) + (l - j + 1) - 1) % INPUT_BUF] /\ c_line[l - j + 1] # "n"
    BY <2>1, Zenon DEF RingInv, InRing
  <2>. QED  BY <2>5, <2>6, <2>7, Zenon
<1>. DEFINE back == {k \in 0 .. C!Minus(c_e, c_w) : \A j \in 1 .. k : c_buf[C!Cell(C!Minus(c_e, j))] # "n"}
<1>3. l \in back /\ \A k \in back : k <= l
  BY <1>1, <1>2
<1>4. C!Max(back) = l
  <2>1. back \subseteq Int
    BY <1>1
  <2>2. \A k \in back : (\A j \in back : k >= j) => k = l
    BY <1>1, <1>3, <2>1
  <2>3. \A j \in back : l >= j
    BY <1>1, <1>3, <2>1
  <2>. HIDE DEF back, l
  <2>. QED  BY <1>3, <2>2, <2>3, Zenon DEF C!Max
<1>5. C!LineStart = C!Minus(c_e, l)
  BY <1>4, Zenon DEF C!LineStart, C!Newline
<1>6. C!Minus(c_e, l) = c_w
  <2>1. l \in 0 .. UINT - 1 /\ After(l, c_e, c_w)
    BY <1>1 DEF After
  <2>. QED  BY <1>1, <2>1, MinusAfter, Zenon
<1>. QED  BY <1>5, <1>6, Zenon

LEMMA StepKillLine ==
  ASSUME ConsInv, C!KillLine
  PROVE  ConsInv'
<1>1. ConsTypes /\ RingInv
  BY DEF ConsInv
<1>2. c_e' = c_w /\ c_line' = <<>> /\ UNCHANGED <<c_buf, c_r, c_w, c_pc, c_n, c_dst, c_killed, c_queue>>
  BY <1>1, LineStartIs, Zenon DEF C!KillLine
<1>3. ConsTypes'
  BY <1>1, <1>2 DEF ConsTypes
<1>4. Len(c_queue') + Len(c_line') = Len(c_queue) /\ Len(c_queue) <= INPUT_BUF /\ Len(c_line') = 0
  BY <1>1, <1>2, Lengths
<1>5. RingInv'
  BY <1>1, <1>2, <1>4 DEF RingInv, InRing, After
<1>. QED  BY <1>2, <1>3, <1>5, Zenon DEF ConsInv

(* The order that the well-founded induction below uses. *)
Less == {e \in Nat \X Nat : e[1] < e[2]}

(* There is no infinite descent in the natural numbers. *)
LEMMA LessWellFounded == IsWellFoundedOn(Less, Nat)
<1>1. OpToRel(<, Nat) = Less
  BY DEF OpToRel, Less
<1>. QED  BY <1>1, NatLessThanWellFounded

(* A nonempty set of natural numbers has a least element. *)
LEMMA Least ==
  ASSUME NEW S, S \subseteq Nat, S # {}
  PROVE  \E i \in S : \A j \in S : i <= j
<1>1. PICK i \in S : \A j \in S : ~(<<j, i>> \in Less)
  BY LessWellFounded, WFMin
<1>2. \A j \in S : i \in Nat /\ j \in Nat /\ ~(j < i)
  <2>. TAKE j \in S
  <2>1. i \in Nat /\ j \in Nat /\ <<j, i>> \in Nat \X Nat
    OBVIOUS
  <2>. QED  BY <1>1, <2>1 DEF Less
<1>. QED  BY <1>2

LEMMA TwoParts ==
  ASSUME NEW S, NEW s \in Seq(S), NEW t \in Seq(S)
  PROVE  s \o t \in Seq(S) /\ Len(s \o t) = Len(s) + Len(t) /\ \A k \in 1 .. Len(t) : (s \o t)[Len(s) + k] = t[k]
  OBVIOUS

(* How far one pass of the loop of consoleread gets.                       *)
LEMMA StopIs ==
  ASSUME ConsTypes, RingInv, NEW p \in Reader
  PROVE  /\ C!Stop(p) \in 0 .. Len(c_queue) /\ C!Stop(p) <= c_n[p]
         /\ \/ C!Stop(p) = c_n[p] \/ C!Stop(p) = Len(c_queue)
            \/ C!Stop(p) >= 1 /\ c_queue[C!Stop(p)] \in {"n", "D"}
<1>. DEFINE ends == {i \in 1 .. Len(c_queue) : c_queue[i] \in {"n", "D"}}
            S == {c_n[p], Len(c_queue)} \union ends
<1>1. C!Stop(p) = C!Min(S)
  BY UnreadIs, Zenon DEF C!Stop, C!Newline, C!EOF
<1>2. c_n[p] \in Nat /\ Len(c_queue) \in Nat
  BY DEF ConsTypes
<1>3. S \subseteq Nat /\ S # {}
  BY <1>2
<1>4. C!Min(S) \in S /\ \A j \in S : C!Min(S) <= j
  <2>. HIDE DEF S
  <2>1. \E i \in S : \A j \in S : i <= j
    BY <1>3, Least, Zenon
  <2>. QED  BY <2>1, Zenon DEF C!Min
<1>. DEFINE k == C!Min(S)
<1>5. k \in S /\ k \in Nat /\ k <= c_n[p] /\ k <= Len(c_queue)
  <2>1. c_n[p] \in S /\ Len(c_queue) \in S
    BY Zenon
  <2>. HIDE DEF S
  <2>. QED  BY <1>3, <1>4, <2>1, Zenon
<1>6. k = c_n[p] \/ k = Len(c_queue) \/ (k \in 1 .. Len(c_queue) /\ c_queue[k] \in {"n", "D"})
  <2>. HIDE DEF k
  <2>. QED  BY <1>5, Zenon
<1>. HIDE DEF k, S
<1>7. k \in 0 .. Len(c_queue) /\ (k \in 1 .. Len(c_queue) => k >= 1)
  BY <1>2, <1>5
<1>8. C!Stop(p) = k
  BY <1>1, Zenon DEF k
<1>. QED  BY <1>5, <1>6, <1>7, <1>8, Zenon

(* The loop takes k characters, the last of which may be a control-D that  *)
(* is not data and that is put back behind data.                           *)
LEMMA LoopIs ==
  ASSUME ConsTypes, RingInv, NEW p \in Reader, C!Loop(p)
  PROVE  \E k \in 0 .. Len(c_queue), u \in Nat, d \in Nat :
           /\ k <= c_n[p] /\ u <= k /\ d <= k
           /\ c_dst' = [c_dst EXCEPT ![p] = @ \o SubSeq(c_queue, 1, d)]
           /\ c_r' = C!Plus(c_r, u)
           /\ c_queue' = SubSeq(c_queue, u + 1, Len(c_queue))
           /\ c_n' = [c_n EXCEPT ![p] = @ - d]
           /\ UNCHANGED <<c_buf, c_w, c_e, c_killed, c_line>>
           /\ \/ k >= 1 /\ c_queue[k] = "D" /\ d = k - 1 /\ u = (IF k > 1 \/ c_dst[p] # <<>> THEN k - 1 ELSE k)
                 /\ c_pc' = [c_pc EXCEPT ![p] = "idle"]
              \/ k >= 1 /\ c_queue[k] = "n" /\ d = k /\ u = k /\ c_pc' = [c_pc EXCEPT ![p] = "idle"]
              \/ k = c_n[p] /\ d = k /\ u = k /\ c_pc' = [c_pc EXCEPT ![p] = "idle"]
              \/ k = Len(c_queue) /\ d = k /\ u = k /\ c_killed[p] /\ c_pc' = [c_pc EXCEPT ![p] = "idle"]
              \/ k = Len(c_queue) /\ d = k /\ u = k /\ ~c_killed[p] /\ c_pc' = [c_pc EXCEPT ![p] = "sleep"]
<1>. DEFINE k == C!Stop(p)
            last == IF k = 0 THEN "" ELSE c_queue[k]
            eof == last = "D"
            saved == c_queue[k] = "D" /\ (k > 1 \/ c_dst[p] # <<>>)
            d == IF eof THEN k - 1 ELSE k
            u == IF eof /\ saved THEN k - 1 ELSE k
            done == eof \/ last = "n" \/ k = c_n[p]
<1>1. k \in 0 .. Len(c_queue) /\ k <= c_n[p] /\ (k = c_n[p] \/ k = Len(c_queue) \/ (k >= 1 /\ c_queue[k] \in {"n", "D"}))
  BY StopIs, Zenon
<1>2. /\ c_dst' = [c_dst EXCEPT ![p] = @ \o SubSeq(c_queue, 1, d)]
      /\ c_r' = C!Plus(c_r, u)
      /\ c_queue' = SubSeq(c_queue, u + 1, Len(c_queue))
      /\ c_n' = [c_n EXCEPT ![p] = @ - Len(SubSeq(c_queue, 1, d))]
      /\ c_pc' = [c_pc EXCEPT ![p] = IF done \/ c_killed[p] THEN "idle" ELSE "sleep"]
      /\ UNCHANGED <<c_buf, c_w, c_e, c_killed, c_line>>
  BY UnreadIs, Zenon DEF C!Loop, C!Saved, C!EOF, C!Newline
<1>. HIDE DEF k
<1>3. c_queue \in Seq(Char) /\ Len(c_queue) \in Nat /\ c_killed[p] \in BOOLEAN
  BY DEF ConsTypes
<1>4. k \in Nat /\ (eof => k >= 1 /\ c_queue[k] = "D") /\ (last = "n" => k >= 1 /\ c_queue[k] = "n")
  BY <1>1, <1>3
<1>5. d \in Nat /\ u \in Nat /\ d <= k /\ u <= k /\ d <= Len(c_queue)
  BY <1>1, <1>3, <1>4
<1>6. Len(SubSeq(c_queue, 1, d)) = d
  <2>1. 0 \in Nat /\ 0 <= d /\ 0 + 1 = 1 /\ d - 0 = d
    BY <1>5
  <2>2. Len(SubSeq(c_queue, 0 + 1, d)) = d - 0
    <3>. HIDE DEF d
    <3>1. c_queue \in Seq(Char) /\ d \in Nat /\ d <= Len(c_queue)
      BY <1>3, <1>5, Zenon
    <3>. QED  BY <2>1, <3>1, PartOf, SMT
  <2>. QED  BY <2>1, <2>2, Zenon
<1>7. c_n' = [c_n EXCEPT ![p] = @ - d]
  BY <1>2, <1>6, Zenon
<1>8. \/ k >= 1 /\ c_queue[k] = "D" /\ d = k - 1 /\ u = (IF k > 1 \/ c_dst[p] # <<>> THEN k - 1 ELSE k)
         /\ c_pc' = [c_pc EXCEPT ![p] = "idle"]
      \/ k >= 1 /\ c_queue[k] = "n" /\ d = k /\ u = k /\ c_pc' = [c_pc EXCEPT ![p] = "idle"]
      \/ k = c_n[p] /\ d = k /\ u = k /\ c_pc' = [c_pc EXCEPT ![p] = "idle"]
      \/ k = Len(c_queue) /\ d = k /\ u = k /\ c_killed[p] /\ c_pc' = [c_pc EXCEPT ![p] = "idle"]
      \/ k = Len(c_queue) /\ d = k /\ u = k /\ ~c_killed[p] /\ c_pc' = [c_pc EXCEPT ![p] = "sleep"]
  <2>1. CASE eof
    BY <1>2, <1>4, <2>1, Zenon
  <2>2. CASE ~eof /\ last = "n"
    BY <1>2, <1>4, <2>2, Zenon
  <2>3. CASE ~eof /\ last # "n"
    <3>1. d = k /\ u = k
      BY <2>3, Zenon
    <3>2. k >= 1 => last = c_queue[k]
      <4>1. k >= 1 => k # 0
        BY <1>1, <1>3
      <4>. QED  BY <4>1, Zenon
    <3>3. k = c_n[p] \/ k = Len(c_queue)
      BY <1>1, <2>3, <3>2, Zenon
    <3>4. c_pc' = [c_pc EXCEPT ![p] = IF k = c_n[p] \/ c_killed[p] THEN "idle" ELSE "sleep"]
      BY <1>2, <2>3, Zenon
    <3>. HIDE DEF d, u
    <3>. QED  BY <3>1, <3>3, <3>4, Zenon
  <2>. QED  BY <2>1, <2>2, <2>3, Zenon
<1>. HIDE DEF d, u
<1>. QED  BY <1>1, <1>2, <1>5, <1>7, <1>8, Zenon

(* Taking u characters out of the ring leaves the rest of the input, and   *)
(* the line, where they are.                                               *)
LEMMA Consume ==
  ASSUME ConsTypes, RingInv, NEW u \in Nat, u <= Len(c_queue),
         c_r' = C!Plus(c_r, u), c_queue' = SubSeq(c_queue, u + 1, Len(c_queue)),
         UNCHANGED <<c_buf, c_w, c_e, c_line>>
  PROVE  /\ RingInv' /\ c_r' \in 0 .. UINT - 1 /\ c_queue' \in Seq(Char) /\ Len(c_queue') = Len(c_queue) - u
         /\ \A k \in 1 .. Len(c_queue) - u : c_queue'[k] = c_queue[u + k]
<1>. DEFINE q == Len(c_queue)
            l == Len(c_line)
<1>1. /\ q \in 0 .. INPUT_BUF /\ l \in Nat /\ q + l \in 0 .. INPUT_BUF /\ INPUT_BUF \in 1 .. UINT - 1 /\ UINT \in Nat
      /\ c_r \in 0 .. UINT - 1 /\ c_w \in 0 .. UINT - 1 /\ c_e \in 0 .. UINT - 1
  BY Lengths, DevicesAssumption
<1>2. u \in 0 .. UINT - 1 /\ q \in Nat /\ q \in 0 .. UINT - 1 /\ q + l \in 0 .. UINT - 1 /\ u <= q + l /\ u <= q
  BY <1>1
<1>3. c_r' \in 0 .. UINT - 1 /\ After(c_r, c_r', u)
  BY <1>1, <1>2, PlusAfter, Zenon
<1>4. c_queue' \in Seq(Char) /\ Len(c_queue') = q - u /\ \A k \in 1 .. q - u : c_queue'[k] = c_queue[u + k]
  <2>1. c_queue \in Seq(Char) /\ u \in Nat /\ q \in Nat /\ u <= q /\ q <= Len(c_queue)
    BY <1>2 DEF ConsTypes
  <2>. HIDE DEF q
  <2>2. c_queue' = SubSeq(c_queue, u + 1, q)
    BY Zenon DEF q
  <2>. QED  BY <2>1, <2>2, PartOf, SMT
<1>5. After(c_r', c_w, q - u) /\ After(c_r', c_e, (q + l) - u)
  <2>1. After(c_r, c_w, q) /\ After(c_r, c_e, q + l)
    BY Zenon DEF RingInv
  <2>. DEFINE m == q + l
  <2>2. m \in 0 .. UINT - 1 /\ u <= m /\ After(c_r, c_e, m)
    BY <1>2, <2>1, Zenon
  <2>3. After(c_r', c_e, m - u)
    <3>. HIDE DEF m
    <3>. QED  BY <1>1, <1>2, <1>3, <2>2, Moves, Zenon
  <2>4. After(c_r', c_w, q - u)
    <3>. HIDE DEF q
    <3>. QED  BY <1>1, <1>2, <1>3, <2>1, Moves, Zenon
  <2>. QED  BY <2>3, <2>4, Zenon
<1>6. ASSUME NEW i \in Int PROVE (c_r' + i) % INPUT_BUF = (c_r + (u + i)) % INPUT_BUF
  <2>1. After(c_r, c_r' + i, u + i)
    <3>1. c_r \in Int /\ c_r' \in Int /\ u \in Int
      BY <1>1, <1>3
    <3>. QED  BY <1>3, <3>1, Shifted, Zenon
  <2>. DEFINE b == c_r' + i
              d == u + i
  <2>2. c_r \in Int /\ b \in Int /\ d \in Int
    BY <1>1, <1>3
  <2>3. b % INPUT_BUF = (c_r + d) % INPUT_BUF
    <3>1. After(c_r, b, d)
      BY <2>1, Zenon
    <3>. HIDE DEF b, d
    <3>. QED  BY <2>2, <3>1, CellAfter, Zenon
  <2>. QED  BY <2>3, Zenon
<1>7. ASSUME NEW k \in 1 .. q - u PROVE c_queue'[k] = c_buf[(c_r' + 0 + k - 1) % INPUT_BUF]
  <2>1. u + k \in 1 .. q /\ k - 1 \in Int /\ c_r' + 0 + k - 1 = c_r' + (k - 1) /\ c_r + 0 + (u + k) - 1 = c_r + (u + (k - 1))
    BY <1>1, <1>2, <1>3
  <2>2. c_queue[u + k] = c_buf[(c_r + 0 + (u + k) - 1) % INPUT_BUF]
    BY <2>1, Zenon DEF RingInv, InRing
  <2>3. (c_r' + (k - 1)) % INPUT_BUF = (c_r + (u + (k - 1))) % INPUT_BUF
    BY <1>6, <2>1, Zenon
  <2>. QED  BY <1>4, <2>1, <2>2, <2>3, Zenon
<1>8. ASSUME NEW k \in 1 .. l PROVE c_line[k] = c_buf[(c_r' + (q - u) + k - 1) % INPUT_BUF]
  <2>1. /\ (q - u) + k - 1 \in Int /\ c_r' + (q - u) + k - 1 = c_r' + ((q - u) + k - 1)
        /\ c_r + q + k - 1 = c_r + (u + ((q - u) + k - 1))
    <3>1. q \in Int /\ u \in Int /\ k \in Int /\ c_r \in Int /\ c_r' \in Int
      BY <1>1, <1>2, <1>3
    <3>. HIDE DEF q, l
    <3>. QED  BY <3>1
  <2>2. c_line[k] = c_buf[(c_r + q + k - 1) % INPUT_BUF]
    BY Zenon DEF RingInv, InRing
  <2>3. (c_r' + ((q - u) + k - 1)) % INPUT_BUF = (c_r + (u + ((q - u) + k - 1))) % INPUT_BUF
    BY <1>6, <2>1, Zenon
  <2>. QED  BY <2>1, <2>2, <2>3, Zenon
<1>9. RingInv'
  <2>1. InRing(0, c_queue)' /\ InRing(Len(c_queue), c_line)'
    BY <1>4, <1>7, <1>8, Zenon DEF InRing
  <2>2. Len(c_queue') + Len(c_line') = (q + l) - u
    BY <1>1, <1>4
  <2>3. After(c_r', c_w', Len(c_queue')) /\ After(c_r', c_e', Len(c_queue') + Len(c_line'))
    BY <1>4, <1>5, <2>2, Zenon
  <2>4. /\ (q + l) - u <= INPUT_BUF /\ ((q + l) - u = INPUT_BUF => l = 0)
        /\ \A k \in 1 .. l : c_line[k] # "n"
    <3>1. (q + l = INPUT_BUF => l = 0) /\ \A k \in 1 .. l : c_line[k] # "n"
      BY Zenon DEF RingInv
    <3>. HIDE DEF q, l
    <3>. QED  BY <1>1, <1>2, <3>1
  <2>. QED  BY <2>1, <2>2, <2>3, <2>4, Zenon DEF RingInv
<1>. QED  BY <1>3, <1>4, <1>9, Zenon

LEMMA StepRead ==
  ASSUME ConsInv, NEW p \in Reader, C!consoleread(p)
  PROVE  ConsInv' /\ C!EofStep
<1>1. ConsTypes /\ RingInv /\ c_pc[p] = "runnable" /\ C!Loop(p) /\ \A x \in Reader : c_pc[x] # "sleep"
  BY Zenon DEF ConsInv, C!consoleread, C!Free
<1>2. PICK k \in 0 .. Len(c_queue), u \in Nat, d \in Nat :
           /\ k <= c_n[p] /\ u <= k /\ d <= k
           /\ c_dst' = [c_dst EXCEPT ![p] = @ \o SubSeq(c_queue, 1, d)]
           /\ c_r' = C!Plus(c_r, u)
           /\ c_queue' = SubSeq(c_queue, u + 1, Len(c_queue))
           /\ c_n' = [c_n EXCEPT ![p] = @ - d]
           /\ UNCHANGED <<c_buf, c_w, c_e, c_killed, c_line>>
           /\ \/ k >= 1 /\ c_queue[k] = "D" /\ d = k - 1 /\ u = (IF k > 1 \/ c_dst[p] # <<>> THEN k - 1 ELSE k)
                 /\ c_pc' = [c_pc EXCEPT ![p] = "idle"]
              \/ k >= 1 /\ c_queue[k] = "n" /\ d = k /\ u = k /\ c_pc' = [c_pc EXCEPT ![p] = "idle"]
              \/ k = c_n[p] /\ d = k /\ u = k /\ c_pc' = [c_pc EXCEPT ![p] = "idle"]
              \/ k = Len(c_queue) /\ d = k /\ u = k /\ c_killed[p] /\ c_pc' = [c_pc EXCEPT ![p] = "idle"]
              \/ k = Len(c_queue) /\ d = k /\ u = k /\ ~c_killed[p] /\ c_pc' = [c_pc EXCEPT ![p] = "sleep"]
  BY <1>1, LoopIs, Zenon
<1>3. /\ c_queue \in Seq(Char) /\ Len(c_queue) \in Nat /\ c_n[p] \in Nat /\ c_dst[p] \in Seq(Char) /\ k \in Nat
      /\ u <= Len(c_queue) /\ d <= Len(c_queue) /\ d <= c_n[p]
  BY <1>1, <1>2 DEF ConsTypes
<1>4. /\ RingInv' /\ c_r' \in 0 .. UINT - 1 /\ c_queue' \in Seq(Char) /\ Len(c_queue') = Len(c_queue) - u
      /\ \A j \in 1 .. Len(c_queue) - u : c_queue'[j] = c_queue[u + j]
  BY <1>1, <1>2, <1>3, Consume, Zenon
<1>. DEFINE data == SubSeq(c_queue, 1, d)
<1>5. data \in Seq(Char) /\ Len(data) = d /\ \A j \in 1 .. d : data[j] = c_queue[j]
  <2>1. 0 \in Nat /\ 0 <= d /\ 0 + 1 = 1 /\ d - 0 = d /\ \A j \in 1 .. d : 0 + j = j
    BY <1>3
  <2>2. SubSeq(c_queue, 0 + 1, d) \in Seq(Char) /\ Len(SubSeq(c_queue, 0 + 1, d)) = d - 0
        /\ \A j \in 1 .. d - 0 : SubSeq(c_queue, 0 + 1, d)[j] = c_queue[0 + j]
    BY <1>3, <2>1, PartOf, SMT
  <2>. QED  BY <2>1, <2>2, Zenon
<1>. HIDE DEF data
<1>6. c_dst' = [c_dst EXCEPT ![p] = @ \o data] /\ c_dst'[p] = c_dst[p] \o data
  BY <1>1, <1>2, Zenon DEF data, ConsTypes
<1>7. c_dst[p] \o data \in Seq(Char) /\ Len(c_dst[p] \o data) = Len(c_dst[p]) + d /\ (d >= 1 => (c_dst[p] \o data)[Len(c_dst[p]) + d] = c_queue[d])
  <2>1. d >= 1 => d \in 1 .. d
    BY <1>3
  <2>2. /\ c_dst[p] \o data \in Seq(Char) /\ Len(c_dst[p] \o data) = Len(c_dst[p]) + Len(data)
        /\ \A j \in 1 .. Len(data) : (c_dst[p] \o data)[Len(c_dst[p]) + j] = data[j]
    <3>1. c_dst[p] \in Seq(Char) /\ data \in Seq(Char)
      BY <1>3, <1>5, Zenon
    <3>. QED  BY <3>1, TwoParts, Zenon
  <2>. QED  BY <1>5, <2>1, <2>2, Zenon
<1>8. c_pc' \in [Reader -> {"idle", "runnable", "sleep", "asleep"}] /\ \A x \in Reader : x # p => c_pc'[x] = c_pc[x]
  BY <1>1, <1>2 DEF ConsTypes
<1>9. ConsTypes'
  <2>1. c_n' \in [Reader -> Nat]
    <3>1. c_n[p] - d \in Nat
      BY <1>3
    <3>. QED  BY <1>1, <1>2, <3>1, Zenon DEF ConsTypes
  <2>2. c_dst' \in [Reader -> Seq(Char)]
    BY <1>1, <1>6, <1>7, Zenon DEF ConsTypes
  <2>. QED  BY <1>1, <1>2, <1>4, <1>8, <2>1, <2>2, Zenon DEF ConsTypes
<1>10. ASSUME NEW x \in Reader, c_pc'[x] \in {"sleep", "asleep"} PROVE Len(c_queue') = 0
  <2>1. CASE x = p
    <3>1. c_pc'[p] = "idle" \/ u = Len(c_queue)
      BY <1>1, <1>2, Zenon DEF ConsTypes
    <3>. QED  BY <1>3, <1>4, <1>10, <2>1, <3>1
  <2>2. CASE x # p
    <3>1. Len(c_queue) = 0
      BY <1>8, <1>10, <2>2, Zenon DEF ConsInv
    <3>. QED  BY <1>3, <1>4, <3>1
  <2>. QED  BY <2>1, <2>2
<1>11. ASSUME NEW x \in Reader, c_pc[x] = "runnable", c_pc'[x] = "idle", ~c_killed[x]
       PROVE  \/ c_n'[x] = 0
              \/ c_dst'[x] # <<>> /\ c_dst'[x][Len(c_dst'[x])] = "n"
              \/ c_dst'[x] # <<>> /\ c_queue' # <<>> /\ Head(c_queue') = "D"
              \/ c_dst'[x] = <<>> /\ c_queue = <<"D">> \o c_queue'
  <2>1. x = p
    BY <1>8, <1>11, Zenon
  <2>n. c_n'[p] = c_n[p] - d
    BY <1>1, <1>2, Zenon DEF ConsTypes
  <2>2. CASE k = c_n[p] /\ d = k
    BY <1>3, <2>1, <2>2, <2>n
  <2>3. CASE k >= 1 /\ c_queue[k] = "n" /\ d = k
    BY <1>3, <1>6, <1>7, <2>1, <2>3
  <2>4. CASE k >= 1 /\ c_queue[k] = "D" /\ d = k - 1 /\ u = (IF k > 1 \/ c_dst[p] # <<>> THEN k - 1 ELSE k)
    <3>1. CASE k > 1 \/ c_dst[p] # <<>>
      <4>1. u = k - 1 /\ c_dst'[p] # <<>>
        BY <1>3, <1>6, <1>7, <2>4, <3>1
      <4>2. c_queue' # <<>> /\ c_queue'[1] = c_queue[k]
        <5>1. u + 1 = k /\ 1 \in 1 .. Len(c_queue) - u
          BY <1>3, <2>4, <4>1
        <5>2. c_queue'[1] = c_queue[u + 1]
          BY <1>4, <5>1, Zenon
        <5>. QED  BY <1>4, <5>1, <5>2
      <4>3. Head(c_queue') = "D"
        BY <1>4, <2>4, <4>2
      <4>. QED  BY <2>1, <4>1, <4>2, <4>3
    <3>2. CASE ~(k > 1 \/ c_dst[p] # <<>>)
      <4>1. k = 1 /\ u = 1 /\ d = 0 /\ c_dst[p] = <<>> /\ Len(c_queue) >= 1
        BY <1>2, <1>3, <2>4, <3>2
      <4>2. c_dst'[p] = <<>>
        BY <1>3, <1>6, <1>7, <4>1
      <4>3. \A j \in 1 .. Len(c_queue) - 1 : c_queue'[j] = c_queue[1 + j]
        BY <1>4, <4>1, Zenon
      <4>4. c_queue = <<"D">> \o c_queue'
        <5>1. "D" \in Char
          BY Zenon DEF Char
        <5>2. /\ <<"D">> \o c_queue' \in Seq(Char) /\ Len(<<"D">> \o c_queue') = 1 + Len(c_queue')
              /\ (<<"D">> \o c_queue')[1] = "D" /\ \A j \in 1 .. Len(c_queue') : (<<"D">> \o c_queue')[1 + j] = c_queue'[j]
          BY <1>4, <5>1
        <5>3. \A i \in 1 .. Len(c_queue) : i = 1 \/ (i - 1 \in 1 .. Len(c_queue') /\ i = 1 + (i - 1))
          BY <1>3, <1>4, <4>1
        <5>4. \A i \in 1 .. Len(c_queue) : c_queue[i] = (<<"D">> \o c_queue')[i]
          BY <2>4, <4>1, <4>3, <1>4, <5>2, <5>3, Zenon
        <5>. DEFINE t == <<"D">> \o c_queue'
        <5>5. t \in Seq(Char) /\ Len(t) = Len(c_queue) /\ \A i \in 1 .. Len(c_queue) : c_queue[i] = t[i]
          BY <1>3, <1>4, <4>1, <5>2, <5>4
        <5>. HIDE DEF t
        <5>6. c_queue = t
          BY <1>3, <5>5
        <5>. QED  BY <5>6 DEF t
      <4>. QED  BY <2>1, <4>2, <4>4, Zenon
    <3>. QED  BY <3>1, <3>2, Zenon
  <2>5. c_pc' # [c_pc EXCEPT ![p] = "sleep"]
    BY <1>1, <1>11, <2>1, Zenon DEF ConsTypes
  <2>. QED  BY <1>2, <1>11, <2>1, <2>2, <2>3, <2>4, <2>5, Zenon
<1>. QED  BY <1>4, <1>9, <1>10, <1>11, Zenon DEF ConsInv, C!EofStep, C!EOF, C!Newline

LEMMA InitCons == C!Init => ConsInv
<1>. SUFFICES ASSUME C!Init PROVE ConsInv
  OBVIOUS
<1>1. ConsTypes
  <2>1. "" \in Char /\ <<>> \in Seq(Char) /\ 0 \in 0 .. UINT - 1 /\ 0 \in Nat
    BY DevicesAssumption DEF Char
  <2>. QED  BY <2>1, Zenon DEF C!Init, ConsTypes
<1>2. RingInv
  <2>1. Len(c_queue) = 0 /\ Len(c_line) = 0 /\ c_r = 0 /\ c_w = 0 /\ c_e = 0
    BY DEF C!Init
  <2>. QED  BY <2>1, DevicesAssumption DEF RingInv, InRing, After
<1>. QED  BY <1>1, <1>2 DEF ConsInv, C!Init

(* Of the other steps none ends a read.                                    *)
LEMMA StepCons == ConsInv /\ [C!Next]_C!vars => ConsInv' /\ [C!EofStep]_C!vars
<1>. SUFFICES ASSUME ConsInv, [C!Next]_C!vars PROVE ConsInv' /\ [C!EofStep]_C!vars
  OBVIOUS
<1>i. ConsTypes /\ RingInv
  BY DEF ConsInv
<1>1. ASSUME C!consoleintr PROVE ConsInv' /\ C!EofStep
  <2>1. ConsInv'
    <3>1. ASSUME NEW c \in Keys \cup {"n", "D"}, C!Key(c) PROVE ConsInv'
      BY <3>1, StepKey
    <3>. QED  BY <1>1, <3>1, StepBackspace, StepKillLine, Zenon DEF C!consoleintr, C!Newline, C!EOF
  <2>2. ASSUME NEW p \in Reader PROVE c_pc[p] = "runnable" => c_pc'[p] = "runnable"
    BY <1>1, Zenon DEF C!consoleintr, C!Key, C!Backspace, C!KillLine, C!Awake, C!vars
  <2>3. C!EofStep
    BY <2>2 DEF C!EofStep
  <2>. QED  BY <2>1, <2>3
<1>2. ASSUME NEW p \in Reader, C!consoleread(p) PROVE ConsInv' /\ C!EofStep
  BY <1>2, StepRead
<1>3. ASSUME NEW p \in Reader, C!enter(p) \/ C!sleep(p) \/ C!kill(p) \/ C!exit(p) PROVE ConsInv' /\ C!EofStep
  <2>1. UNCHANGED <<c_buf, c_r, c_w, c_e, c_line, c_queue>>
    BY <1>3, Zenon DEF C!enter, C!sleep, C!kill, C!exit
  <2>2. RingInv'
    BY <1>i, <2>1, Zenon DEF RingInv, InRing, After
  <2>3. ConsTypes'
    <3>1. /\ c_pc' \in [Reader -> {"idle", "runnable", "sleep", "asleep"}] /\ c_killed' \in [Reader -> BOOLEAN]
          /\ c_n' \in [Reader -> Nat]
      BY <1>i, <1>3, DevicesAssumption DEF C!enter, C!sleep, C!kill, C!exit, ConsTypes
    <3>2. c_dst' \in [Reader -> Seq(Char)]
      <4>1. <<>> \in Seq(Char)
        OBVIOUS
      <4>. QED  BY <1>i, <1>3, <4>1, Zenon DEF C!enter, C!sleep, C!kill, C!exit, ConsTypes
    <3>. QED  BY <1>i, <2>1, <3>1, <3>2, Zenon DEF ConsTypes
  <2>4. ASSUME NEW x \in Reader
        PROVE  /\ c_pc'[x] \in {"sleep", "asleep"} => c_pc[x] \in {"sleep", "asleep"}
               /\ c_pc[x] = "runnable" => c_pc'[x] = "runnable"
    BY <1>i, <1>3 DEF C!enter, C!sleep, C!kill, C!exit, ConsTypes
  <2>5. C!EofStep
    BY <2>4 DEF C!EofStep
  <2>. QED  BY <2>1, <2>2, <2>3, <2>4, <2>5, Zenon DEF ConsInv
<1>4. CASE UNCHANGED C!vars
  BY <1>4, Zenon DEF C!vars, ConsInv, ConsTypes, RingInv, InRing, After
<1>. QED  BY <1>1, <1>2, <1>3, <1>4 DEF C!Next

(* consoleintr and consoleread, for any number of readers and any keys:    *)
(* the ring is the finished input followed by the line being edited,       *)
(* nothing unread is overwritten, the keyboard is never locked out by a    *)
(* long line, and no reader sleeps while there is input.                   *)
THEOREM ConsoleKeepsInput == C!Spec => []ConsoleInput
<1>1. ConsInv /\ [C!Next]_C!vars => ConsInv'
  BY StepCons
<1>. QED  BY <1>1, InitCons, ConsSafe, PTL DEF C!Spec

(* consoleread sees each control-D once: behind data it is left for the    *)
(* next read, which it ends without data.                                  *)
THEOREM ConsoleEndsFile == C!Spec => EofSeenOnce
<1>1. ConsInv /\ [C!Next]_C!vars => ConsInv' /\ [C!EofStep]_C!vars
  BY StepCons
<1>. QED  BY <1>1, InitCons, PTL DEF C!Spec, EofSeenOnce

=============================================================================
