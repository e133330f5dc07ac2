---------------------------- MODULE VmStepProofs ----------------------------
(***************************************************************************)
(* Proofs about Vm, first part, for any number of processes and pages, any *)
(* geometry of the page tables and any program files: what a step does to  *)
(* the places of the pages, why it leaves the other processes alone, and   *)
(* the steps inside the calls.  VmIndInv has the inductive invariant.      *)
(***************************************************************************)
EXTENDS VmIndInv, TLAPS

USE Zenon

-----------------------------------------------------------------------------
(* Page numbers.                                                           *)

LEMMA DivParts ==
  ASSUME NEW a \in Int, NEW m \in Int, m > 0
  PROVE  a \div m \in Int /\ \E r \in 0 .. m - 1 : a = m * (a \div m) + r
<1>1. a = m * (a \div m) + (a % m) /\ a \div m \in Int /\ a % m \in 0 .. m - 1
  BY Z3T(60)
<1> QED  BY <1>1

(* What multiples of m bound. *)
LEMMA TimesLess ==
  ASSUME NEW m \in Nat, m > 0, NEW i \in Int, NEW j \in Int, m * i < m * j
  PROVE  i < j
<1>1. i >= j => m * i >= m * j
  BY SMT
<1> QED  BY <1>1, SMT

(* Pages(a) is the least number of pages with room for a bytes. *)
LEMMA PagesBounds ==
  ASSUME NEW a \in Nat
  PROVE  Pages(a) \in Nat /\ a <= PGSIZE * Pages(a) /\ PGSIZE * (Pages(a) - 1) < a
<1> DEFINE n == (a + PGSIZE - 1) \div PGSIZE
<1>1. PGSIZE \in Nat /\ PGSIZE > 0
  BY VmAssumption, SMT
<1>2. n \in Int /\ \E r \in 0 .. PGSIZE - 1 : a + PGSIZE - 1 = PGSIZE * n + r
  BY <1>1, DivParts, SMT
<1> HIDE DEF n
<1>3. PICK r \in 0 .. PGSIZE - 1 : a + PGSIZE - 1 = PGSIZE * n + r
  BY <1>2
<1>4. PGSIZE * (n - 1) = PGSIZE * n - PGSIZE
  BY <1>1, <1>2, SMT
<1>5. a <= PGSIZE * n /\ PGSIZE * (n - 1) < a
  BY <1>1, <1>2, <1>3, <1>4, SMT
<1>6. PGSIZE * (-1) < PGSIZE * n
  BY <1>1, <1>2, <1>5, SMT
<1>7. n >= 0
  BY <1>1, <1>2, <1>6, TimesLess, SMT
<1> QED  BY <1>2, <1>5, <1>7, SMT DEF Pages, n

LEMMA PagesMonotone ==
  ASSUME NEW a \in Nat, NEW b \in Nat, a <= b
  PROVE  Pages(a) <= Pages(b)
<1>1. Pages(a) \in Nat /\ PGSIZE * (Pages(a) - 1) < a /\ Pages(b) \in Nat /\ b <= PGSIZE * Pages(b)
  BY PagesBounds
<1>2. PGSIZE \in Nat /\ PGSIZE > 0
  BY VmAssumption, SMT
<1>3. PGSIZE * (Pages(a) - 1) < PGSIZE * Pages(b)
  BY <1>1, <1>2, SMT
<1>4. Pages(a) - 1 < Pages(b)
  BY <1>1, <1>2, <1>3, TimesLess, SMT
<1> QED  BY <1>1, <1>4, SMT

LEMMA PagesTimes ==
  ASSUME NEW k \in Nat
  PROVE  Pages(k * PGSIZE) = k
<1>1. PGSIZE \in Nat /\ PGSIZE > 0 /\ k * PGSIZE \in Nat /\ k * PGSIZE = PGSIZE * k
  BY VmAssumption, SMT
<1> DEFINE n == Pages(k * PGSIZE)
<1>2. n \in Nat /\ PGSIZE * k <= PGSIZE * n /\ PGSIZE * (n - 1) < PGSIZE * k
  BY <1>1, PagesBounds
<1> HIDE DEF n
<1>3. n - 1 < k
  BY <1>1, <1>2, TimesLess, SMT
<1>4. PGSIZE * (k - 1) < PGSIZE * k
  BY <1>1, SMT
<1>5. PGSIZE * (k - 1) < PGSIZE * n
  BY <1>1, <1>2, <1>4, SMT
<1>6. k - 1 < n
  BY <1>1, <1>2, <1>5, TimesLess, SMT
<1>7. n = k
  BY <1>2, <1>3, <1>6, SMT
<1> QED  BY <1>7 DEF n

LEMMA Geometry ==
  /\ KERNBASE \in Nat /\ PGSIZE < KERNBASE /\ Word = 2 * KERNBASE /\ PGSIZE \in Nat /\ PGSIZE > 0
  /\ Vpn = 0 .. UPD * PTN - 1 /\ UPD * PTN \in Nat /\ UPD * PTN > 1
  /\ Pages(0) = 0 /\ Pages(PGSIZE) = 1
<1>1. PGSIZE \in Nat /\ PGSIZE > 0 /\ PTN \in Nat /\ PTN > 1 /\ UPD \in Nat /\ UPD > 0
  BY VmAssumption, SMT
<1> DEFINE n == UPD * PTN
<1>2. n \in Nat /\ n > 1
  BY <1>1, SMT
<1>3. KERNBASE = n * PGSIZE
  BY DEF KERNBASE
<1>4. n * PGSIZE \in Nat /\ PGSIZE < n * PGSIZE
  <2> HIDE DEF n
  <2> QED  BY <1>1, <1>2, SMT
<1>5. 0 * PGSIZE = 0 /\ 1 * PGSIZE = PGSIZE /\ 0 \in Nat /\ 1 \in Nat
  BY <1>1, SMT
<1>6. Pages(0) = 0 /\ Pages(PGSIZE) = 1
  <2>1. Pages(0 * PGSIZE) = 0 /\ Pages(1 * PGSIZE) = 1
    BY <1>5, PagesTimes
  <2> QED  BY <1>5, <2>1
<1> QED  BY <1>1, <1>2, <1>3, <1>4, <1>6 DEF Word, Vpn

LEMMA PagesInUser ==
  ASSUME NEW a \in Nat, a < KERNBASE
  PROVE  Pages(a) \in Nat /\ Pages(a) <= UPD * PTN
<1> DEFINE n == UPD * PTN
<1>1. PGSIZE \in Nat /\ PGSIZE > 0 /\ n \in Nat /\ KERNBASE = PGSIZE * n
  BY Geometry, SMT DEF KERNBASE
<1>2. Pages(a) \in Nat /\ PGSIZE * (Pages(a) - 1) < a
  BY PagesBounds
<1> HIDE DEF n
<1>3. PGSIZE * (Pages(a) - 1) < PGSIZE * n
  BY <1>1, <1>2, SMT
<1>4. Pages(a) - 1 < n
  BY <1>1, <1>2, <1>3, TimesLess, SMT
<1> QED  BY <1>1, <1>2, <1>4, SMT DEF n

(* The pages below an address of the user part. *)
LEMMA VpnFacts ==
  /\ \A v \in Vpn : v \in Nat /\ PDX(v) \in UserTable
  /\ 0 \in Vpn
  /\ \A a \in Nat, v \in Nat : a < KERNBASE /\ v < Pages(a) => v \in Vpn
  /\ \A a \in Nat, v \in Vpn : v \in Below(a) <=> v < Pages(a)
<1>1. \A v \in Vpn : v \in Nat /\ PDX(v) \in UserTable
  BY Geometry, SMT DEF UserTable
<1>2. 0 \in Vpn
  BY Geometry, SMT
<1>3. \A a \in Nat, v \in Nat : a < KERNBASE /\ v < Pages(a) => v \in Vpn
  BY Geometry, PagesInUser, SMT
<1>4. \A a \in Nat, v \in Vpn : v \in Below(a) <=> v < Pages(a)
  BY DEF Below
<1> QED  BY <1>1, <1>2, <1>3, <1>4

-----------------------------------------------------------------------------
(* Places.                                                                 *)

LEMMA TreePlaces ==
  ASSUME NEW s \in Space
  PROVE  /\ Tree(s) \subseteq Place /\ Dir(s) \in Tree(s)
         /\ \A x \in UserTable : Table(s, x) \in Tree(s)
         /\ \A k \in KernelTable : Ktable(s, k) \in Tree(s)
         /\ \A v \in Vpn : Pte(s, v) \in Tree(s)
<1>1. Tree(s) \subseteq Place
  BY DEF Place
<1> QED  BY <1>1 DEF Tree

LEMMA ProcPlaces ==
  ASSUME NEW p \in Proc
  PROVE  Kstack(p) \in Place /\ Mem(p) \in Place
BY DEF Place

LEMMA TreesApart ==
  ASSUME NEW s, NEW t, NEW a \in Tree(s), a \in Tree(t)
  PROVE  s = t
BY SMT DEF Tree, Dir, Table, Ktable, Pte

LEMMA OutsideTrees ==
  ASSUME NEW s, NEW a \in Tree(s), NEW p
  PROVE  a # Kstack(p) /\ a # Mem(p)
BY SMT DEF Tree, Dir, Table, Ktable, Pte, Kstack, Mem

LEMMA ProcPlacesApart ==
  ASSUME NEW p, NEW q
  PROVE  Kstack(p) # Mem(q) /\ (Kstack(p) = Kstack(q) => p = q) /\ (Mem(p) = Mem(q) => p = q)
BY DEF Kstack, Mem

LEMMA InTree ==
  ASSUME NEW s, NEW x, NEW y
  PROVE  /\ Dir(s) # Table(s, x) /\ Dir(s) # Ktable(s, x) /\ Dir(s) # Pte(s, x)
         /\ Table(s, x) # Ktable(s, y) /\ Table(s, x) # Pte(s, y) /\ Ktable(s, x) # Pte(s, y)
         /\ (Table(s, x) = Table(s, y) => x = y) /\ (Ktable(s, x) = Ktable(s, y) => x = y)
         /\ (Pte(s, x) = Pte(s, y) => x = y)
BY DEF Dir, Table, Ktable, Pte

-----------------------------------------------------------------------------
(* Taking, moving, releasing and writing pages.                            *)

LEMMA kallocFacts ==
  ASSUME MemOK, NEW a \in Place, NEW c \in Contents, ptr[a] = NoPage, kalloc(a, c)
  PROVE  /\ MemOK' /\ ptr'[a] # NoPage /\ cont'[ptr'[a]] = c /\ a \notin user'
         /\ \A b \in Place : b # a => Still(b)
<1> DEFINE pg == freelist
<1>1. pg \in free
  BY DEF kalloc, freelist
<1> HIDE DEF pg
<1>2. /\ free' = free \ {pg} /\ ptr' = [ptr EXCEPT ![a] = pg] /\ cont' = [cont EXCEPT ![pg] = c]
      /\ user' = user /\ lost' = lost
  BY DEF kalloc, pg
<1>t. MemTypes /\ OnePlace /\ UserPresent /\ NoPage \notin Page
  BY VmAssumption DEF MemOK
<1>3. pg \in Page /\ pg # NoPage /\ (\A b \in Place : ptr[b] # pg)
  BY <1>1, <1>t, SMT DEF MemTypes, OnePlace
<1>4. ptr'[a] = pg /\ (\A b \in Place : b # a => ptr'[b] = ptr[b]) /\ ptr' \in [Place -> Page \cup {NoPage}]
  BY <1>2, <1>3, <1>t DEF MemTypes
<1> USE <1>2, <1>t, <1>3, <1>4
<1>5. cont'[pg] = c /\ (\A x \in Page : x # pg => cont'[x] = cont[x]) /\ cont' \in [Page -> Contents]
  BY DEF MemTypes
<1>6. MemTypes'
  BY <1>5 DEF MemTypes
<1>7. OnePlace'
  <2>1. (\A x, y \in Place : ptr[x] = ptr[y] /\ ptr[x] # NoPage => x = y)'
    BY SMT DEF OnePlace
  <2>2. (\A x \in Place : ptr[x] \notin free \cup lost)'
    <3>1. pg \notin lost
      BY <1>1 DEF OnePlace
    <3> QED  BY <3>1 DEF OnePlace
  <2>3. (free \cap lost = {})'
    BY DEF OnePlace
  <2>4. (\A x \in Page : x \in free \cup lost \/ \E b \in Place : ptr[b] = x)'
    <3> SUFFICES ASSUME NEW x \in Page, x \notin free', x \notin lost' PROVE \E b \in Place : ptr'[b] = x
      OBVIOUS
    <3>1. CASE x = pg
      BY <3>1
    <3>2. CASE x # pg
      <4>1. x \notin free /\ x \notin lost
        BY <3>2
      <4>2. PICK b \in Place : ptr[b] = x
        BY <4>1 DEF OnePlace
      <4>3. x # NoPage
        OBVIOUS
      <4> QED  BY <4>2, <4>3
    <3> QED  BY <3>1, <3>2
  <2> QED  BY <2>1, <2>2, <2>3, <2>4 DEF OnePlace
<1>8. UserPresent' /\ a \notin user'
  BY DEF UserPresent, MemTypes
<1>9. \A b \in Place : b # a => Still(b)
  <2> SUFFICES ASSUME NEW b \in Place, b # a PROVE Still(b)
    OBVIOUS
  <2>1. ptr[b] # NoPage => ptr[b] \in Page
    BY DEF MemTypes
  <2> QED  BY <1>5, <2>1 DEF Still
<1> QED  BY <1>5, <1>6, <1>7, <1>8, <1>9 DEF MemOK

LEMMA ReleaseFacts ==
  ASSUME MemOK, NEW A \in SUBSET Place, NEW L \in SUBSET Place, \A a \in L : a \notin A /\ a \notin user, Release(A, L)
  PROVE  /\ MemOK' /\ (\A a \in A \cup L : ptr'[a] = NoPage /\ a \notin user')
         /\ \A b \in Place : b \notin A /\ b \notin L => Still(b)
<1> DEFINE S == {ptr[a] : a \in A} \ {NoPage}
           T == {ptr[a] : a \in L} \ {NoPage}
<1>1. /\ ptr' = [a \in Place |-> IF a \in A \cup L THEN NoPage ELSE ptr[a]] /\ user' = user \ A
      /\ free' = free \cup S /\ cont' = [x \in Page |-> IF x \in S THEN "junk" ELSE cont[x]] /\ lost' = lost \cup T
  BY DEF Release
<1>t. MemTypes /\ OnePlace /\ UserPresent /\ NoPage \notin Page
  BY VmAssumption DEF MemOK
<1>2. \A x : x \in S <=> x # NoPage /\ \E a \in A : ptr[a] = x
  OBVIOUS
<1>3. \A x : x \in T <=> x # NoPage /\ \E a \in L : ptr[a] = x
  OBVIOUS
<1>4. S \subseteq Page /\ T \subseteq Page
  BY <1>2, <1>3, <1>t, SMT DEF MemTypes
<1> HIDE DEF S, T
<1>5. /\ \A a \in Place : ptr'[a] = IF a \in A \cup L THEN NoPage ELSE ptr[a]
      /\ ptr' \in [Place -> Page \cup {NoPage}]
  BY <1>1, <1>t DEF MemTypes
<1>6. (\A x \in Page : cont'[x] = IF x \in S THEN "junk" ELSE cont[x]) /\ cont' \in [Page -> Contents]
  BY <1>1, <1>t DEF MemTypes, Contents
<1>7. MemTypes'
  BY <1>1, <1>4, <1>5, <1>6, <1>t DEF MemTypes
<1>o. /\ \A x, y \in Place : ptr[x] = ptr[y] /\ ptr[x] # NoPage => x = y
      /\ \A x \in Place : ptr[x] \notin free /\ ptr[x] \notin lost
      /\ \A x : x \in free => x \notin lost
      /\ \A x \in Page : x \in free \/ x \in lost \/ \E b \in Place : ptr[b] = x
  BY <1>t DEF OnePlace
<1>8. OnePlace'
  <2>1. (\A x, y \in Place : ptr[x] = ptr[y] /\ ptr[x] # NoPage => x = y)'
    BY <1>5, <1>o
  <2>2. \A x \in Place : ptr'[x] \notin free' /\ ptr'[x] \notin lost'
    <3> SUFFICES ASSUME NEW x \in Place PROVE ptr'[x] \notin free' /\ ptr'[x] \notin lost'
      OBVIOUS
    <3>1. CASE x \in A \cup L
      <4>1. NoPage \notin free /\ NoPage \notin lost /\ NoPage \notin S /\ NoPage \notin T
        BY <1>2, <1>3, <1>t DEF MemTypes
      <4> QED  BY <1>1, <1>5, <3>1, <4>1
    <3>2. CASE x \notin A \cup L
      <4>1. ptr[x] \notin S /\ ptr[x] \notin T
        BY <1>2, <1>3, <1>o, <3>2, SMT
      <4> QED  BY <1>1, <1>5, <1>o, <3>2, <4>1
    <3> QED  BY <3>1, <3>2
  <2>3. \A x : x \in free' => x \notin lost'
    <3> SUFFICES ASSUME NEW x, x \in free', x \in lost' PROVE FALSE
      OBVIOUS
    <3>1. CASE x \in S /\ x \in T
      BY <3>1, <1>2, <1>3, <1>o, SMT
    <3>2. CASE x \in free /\ x \in T
      BY <3>2, <1>3, <1>o, SMT
    <3>3. CASE x \in S /\ x \in lost
      BY <3>3, <1>2, <1>o, SMT
    <3> QED  BY <1>1, <1>o, <3>1, <3>2, <3>3
  <2>4. \A x \in Page : x \in free' \/ x \in lost' \/ \E b \in Place : ptr'[b] = x
    <3> SUFFICES ASSUME NEW x \in Page, x \notin free', x \notin lost' PROVE \E b \in Place : ptr'[b] = x
      OBVIOUS
    <3>1. x \notin free /\ x \notin lost /\ x \notin S /\ x \notin T /\ x # NoPage
      BY <1>1, <1>t
    <3>2. PICK b \in Place : ptr[b] = x
      BY <3>1, <1>o
    <3>3. b \notin A \cup L
      BY <3>1, <3>2, <1>2, <1>3
    <3> QED  BY <3>2, <3>3, <1>5
  <2> QED  BY <2>1, <2>2, <2>3, <2>4 DEF OnePlace
<1>9. UserPresent' /\ \A a \in A \cup L : ptr'[a] = NoPage /\ a \notin user'
  <2>1. \A a \in A \cup L : ptr'[a] = NoPage /\ a \notin user'
    BY <1>1, <1>5
  <2>2. \A a \in user' : a \in user /\ a \in Place /\ a \notin A \cup L
    BY <1>1, <1>t DEF MemTypes
  <2> QED  BY <1>5, <1>t, <2>1, <2>2 DEF UserPresent
<1>10. \A b \in Place : b \notin A /\ b \notin L => Still(b)
  <2> SUFFICES ASSUME NEW b \in Place, b \notin A, b \notin L PROVE Still(b)
    OBVIOUS
  <2>1. ptr'[b] = ptr[b]
    BY <1>5
  <2>2. b \in user' <=> b \in user
    BY <1>1
  <2>3. ptr[b] # NoPage => ptr[b] \in Page /\ ptr[b] \notin S
    BY <1>2, <1>o, <1>t, SMT DEF MemTypes
  <2> QED  BY <1>6, <2>1, <2>2, <2>3 DEF Still
<1> QED  BY <1>7, <1>8, <1>9, <1>10 DEF MemOK

LEMMA MoveFacts ==
  ASSUME MemOK, NEW x \in Place, NEW m \in Place, x # m, ptr[x] = NoPage, ptr[m] # NoPage,
         m \notin user, \A p \in Proc : x # Mem(p),
         ptr' = [ptr EXCEPT ![x] = ptr[m], ![m] = NoPage], user' \in {user, user \cup {x}},
         free' = free, lost' = lost, cont' = cont
  PROVE  /\ MemOK' /\ ptr'[m] = NoPage /\ ptr'[x] = ptr[m]
         /\ \A b \in Place : b # x /\ b # m => Still(b)
<1>t. MemTypes /\ OnePlace /\ UserPresent /\ NoPage \notin Page
  BY VmAssumption DEF MemOK
<1>1. /\ ptr'[x] = ptr[m] /\ ptr'[m] = NoPage /\ (\A b \in Place : b # x /\ b # m => ptr'[b] = ptr[b])
      /\ ptr' \in [Place -> Page \cup {NoPage}]
  BY <1>t DEF MemTypes
<1>2. MemTypes'
  BY <1>1, <1>t DEF MemTypes
<1>3. OnePlace'
  <2>1. (\A y, z \in Place : ptr[y] = ptr[z] /\ ptr[y] # NoPage => y = z)'
    BY <1>1, <1>t, SMT DEF OnePlace
  <2>2. (\A y \in Place : ptr[y] \notin free \cup lost)'
    BY <1>1, <1>t DEF OnePlace
  <2>3. (\A y \in Page : y \in free \cup lost \/ \E b \in Place : ptr[b] = y)'
    <3> SUFFICES ASSUME NEW y \in Page, y \notin free \cup lost PROVE \E b \in Place : ptr'[b] = y
      OBVIOUS
    <3>1. PICK b \in Place : ptr[b] = y
      BY <1>t DEF OnePlace
    <3>2. y # NoPage
      BY <1>t
    <3> QED  BY <1>1, <3>1, <3>2
  <2> QED  BY <2>1, <2>2, <2>3, <1>t DEF OnePlace
<1>4. UserPresent'
  BY <1>1, <1>t, SMT DEF UserPresent, MemTypes
<1>5. \A b \in Place : b # x /\ b # m => Still(b)
  BY <1>1, SMT DEF Still
<1> QED  BY <1>1, <1>2, <1>3, <1>4, <1>5 DEF MemOK

(* The pages at the places B get new contents, and some lose the flag. *)
LEMMA WriteFacts ==
  ASSUME MemOK, NEW B \in SUBSET Place, ptr' = ptr, free' = free, lost' = lost, cont' \in [Page -> Contents],
         user' \subseteq user, \A a \in user : a \notin B => a \in user',
         \A x \in Page : cont'[x] # cont[x] => \E b \in B : ptr[b] = x
  PROVE  MemOK' /\ \A b \in Place : b \notin B => Still(b)
<1>t. MemTypes /\ OnePlace /\ UserPresent /\ NoPage \notin Page
  BY VmAssumption DEF MemOK
<1> USE <1>t
<1>1. MemTypes'
  BY DEF MemTypes
<1>2. OnePlace' /\ UserPresent'
  BY DEF OnePlace, UserPresent
<1>3. ASSUME NEW b \in Place, b \notin B PROVE Still(b)
  <2>1. ptr[b] # NoPage => ptr[b] \in Page
    BY DEF MemTypes
  <2>2. ptr[b] # NoPage => cont'[ptr[b]] = cont[ptr[b]]
    BY <1>3, <2>1 DEF OnePlace
  <2> QED  BY <1>3, <2>2 DEF Still
<1> QED  BY <1>1, <1>2, <1>3 DEF MemOK

-----------------------------------------------------------------------------
(* What a step leaves alone stays as it was.                               *)

LEMMA SpaceKept ==
  ASSUME NEW s \in Space, StillTree(s)
  PROVE  /\ \A v \in Vpn : Still(Pte(s, v))
         /\ Blank(s) => Blank(s)'
         /\ HasTables(s) => HasTables(s)'
         /\ ptr[Dir(s)] # NoPage => ptr'[Dir(s)] # NoPage
         /\ \A k \in KernelTable : ptr'[Ktable(s, k)] = ptr[Ktable(s, k)]
<1>1. \A v \in Vpn : Still(Pte(s, v)) /\ Still(Table(s, PDX(v)))
  BY TreePlaces, VpnFacts DEF StillTree
<1>2. Still(Dir(s)) /\ \A k \in KernelTable : Still(Ktable(s, k))
  BY TreePlaces DEF StillTree
<1>3. Blank(s) => Blank(s)'
  BY DEF StillTree, Still, Blank
<1>4. HasTables(s) => HasTables(s)'
  BY <1>1, <1>2 DEF HasTables, Mapped, Still
<1> QED  BY <1>1, <1>2, <1>3, <1>4 DEF Still

(* The same for the pages m <= v < n of an address space. *)
LEMMA RangeKept ==
  ASSUME NEW s, NEW m, NEW n, \A v \in Vpn : m <= v /\ v < n => Still(Pte(s, v))
  PROVE  /\ \A f : /\ Filled(s, m, n, f) /\ (\A v \in Vpn : m <= v /\ v < n => ptr[Pte(s, v)] # NoPage)
                   => Filled(s, m, n, f)'
         /\ \A g : Flags(s, m, n, g) => Flags(s, m, n, g)'
<1>1. \A f : /\ Filled(s, m, n, f) /\ (\A v \in Vpn : m <= v /\ v < n => ptr[Pte(s, v)] # NoPage)
             => Filled(s, m, n, f)'
  BY DEF Still, Filled
<1>2. \A g : Flags(s, m, n, g) => Flags(s, m, n, g)'
  BY DEF Still, Flags
<1> QED  BY <1>1, <1>2

LEMMA UptoKept ==
  ASSUME NEW s, \A v \in Vpn : Still(Pte(s, v))
  PROVE  \A n : Upto(s, n) => Upto(s, n)'
BY DEF Still, Upto

(* A growing process may get pages above its size. *)
LEMMA SlotGrows ==
  ASSUME NEW r \in Proc, cur[r] \in {0, 1}, sz[r] \in Nat, Slot(r), SameProc(r), Growing(r) => Growing(r)',
         op[r] = "exec" => op'[r] = "exec", state[r] = "unused" => StillTree(Cur(r)),
         state[r] # "embryo" => Still(Kstack(r)), op[r] # "exec" => StillTree(Other(r)),
         Live(r) => /\ HasTables(Cur(r))'
                    /\ \A v \in Vpn : v < Pages(sz[r]) \/ ~Growing(r) => Still(Pte(Cur(r), v))
  PROVE  Slot(r)'
<1>s. Cur(r) \in Space /\ Other(r) \in Space /\ Cur(r)' = Cur(r) /\ Other(r)' = Other(r)
  BY SMT DEF Cur, Other, Space, SameProc
<1>1. (state[r] = "unused" => Blank(Cur(r)) /\ ptr[Kstack(r)] = NoPage)'
  BY <1>s, SpaceKept DEF Slot, SameProc, Still
<1>2. (op[r] # "exec" => Blank(Other(r)))'
  BY <1>s, SpaceKept DEF Slot, SameProc
<1>3. ASSUME Live(r)' PROVE /\ ptr'[Kstack(r)] # NoPage /\ HasTables(Cur(r))' /\ (Below(sz[r]) \subseteq Mapped(Cur(r)))'
                            /\ (~Growing(r) => Upto(Cur(r), Pages(sz[r])))'
                            /\ Filled(Cur(r), 0, Pages(sz[r]), view[r])' /\ Flags(Cur(r), 0, Pages(sz[r]), guard[r])'
                            /\ (guard[r] = -1 \/ (guard[r] \in Below(sz[r]) /\ view[r][guard[r]] = "zero"))'
  <2>1. Live(r) /\ Still(Kstack(r))
    BY <1>3 DEF Live, SameProc
  <2>2. PICK s \in Space : s = Cur(r) /\ s = Cur(r)'
    BY <1>s
  <2>3. /\ ptr[Kstack(r)] # NoPage /\ Below(sz[r]) \subseteq Mapped(s)
        /\ (~Growing(r) => Upto(s, Pages(sz[r])))
        /\ Filled(s, 0, Pages(sz[r]), view[r]) /\ Flags(s, 0, Pages(sz[r]), guard[r])
        /\ guard[r] = -1 \/ (guard[r] \in Below(sz[r]) /\ view[r][guard[r]] = "zero")
    BY <2>1, <2>2 DEF Slot
  <2>4. \A v \in Vpn : v < Pages(sz[r]) \/ ~Growing(r) => Still(Pte(s, v))
    BY <2>1, <2>2
  <2>5. \A v \in Vpn : v < Pages(sz[r]) => ptr[Pte(s, v)] # NoPage
    BY <2>3, VpnFacts DEF Mapped
  <2>6. PICK n : n = Pages(sz[r]) /\ n = Pages(sz[r])'
    BY DEF SameProc
  <2>7. ptr'[Kstack(r)] # NoPage
    BY <2>1, <2>3 DEF Still
  <2>8. (Below(sz[r]) \subseteq Mapped(Cur(r)))'
    <3>1. \A v \in Vpn : v \in Below(sz[r]) => ptr'[Pte(s, v)] # NoPage
      BY <2>4, <2>5, VpnFacts DEF Still
    <3> QED  BY <2>2, <3>1 DEF Mapped, Below, SameProc
  <2>9. (~Growing(r) => Upto(Cur(r), Pages(sz[r])))'
    BY <2>2, <2>3, <2>4, <2>6, UptoKept
  <2>10. Filled(Cur(r), 0, Pages(sz[r]), view[r])' /\ Flags(Cur(r), 0, Pages(sz[r]), guard[r])'
    BY <2>2, <2>3, <2>4, <2>5, <2>6, RangeKept DEF SameProc
  <2>11. (guard[r] = -1 \/ (guard[r] \in Below(sz[r]) /\ view[r][guard[r]] = "zero"))'
    BY <2>3 DEF SameProc
  <2> QED  BY <1>3, <2>1, <2>7, <2>8, <2>9, <2>10, <2>11
<1> QED  BY <1>1, <1>2, <1>3 DEF Slot

LEMMA SlotKept ==
  ASSUME NEW r \in Proc, cur[r] \in {0, 1}, sz[r] \in Nat, Slot(r), SameProc(r), Growing(r) => Growing(r)',
         op[r] = "exec" => op'[r] = "exec",
         state[r] # "embryo" => StillTree(Cur(r)) /\ Still(Kstack(r)), op[r] # "exec" => StillTree(Other(r))
  PROVE  Slot(r)'
<1>1. Cur(r) \in Space /\ Cur(r)' = Cur(r)
  BY DEF Cur, Space, SameProc
<1>2. Live(r) => /\ HasTables(Cur(r))'
                 /\ \A v \in Vpn : v < Pages(sz[r]) \/ ~Growing(r) => Still(Pte(Cur(r), v))
  <2> SUFFICES ASSUME Live(r) PROVE HasTables(Cur(r))' /\ \A v \in Vpn : Still(Pte(Cur(r), v))
    OBVIOUS
  <2>1. HasTables(Cur(r)) /\ StillTree(Cur(r))
    BY DEF Slot, Live
  <2> QED  BY <1>1, <2>1, SpaceKept
<1> QED  BY <1>2, SlotGrows

LEMMA ContentsKept ==
  ASSUME NEW r \in Proc, at[r] \in Nat, new[r] \in Nat, Control(r), Work(r), SameLocals(r), SameProc(r),
         op[r] # "none" => \A v \in Vpn : Still(Pte(dst[r], v)), Still(Mem(r))
  PROVE  Boot(r)' /\ Copy(r)' /\ Grow(r)' /\ Load(r)'
<1>1. CASE op[r] = "none"
  BY <1>1 DEF SameLocals, Boot, Copy, Grow, Load, Growing
<1>2. CASE op[r] # "none"
  <2>s. PICK s : s = dst[r] /\ s = dst'[r]
    BY DEF SameLocals
  <2>4. \A v \in Vpn : Still(Pte(s, v))
    BY <1>2, <2>s
  <2>w. Directory(r) /\ Boot(r) /\ Copy(r) /\ Grow(r) /\ Load(r)
    BY DEF Work
  <2>7. Middle(r) => \A v \in Vpn : v < Done(r) => ptr[Pte(s, v)] # NoPage
    BY <2>s, <2>w DEF Directory, Upto
  <2>8. pc[r] = "mappages" => cont'[ptr'[Mem(r)]] = cont[ptr[Mem(r)]]
    BY <2>w DEF Directory, Still
  <2> USE <2>s, <2>4, <2>w, <2>7, <2>8
  <2>9. Boot(r)'
    <3> SUFFICES ASSUME op'[r] = "boot", pc'[r] = "allocuvm" PROVE (Filled(dst[r], 0, 1, Texts) /\ Flags(dst[r], 0, 1, -1))'
      BY DEF Boot, SameLocals
    <3>1. op[r] = "boot" /\ pc[r] = "allocuvm" /\ at[r] = 1 /\ Middle(r) /\ Done(r) = 1
          /\ Filled(s, 0, 1, Texts) /\ Flags(s, 0, 1, -1)
      BY DEF Boot, SameLocals, Middle, Done
    <3>2. Filled(s, 0, 1, Texts)' /\ Flags(s, 0, 1, -1)'
      BY <3>1, RangeKept DEF Texts
    <3> QED  BY <3>2 DEF Texts
  <2>10. Copy(r)'
    <3> SUFFICES ASSUME op'[r] = "fork", Middle(r)'
                 PROVE  (Filled(dst[r], 0, at[r], view[r]) /\ Flags(dst[r], 0, at[r], guard[r]))'
      BY DEF Copy, SameLocals, SameProc, Middle
    <3>1. op[r] = "fork" /\ Middle(r) /\ Filled(s, 0, at[r], view[r]) /\ Flags(s, 0, at[r], guard[r])
      BY DEF Copy, SameLocals, Middle
    <3>2. Done(r) = at[r]
      BY <3>1 DEF Control, Middle, Done
    <3>3. PICK n, f, g : n = at[r] /\ f = view[r] /\ g = guard[r]
      OBVIOUS
    <3>4. Filled(s, 0, n, f)' /\ Flags(s, 0, n, g)'
      BY <3>1, <3>2, <3>3, RangeKept
    <3> QED  BY <3>3, <3>4 DEF SameLocals, SameProc
  <2>11. Grow(r)'
    <3> SUFFICES ASSUME Growing(r)'
                 PROVE  (Filled(dst[r], Pages(sz[r]), at[r], Zeros) /\ Flags(dst[r], Pages(sz[r]), at[r], -1))'
      BY DEF Grow, SameLocals, SameProc, Growing
    <3>1. Growing(r) /\ Filled(s, Pages(sz[r]), at[r], Zeros) /\ Flags(s, Pages(sz[r]), at[r], -1)
      BY DEF Grow, SameLocals, Growing
    <3>2. Done(r) = at[r] /\ Middle(r)
      BY <3>1 DEF Control, Growing, Middle, Done
    <3>3. PICK m, n : m = Pages(sz[r]) /\ m = Pages(sz[r])' /\ n = at[r]
      BY DEF SameProc
    <3>4. Filled(s, m, n, Zeros)' /\ Flags(s, m, n, -1)'
      BY <3>1, <3>2, <3>3, RangeKept DEF Zeros
    <3> QED  BY <3>3, <3>4 DEF SameLocals, Zeros
  <2>12. Load(r)'
    <3> SUFFICES ASSUME op'[r] = "exec", Middle(r)' PROVE Load(r)'
      BY DEF Load
    <3>1. op[r] = "exec" /\ Middle(r) /\ Done(r)' = Done(r) /\ (Stacked(r)' <=> Stacked(r)) /\ (Loading(r)' <=> Loading(r))
          /\ (Fits(r)' <=> Fits(r))
      BY DEF SameLocals, Middle, Done, Stacked, Loading, Fits, Segment
    <3>3. PICK n, d : n = Pages(new[r]) /\ n = Pages(new[r])' /\ d = Done(r) /\ d = Done(r)'
      BY <3>1 DEF SameLocals
    <3> USE <3>1, <3>3
    <3>2. (pc[r] # "commit" => Flags(dst[r], 0, Done(r), -1))'
      BY RangeKept DEF Load, SameLocals
    <3>4. (Stacked(r) => Pages(new[r]) >= 2 /\ Filled(dst[r], Pages(new[r]) - 2, Done(r), Zeros))'
      <4> SUFFICES ASSUME Stacked(r) PROVE (Pages(new[r]) >= 2 /\ Filled(dst[r], Pages(new[r]) - 2, Done(r), Zeros))'
        OBVIOUS
      <4>1. n >= 2 /\ Filled(s, n - 2, d, Zeros)
        BY DEF Load
      <4>2. Filled(s, n - 2, d, Zeros)'
        BY <4>1, RangeKept DEF Zeros
      <4> QED  BY <4>1, <4>2 DEF Zeros
    <3>5. (pc[r] = "commit" => /\ Pages(new[r]) >= 2 /\ Flags(dst[r], 0, Done(r), Pages(new[r]) - 2)
                               /\ Filled(dst[r], Pages(new[r]) - 2, Pages(new[r]) - 1, Zeros))'
      <4> SUFFICES ASSUME pc'[r] = "commit"
                   PROVE  (/\ Pages(new[r]) >= 2 /\ Flags(dst[r], 0, Done(r), Pages(new[r]) - 2)
                           /\ Filled(dst[r], Pages(new[r]) - 2, Pages(new[r]) - 1, Zeros))'
        OBVIOUS
      <4>1. pc[r] = "commit" /\ n >= 2 /\ Flags(s, 0, d, n - 2) /\ Filled(s, n - 2, n - 1, Zeros)
        BY DEF Load, SameLocals
      <4> USE <4>1
      <4>2. \A v \in Vpn : v < n - 1 => v < d
        <5>1. d = n /\ n \in Nat
          BY PagesBounds DEF Done
        <5> QED  BY <5>1, VpnFacts, SMT
      <4>3. Flags(s, 0, d, n - 2)' /\ Filled(s, n - 2, n - 1, Zeros)'
        BY <4>2, RangeKept DEF Zeros
      <4> QED  BY <4>3 DEF Zeros
    <3>6. pc'[r] = pc[r] /\ new'[r] = new[r] /\ at'[r] = at[r]
      BY DEF SameLocals
    <3> QED  BY <3>2, <3>4, <3>5, <3>6 DEF Load
  <2> QED  BY <2>9, <2>10, <2>11, <2>12
<1> QED  BY <1>1, <1>2

LEMMA WorkKept ==
  ASSUME NEW r \in Proc, dst[r] \in Space, at[r] \in Nat, new[r] \in Nat, Control(r), Work(r), SameLocals(r), SameProc(r),
         op[r] # "none" => StillTree(dst[r]), Still(Mem(r)), pc[r] = "userinit" => Still(Kstack(r)),
         Builds(r) => Still(Kstack(np(r)))
  PROVE  Work(r)'
<1>1. Directory(r)'
  <2>w. Directory(r) /\ Still(Mem(r))
    BY DEF Work
  <2> USE <2>w
  <2>1. CASE op[r] = "none"
    <3>1. pc[r] = "user" /\ pc'[r] = "user" /\ op'[r] = "none"
      BY <2>1 DEF Control, SameLocals
    <3> QED  BY <3>1 DEF Directory, Early, Middle, Builds, Still
  <2>2. CASE op[r] # "none"
    <3>s. PICK s \in Space : s = dst[r] /\ s = dst'[r] /\ StillTree(s)
      BY <2>2 DEF SameLocals
    <3> USE <3>s
    <3>n. PICK d : d = Done(r) /\ d = Done(r)'
      BY DEF SameLocals, Done
    <3>1. (Early(r) => Blank(dst[r]) /\ new[r] = 0 /\ at[r] = 0)'
      BY SpaceKept DEF Directory, Early, SameLocals
    <3>2. (pc[r] = "kmap" => /\ at[r] \in KernelTable /\ new[r] = 0 /\ ptr[Dir(dst[r])] # NoPage /\ Upto(dst[r], 0)
                             /\ \A k \in KernelTable : ptr[Ktable(dst[r], k)] # NoPage <=> k < at[r])'
      BY SpaceKept, UptoKept DEF Directory, SameLocals
    <3>3. (Middle(r) => HasTables(dst[r]) /\ Upto(dst[r], Done(r)))'
      BY <3>n, SpaceKept, UptoKept DEF Directory, Middle, SameLocals
    <3>4. (pc[r] = "userinit" => ptr[Kstack(r)] = NoPage)'
      BY DEF Directory, SameLocals, Still
    <3>5. (Builds(r) /\ pc[r] # "userinit" => ptr[Kstack(np(r))] # NoPage)'
      BY DEF Directory, SameLocals, Builds, Still, np
    <3>6. (ptr[Mem(r)] # NoPage <=> pc[r] = "mappages")'
      BY DEF Directory, SameLocals, Still
    <3> QED  BY <3>1, <3>2, <3>3, <3>4, <3>5, <3>6 DEF Directory
  <2> QED  BY <2>1, <2>2
<1>2. op[r] # "none" => \A v \in Vpn : Still(Pte(dst[r], v))
  BY SpaceKept
<1> QED  BY <1>1, <1>2, ContentsKept DEF Work

LEMMA ControlKept ==
  ASSUME NEW r \in Proc, Control(r), SameLocals(r), SameProc(r), op[r] = "fork" => SameProc(np(r))
  PROVE  Control(r)'
BY DEF Control, SameLocals, SameProc, np, Cur, Other

-----------------------------------------------------------------------------
(* A step of one process, which may also act on a process q that it builds, *)
(* does not disturb the others.                                             *)

LEMMA TypeParts == TypeOK <=> MemTypes /\ ProcTypes /\ LocalTypes
BY DEF TypeOK, MemTypes, ProcTypes, LocalTypes, PCs, Ops, Files

LEMMA InvParts ==
  VmInv <=> /\ MemOK /\ ProcTypes /\ LocalTypes /\ Builders
            /\ \A p \in Proc : Control(p) /\ Slot(p) /\ Work(p)
BY TypeParts DEF VmInv, MemOK

(* The types of one process's variables. *)
LEMMA ProcFacts ==
  ASSUME VmInv, NEW p \in Proc
  PROVE  /\ cur[p] \in {0, 1} /\ sz[p] \in Nat /\ sz[p] < KERNBASE /\ state[p] \in {"unused", "embryo", "run", "zombie"}
         /\ op[p] \in {"none", "boot", "fork", "grow", "shrink", "exec"} /\ dst[p] \in Space /\ at[p] \in Nat /\ new[p] \in Nat
         /\ Cur(p) \in Space /\ Other(p) \in Space /\ Cur(p) # Other(p) /\ np(p) \in Proc
         /\ Control(p) /\ Slot(p) /\ Work(p)
<1>1. ProcTypes /\ LocalTypes /\ Control(p) /\ Slot(p) /\ Work(p)
  BY InvParts
<1>2. /\ cur[p] \in {0, 1} /\ sz[p] \in Nat /\ sz[p] < KERNBASE /\ state[p] \in {"unused", "embryo", "run", "zombie"}
      /\ op[p] \in {"none", "boot", "fork", "grow", "shrink", "exec"} /\ dst[p] \in Space /\ at[p] \in Nat /\ new[p] \in Nat
  BY <1>1, Geometry, SMT DEF ProcTypes, LocalTypes, Ops
<1>3. Cur(p) \in Space /\ Other(p) \in Space /\ Cur(p) # Other(p) /\ np(p) \in Proc
  BY <1>2, SMT DEF Cur, Other, Space, np
<1> QED  BY <1>1, <1>2, <1>3

LEMMA NotMine ==
  ASSUME NEW p \in Proc, NEW q \in Proc, NEW r \in Proc, r # p, r # q
  PROVE  /\ Mem(r) \notin Mine(p, q) /\ Kstack(r) \notin Mine(p, q)
         /\ \A s \in Space : \A a \in Tree(s) : s[1] = r => a \notin Mine(p, q)
<1>1. <<p, 0>>[1] # r /\ <<p, 1>>[1] # r /\ <<q, 0>>[1] # r /\ <<q, 1>>[1] # r
  OBVIOUS
<1>2. \A s \in Space : \A a \in Tree(s) : s[1] = r => a \notin Mine(p, q)
  <2> SUFFICES ASSUME NEW s \in Space, NEW a \in Tree(s), s[1] = r PROVE a \notin Mine(p, q)
    OBVIOUS
  <2>1. a # Mem(p) /\ a # Kstack(p) /\ a # Kstack(q)
    BY OutsideTrees, ProcPlacesApart
  <2>2. a \notin Tree(<<p, 0>>) /\ a \notin Tree(<<p, 1>>) /\ a \notin Tree(<<q, 0>>) /\ a \notin Tree(<<q, 1>>)
    BY <1>1, TreesApart
  <2> QED  BY <2>1, <2>2 DEF Mine
<1>3. ASSUME NEW a \in {Mem(r), Kstack(r)} PROVE a \notin Mine(p, q)
  <2>1. a # Mem(p) /\ a # Kstack(p) /\ a # Kstack(q)
    BY <1>3, OutsideTrees, ProcPlacesApart
  <2>2. a \notin Tree(<<p, 0>>) /\ a \notin Tree(<<p, 1>>) /\ a \notin Tree(<<q, 0>>) /\ a \notin Tree(<<q, 1>>)
    BY <1>3, OutsideTrees, ProcPlacesApart
  <2> QED  BY <2>1, <2>2 DEF Mine
<1> QED  BY <1>2, <1>3

LEMMA OthersKept ==
  ASSUME VmInv, NEW p \in Proc, NEW q \in Proc, NEW r \in Proc, r # p, r # q,
         \A b \in Place : b \notin Mine(p, q) => Still(b), SameLocals(r),
         \A x \in Proc : x # p /\ x # q => SameProc(x),
         Builds(r) => np(r) # p /\ np(r) # q
  PROVE  Control(r)' /\ Slot(r)' /\ Work(r)'
<1>t. /\ cur[r] \in {0, 1} /\ sz[r] \in Nat /\ dst[r] \in Space /\ at[r] \in Nat /\ new[r] \in Nat
      /\ Cur(r) \in Space /\ Other(r) \in Space /\ np(r) \in Proc /\ Control(r) /\ Slot(r) /\ Work(r)
      /\ op[r] \in {"none", "boot", "fork", "grow", "shrink", "exec"}
  BY ProcFacts
<1>1. SameProc(r) /\ (Builds(r) => SameProc(np(r)))
  BY <1>t
<1>2. Still(Mem(r)) /\ Still(Kstack(r)) /\ \A s \in Space : s[1] = r => StillTree(s)
  BY NotMine, TreePlaces, ProcPlaces DEF StillTree
<1> USE <1>t, <1>1, <1>2
<1>3. StillTree(Cur(r)) /\ StillTree(Other(r))
  <2>1. Cur(r)[1] = r /\ Other(r)[1] = r
    BY DEF Cur, Other
  <2> QED  BY <2>1
<1>4. Builds(r) => Still(Kstack(np(r))) /\ \A s \in Space : s[1] = np(r) => StillTree(s)
  BY NotMine, TreePlaces, ProcPlaces DEF StillTree
<1>5. op[r] # "none" => StillTree(dst[r])
  <2>1. Builds(r) => StillTree(dst[r])
    BY <1>4 DEF np
  <2> QED  BY <1>3, <2>1 DEF Control, Builds
<1>6. Control(r)'
  BY ControlKept DEF Builds
<1>7. Slot(r)'
  <2>1. (Growing(r) => Growing(r)') /\ (op[r] = "exec" => op'[r] = "exec")
    BY DEF SameLocals, Growing
  <2> QED  BY <1>3, <2>1, SlotKept
<1>8. Work(r)'
  BY <1>4, <1>5, WorkKept
<1> QED  BY <1>6, <1>7, <1>8

(* The processes that a step of p may act on are built by no other one. *)
LEMMA NotBuilt ==
  ASSUME VmInv, NEW p \in Proc, NEW q \in Proc, NEW r \in Proc, r # p, Builds(r),
         state[p] # "embryo" \/ (Builds(p) /\ np(p) = p), state[q] # "embryo" \/ (Builds(p) /\ np(p) = q)
  PROVE  np(r) # p /\ np(r) # q
<1>1. Control(r) /\ Builders
  BY InvParts
<1>2. state[np(r)] = "embryo"
  <2>1. op[r] = "boot" => np(r) = r
    BY <1>1, SMT DEF Control, np, Cur
  <2> QED  BY <1>1, <2>1 DEF Control, Builds
<1>3. Builds(p) => np(r) # np(p)
  BY <1>1 DEF Builders
<1> QED  BY <1>2, <1>3

LEMMA StepInv ==
  ASSUME VmInv, MemOK', ProcTypes', LocalTypes', Builders', NEW p \in Proc, NEW q \in Proc,
         state[p] # "embryo" \/ (Builds(p) /\ np(p) = p), state[q] # "embryo" \/ (Builds(p) /\ np(p) = q),
         \A b \in Place : b \notin Mine(p, q) => Still(b),
         \A r \in Proc : r # p => SameLocals(r),
         \A r \in Proc : r # p /\ r # q => SameProc(r),
         (Control(p) /\ Slot(p) /\ Work(p))', (Control(q) /\ Slot(q) /\ Work(q))'
  PROVE  VmInv'
<1>1. ASSUME NEW r \in Proc PROVE (Control(r) /\ Slot(r) /\ Work(r))'
  <2>1. CASE r # p /\ r # q
    <3>1. Builds(r) => np(r) # p /\ np(r) # q
      BY <2>1, NotBuilt
    <3> QED  BY <2>1, <3>1, OthersKept
  <2> QED  BY <2>1
<1> QED  BY <1>1 DEF VmInv, MemOK, TypeOK, MemTypes, ProcTypes, LocalTypes, PCs, Ops, Files

LEMMA BuildersKept ==
  ASSUME VmInv, NEW p \in Proc, \A r \in Proc : r # p => SameLocals(r), Builds(p)' <=> Builds(p),
         Builds(p) => dst'[p] = dst[p], \A r \in Proc : state'[r] = "embryo" <=> state[r] = "embryo"
  PROVE  Builders'
<1>1. Builders
  BY DEF VmInv
<1>2. ASSUME NEW r \in Proc PROVE (Builds(r)' <=> Builds(r)) /\ (Builds(r) => np(r)' = np(r))
  BY <1>2 DEF Builds, np, SameLocals
<1>3. (\A x, r \in Proc : Builds(x) /\ Builds(r) /\ np(x) = np(r) => x = r)'
  BY <1>1, <1>2 DEF Builders
<1>4. (\A q \in Proc : state[q] = "embryo" => \E x \in Proc : Builds(x) /\ np(x) = q)'
  BY <1>1, <1>2 DEF Builders
<1> QED  BY <1>3, <1>4 DEF Builders

(* A process that another one builds is in no call. *)
LEMMA BuiltIdle ==
  ASSUME VmInv, NEW p \in Proc, op[p] = "fork"
  PROVE  np(p) # p /\ op[np(p)] = "none" /\ state[np(p)] = "embryo" /\ state[p] = "run" /\ dst[p] = Cur(np(p)) /\ np(p) \in Proc
<1>1. Control(p) /\ np(p) \in Proc
  BY ProcFacts
<1> USE <1>1
<1>2. state[np(p)] = "embryo" /\ state[p] = "run" /\ dst[p] = Cur(np(p))
  BY DEF Control
<1>3. Control(np(p)) /\ op[np(p)] \in {"none", "boot", "fork", "grow", "shrink", "exec"}
  BY ProcFacts
<1>4. op[np(p)] = "boot" => np(np(p)) = np(p)
  BY <1>3 DEF Control, np, Cur
<1>5. op[np(p)] # "boot"
  <2>1. Builders
    BY DEF VmInv
  <2> QED  BY <1>2, <1>4, <2>1 DEF Builders, Builds
<1> QED  BY <1>2, <1>3, <1>5 DEF Control

LEMMA MineFacts ==
  ASSUME NEW p, NEW q, NEW i \in {0, 1}
  PROVE  /\ Mem(p) \in Mine(p, q) /\ Kstack(p) \in Mine(p, q) /\ Kstack(q) \in Mine(p, q)
         /\ Tree(<<p, i>>) \subseteq Mine(p, q) /\ Tree(<<q, i>>) \subseteq Mine(p, q)
<1>1. i = 0 \/ i = 1
  OBVIOUS
<1> QED  BY <1>1 DEF Mine

(* The trees other than s are still when only s, Mem(p) and Kstack(q) are  *)
(* touched.                                                                *)
LEMMA OtherTreesStill ==
  ASSUME NEW p, NEW q, NEW s \in Space, NEW t \in Space, s # t,
         \A b \in Place : b \notin Tree(s) /\ b # Mem(p) /\ b # Kstack(q) => Still(b)
  PROVE  StillTree(t)
<1> SUFFICES ASSUME NEW a \in Tree(t) PROVE Still(a)
  BY DEF StillTree
<1>1. a \in Place /\ a \notin Tree(s)
  BY TreePlaces, TreesApart
<1>2. a # Mem(p) /\ a # Kstack(q)
  BY OutsideTrees, ProcPlacesApart
<1> QED  BY <1>1, <1>2

(* The steps of a call that only change the address space it builds and    *)
(* the local variables.                                                    *)
LEMMA CallStep ==
  ASSUME VmInv, NEW p \in Proc, op[p] # "none", MemOK', LocalTypes', procs' = procs,
         \A b \in Place : b \notin Tree(dst[p]) /\ b # Mem(p) /\ ~(b = Kstack(p) /\ state[p] = "embryo") => Still(b),
         \A r \in Proc : r # p => SameLocals(r), op'[p] = op[p], dst'[p] = dst[p],
         Control(p)', Work(p)', op[p] \in {"grow", "shrink"} => Slot(p)'
  PROVE  VmInv'
<1>t. /\ cur[p] \in {0, 1} /\ sz[p] \in Nat /\ dst[p] \in Space /\ op[p] \in {"none", "boot", "fork", "grow", "shrink", "exec"}
      /\ Cur(p) \in Space /\ Other(p) \in Space /\ Cur(p) # Other(p) /\ np(p) \in Proc /\ Control(p) /\ Slot(p) /\ Work(p)
  BY ProcFacts
<1>1. \A r \in Proc : SameProc(r)
  BY DEF procs, SameProc
<1>2. ProcTypes'
  <2>1. ProcTypes
    BY InvParts
  <2> QED  BY <2>1 DEF procs, ProcTypes
<1>3. Builders'
  <2>1. \A r \in Proc : state'[r] = "embryo" <=> state[r] = "embryo"
    BY <1>1 DEF SameProc
  <2>2. Builds(p)' <=> Builds(p)
    BY DEF Builds
  <2> QED  BY <2>1, <2>2, BuildersKept
<1>4. \A b \in Place : b \notin Tree(dst[p]) /\ b # Mem(p) /\ b # Kstack(p) => Still(b)
  OBVIOUS
<1>5. \A s \in Space : s # dst[p] => StillTree(s)
  BY <1>t, <1>4, OtherTreesStill
<1>6. ASSUME NEW q \in Proc, dst[p][1] = q PROVE \A b \in Place : b \notin Mine(p, q) => Still(b)
  <2>1. PICK i \in {0, 1} : dst[p] = <<q, i>>
    BY <1>t, <1>6, SMT DEF Space
  <2> QED  BY <1>4, <2>1, MineFacts
<1>7. ASSUME op[p] # "grow", op[p] # "shrink" PROVE Slot(p)'
  <2>1. op'[p] = "exec" \/ op[p] # "exec"
    OBVIOUS
  <2>2. Growing(p) => Growing(p)'
    BY <1>7 DEF Growing
  <2>3. op[p] = "boot" => state[p] = "embryo" /\ dst[p] = Cur(p)
    BY <1>t DEF Control
  <2>4. op[p] = "exec" => state[p] = "run" /\ dst[p] = Other(p)
    BY <1>t DEF Control
  <2>5. op[p] = "fork" => state[p] = "run" /\ dst[p] # Cur(p) /\ dst[p] # Other(p)
    BY BuiltIdle, SMT DEF Cur, Other
  <2>6. state[p] # "embryo" => Still(Kstack(p))
    BY ProcPlaces, OutsideTrees, ProcPlacesApart
  <2>7. state[p] # "embryo" => StillTree(Cur(p)) /\ Still(Kstack(p))
    BY <1>t, <1>5, <1>7, <2>3, <2>4, <2>5, <2>6
  <2>8. op[p] # "exec" => StillTree(Other(p))
    BY <1>t, <1>5, <1>7, <2>3, <2>5
  <2> QED  BY <1>t, <1>1, <2>1, <2>2, <2>7, <2>8, SlotKept
<1>8. CASE op[p] = "fork"
  <2>1. PICK q \in Proc : q = np(p) /\ q # p /\ op[q] = "none" /\ state[q] = "embryo" /\ state[p] = "run" /\ dst[p] = Cur(q)
    BY <1>8, BuiltIdle
  <2>2. /\ cur[q] \in {0, 1} /\ sz[q] \in Nat /\ dst[q] \in Space /\ at[q] \in Nat /\ new[q] \in Nat /\ Cur(q) # Other(q)
        /\ Other(q) \in Space /\ Control(q) /\ Slot(q) /\ Work(q)
    BY ProcFacts
  <2>3. Control(q)'
    BY <2>1, <2>2, <1>1, ControlKept
  <2>4. Slot(q)'
    <3>1. StillTree(Other(q))
      BY <1>5, <2>1, <2>2
    <3>2. (Growing(q) => Growing(q)') /\ op[q] # "exec"
      BY <2>1 DEF Growing
    <3> QED  BY <1>1, <2>1, <2>2, <3>1, <3>2, SlotKept
  <2>5. Work(q)'
    <3>1. Still(Mem(q)) /\ pc[q] # "userinit" /\ ~Builds(q)
      <4>1. Mem(q) \notin Tree(dst[p]) /\ Mem(q) # Mem(p) /\ Mem(q) # Kstack(p)
        BY <2>1, OutsideTrees, ProcPlacesApart
      <4>2. pc[q] = "user"
        BY <2>1, <2>2 DEF Control
      <4> QED  BY <1>4, <2>1, <4>1, <4>2, ProcPlaces DEF Builds
    <3>2. op[q] = "none" /\ SameLocals(q) /\ SameProc(q)
      BY <1>1, <2>1
    <3> QED  BY <2>2, <3>1, <3>2, WorkKept
  <2>6. \A b \in Place : b \notin Mine(p, q) => Still(b)
    BY <1>6, <2>1 DEF np
  <2>7. Slot(p)' /\ Builds(p) /\ state[p] # "embryo" /\ \A r \in Proc : r # p /\ r # q => SameProc(r)
    BY <1>1, <1>7, <1>8, <2>1 DEF Builds
  <2> QED  BY <1>2, <1>3, <2>1, <2>3, <2>4, <2>5, <2>6, <2>7, StepInv
<1>9. CASE op[p] # "fork"
  <2>1. dst[p][1] = p
    <3>1. dst[p] = Cur(p) \/ dst[p] = Other(p)
      BY <1>t, <1>9 DEF Control
    <3> QED  BY <3>1, SMT DEF Cur, Other
  <2>2. state[p] # "embryo" \/ (Builds(p) /\ np(p) = p)
    BY <1>t, <1>9, <2>1 DEF Control, Builds, np
  <2>3. Slot(p)'
    BY <1>7
  <2>4. \A b \in Place : b \notin Mine(p, p) => Still(b)
    BY <1>6, <2>1
  <2> QED  BY <1>1, <1>2, <1>3, <2>2, <2>3, <2>4, StepInv
<1> QED  BY <1>8, <1>9

-----------------------------------------------------------------------------
(* The steps inside the calls.                                             *)

LEMMA Update ==
  ASSUME NEW S, NEW T, NEW f \in [S -> T], NEW p \in S, NEW x \in T, NEW g, g = [f EXCEPT ![p] = x]
  PROVE  g \in [S -> T] /\ g[p] = x /\ \A r \in S : r # p => g[r] = f[r]
OBVIOUS

LEMMA UpdateAt ==
  ASSUME NEW S, NEW T, NEW f \in [S -> T], NEW p \in S, NEW g, g = f \/ \E x \in T : g = [f EXCEPT ![p] = x]
  PROVE  g \in [S -> T] /\ \A r \in S : r # p => g[r] = f[r]
OBVIOUS

(* Only the local variables of p change. *)
LEMMA LocalsGo ==
  ASSUME LocalTypes, NEW p \in Proc, \E x \in PCs : pc' = [pc EXCEPT ![p] = x], op' = op, dst' = dst,
         at' = at \/ \E y \in Nat : at' = [at EXCEPT ![p] = y], new' = new \/ \E z \in Nat : new' = [new EXCEPT ![p] = z],
         rest' = rest \/ \E l \in Files : rest' = [rest EXCEPT ![p] = l], ret' = ret, calls' = calls
  PROVE  LocalTypes' /\ \A r \in Proc : r # p => SameLocals(r)
<1> USE DEF LocalTypes
<1>1. pc' \in [Proc -> PCs] /\ \A r \in Proc : r # p => pc'[r] = pc[r]
  BY SMT
<1>2. at' \in [Proc -> Nat] /\ \A r \in Proc : r # p => at'[r] = at[r]
  BY SMT
<1>3. new' \in [Proc -> Nat] /\ \A r \in Proc : r # p => new'[r] = new[r]
  BY SMT
<1>4. rest' \in [Proc -> Files] /\ \A r \in Proc : r # p => rest'[r] = rest[r]
  <2>1. CASE rest' = rest
    BY <2>1
  <2>2. CASE rest' # rest
    <3>1. PICK l \in Files : rest' = [rest EXCEPT ![p] = l]
      BY <2>2
    <3> QED  BY <3>1, Update
  <2> QED  BY <2>1, <2>2
<1> QED  BY <1>1, <1>2, <1>3, <1>4 DEF SameLocals

LEMMA ControlGoes ==
  ASSUME NEW p \in Proc, Control(p), op[p] # "none", op'[p] = op[p], dst'[p] = dst[p], procs' = procs, pc'[p] # "user",
         op[p] = "boot" => pc'[p] \in {"userinit", "setupkvm", "kmap", "segment", "mappages", "allocuvm"},
         op[p] = "fork" => pc'[p] \in {"setupkvm", "kmap", "copyuvm", "mappages"},
         op[p] = "grow" => pc'[p] \in {"growproc", "allocuvm", "mappages"},
         op[p] # "shrink",
         op[p] = "exec" => pc'[p] \in {"setupkvm", "kmap", "segment", "mappages", "allocuvm", "loaduvm", "copyout", "commit"}
  PROVE  Control(p)'
<1>1. state' = state /\ cur' = cur /\ guard' = guard
  BY DEF procs
<1>2. np(p)' = np(p) /\ Cur(p)' = Cur(p) /\ Other(p)' = Other(p) /\ Cur(np(p))' = Cur(np(p))
  BY <1>1 DEF np, Cur, Other
<1> QED  BY <1>1, <1>2 DEF Control

(* The pages stay where they are. *)
LEMMA PagesKept ==
  ASSUME MemOK, pages' = pages
  PROVE  MemOK' /\ \A b : Still(b)
BY DEF pages, MemOK, MemTypes, OnePlace, UserPresent, Still

LEMMA StepSetupkvm ==
  ASSUME VmInv, NEW p \in Proc, setupkvm(p)
  PROVE  VmInv'
<1>t. /\ dst[p] \in Space /\ at[p] \in Nat /\ new[p] \in Nat /\ op[p] \in {"none", "boot", "fork", "grow", "shrink", "exec"}
      /\ np(p) \in Proc /\ Control(p) /\ Directory(p)
  BY ProcFacts DEF Work
<1> USE <1>t
<1>m. MemOK /\ LocalTypes
  BY InvParts
<1>1. /\ pc[p] = "setupkvm" /\ pc' = [pc EXCEPT ![p] = "kmap"] /\ at' = [at EXCEPT ![p] = 1]
      /\ op' = op /\ dst' = dst /\ new' = new /\ rest' = rest /\ ret' = ret /\ calls' = calls /\ procs' = procs
      /\ kalloc(Dir(dst[p]), "table")
  BY DEF setupkvm, Goto
<1>2. /\ LocalTypes' /\ pc'[p] = "kmap" /\ at'[p] = 1 /\ \A r \in Proc : r # p => SameLocals(r)
  <2>1. "kmap" \in PCs /\ 1 \in Nat
    BY DEF PCs
  <2>2. LocalTypes' /\ \A r \in Proc : r # p => SameLocals(r)
    BY <1>1, <1>m, <2>1, LocalsGo
  <2> QED  BY <1>1, <1>m, <2>1, <2>2, Update DEF LocalTypes
<1> USE <1>1, <1>2
<1>o. op[p] \in {"boot", "fork", "exec"}
  BY DEF Control
<1>s. PICK s \in Space : s = dst[p] /\ s = dst'[p]
  OBVIOUS
<1>b. Blank(s) /\ new[p] = 0 /\ (Builds(p) => ptr[Kstack(np(p))] # NoPage) /\ ptr[Mem(p)] = NoPage
  BY <1>s DEF Directory, Early
<1>3. /\ MemOK' /\ ptr'[Dir(s)] # NoPage /\ \A b \in Place : b # Dir(s) => Still(b)
  <2>1. Dir(s) \in Place /\ ptr[Dir(s)] = NoPage
    BY <1>b, TreePlaces DEF Blank
  <2>2. "table" \in Contents
    BY DEF Contents
  <2> QED  BY <2>1, <2>2, <1>m, <1>s, kallocFacts
<1> USE <1>b, <1>3
<1>4. Control(p)'
  BY <1>o, ControlGoes
<1>5. Directory(p)'
  <2>1. 1 \in KernelTable /\ \A k \in KernelTable : ~(k < 1)
    BY VmAssumption, SMT DEF KernelTable
  <2>2. \A k \in KernelTable : ptr'[Ktable(s, k)] = NoPage
    <3> SUFFICES ASSUME NEW k \in KernelTable PROVE ptr'[Ktable(s, k)] = NoPage
      OBVIOUS
    <3>1. Ktable(s, k) \in Tree(s) /\ Ktable(s, k) \in Place /\ Ktable(s, k) # Dir(s)
      BY TreePlaces, InTree
    <3> QED  BY <3>1 DEF Still, Blank
  <2>3. Upto(s, 0)'
    <3> SUFFICES ASSUME NEW v \in Vpn PROVE ptr'[Pte(s, v)] = NoPage /\ ~(v < 0)
      BY DEF Upto
    <3>1. Pte(s, v) \in Tree(s) /\ Pte(s, v) \in Place /\ Pte(s, v) # Dir(s)
      BY TreePlaces, InTree
    <3>2. ~(v < 0)
      BY VpnFacts, SMT
    <3> QED  BY <3>1, <3>2 DEF Still, Blank
  <2>4. ptr'[Mem(p)] = NoPage /\ (Builds(p) => ptr'[Kstack(np(p))] # NoPage)
    <3>1. Mem(p) # Dir(s) /\ Kstack(np(p)) # Dir(s)
      BY TreePlaces, OutsideTrees, ProcPlacesApart
    <3> QED  BY <3>1, ProcPlaces DEF Still
  <2>5. ~Early(p)' /\ ~Middle(p)' /\ (Builds(p)' <=> Builds(p)) /\ np(p)' = np(p)
    BY DEF Early, Middle, Builds, np
  <2> QED  BY <1>s, <2>1, <2>2, <2>3, <2>4, <2>5 DEF Directory
<1>6. Work(p)'
  BY <1>o, <1>5 DEF Work, Boot, Copy, Grow, Load, Middle, Growing
<1>7. \A b \in Place : b \notin Tree(dst[p]) /\ b # Mem(p) /\ ~(b = Kstack(p) /\ state[p] = "embryo") => Still(b)
  BY <1>s, TreePlaces
<1> QED  BY <1>4, <1>6, <1>7, <1>o, CallStep

LEMMA StepSetupkvmMap ==
  ASSUME VmInv, NEW p \in Proc, setupkvm_map(p)
  PROVE  VmInv'
<1>t. /\ dst[p] \in Space /\ at[p] \in Nat /\ new[p] \in Nat /\ op[p] \in {"none", "boot", "fork", "grow", "shrink", "exec"}
      /\ np(p) \in Proc /\ Control(p) /\ Directory(p) /\ sz[p] \in Nat
  BY ProcFacts DEF Work
<1>m. MemOK /\ LocalTypes
  BY InvParts
<1>1. /\ pc[p] = "kmap"
      /\ pc' = [pc EXCEPT ![p] = IF at[p] < KPD THEN "kmap" ELSE IF op[p] = "fork" THEN "copyuvm" ELSE "segment"]
      /\ at' = [at EXCEPT ![p] = IF @ < KPD THEN @ + 1 ELSE 0]
      /\ op' = op /\ dst' = dst /\ new' = new /\ rest' = rest /\ ret' = ret /\ calls' = calls /\ procs' = procs
      /\ kalloc(Ktable(dst[p], at[p]), "table")
  BY DEF setupkvm_map
<1>2. /\ LocalTypes' /\ \A r \in Proc : r # p => SameLocals(r)
      /\ pc'[p] = IF at[p] < KPD THEN "kmap" ELSE IF op[p] = "fork" THEN "copyuvm" ELSE "segment"
      /\ at'[p] = IF at[p] < KPD THEN at[p] + 1 ELSE 0
  <2>1. PICK x, y : x = (IF at[p] < KPD THEN "kmap" ELSE IF op[p] = "fork" THEN "copyuvm" ELSE "segment")
                    /\ y = (IF at[p] < KPD THEN at[p] + 1 ELSE 0)
    OBVIOUS
  <2>2. x \in PCs /\ y \in Nat
    BY <1>t, <2>1, SMT DEF PCs
  <2>3. pc' = [pc EXCEPT ![p] = x] /\ at' = [at EXCEPT ![p] = y]
    BY <1>1, <2>1
  <2>4. /\ LocalTypes' /\ (\A r \in Proc : r # p => SameLocals(r)) /\ pc'[p] = x /\ at'[p] = y
    <3>1. LocalTypes' /\ \A r \in Proc : r # p => SameLocals(r)
      BY <1>1, <1>m, <2>2, <2>3, LocalsGo
    <3> QED  BY <1>m, <2>2, <2>3, <3>1, Update DEF LocalTypes
  <2> QED  BY <2>1, <2>4
<1>o. op[p] \in {"boot", "fork", "exec"}
  BY <1>t, <1>1 DEF Control
<1>s. PICK s \in Space : s = dst[p] /\ s = dst'[p]
  BY <1>t, <1>1
<1>b. /\ at[p] \in KernelTable /\ new[p] = 0 /\ ptr[Dir(s)] # NoPage /\ Upto(s, 0) /\ ptr[Mem(p)] = NoPage
      /\ (\A k \in KernelTable : ptr[Ktable(s, k)] # NoPage <=> k < at[p]) /\ (Builds(p) => ptr[Kstack(np(p))] # NoPage)
  BY <1>s, <1>t, <1>1 DEF Directory
<1>3. /\ MemOK' /\ ptr'[Ktable(s, at[p])] # NoPage /\ \A b \in Place : b # Ktable(s, at[p]) => Still(b)
  <2>1. Ktable(s, at[p]) \in Place /\ ptr[Ktable(s, at[p])] = NoPage
    BY <1>b, <1>t, TreePlaces, SMT
  <2>2. "table" \in Contents
    BY DEF Contents
  <2> QED  BY <2>1, <2>2, <1>1, <1>m, <1>s, kallocFacts
<1>4. Control(p)'
  BY <1>t, <1>1, <1>2, <1>o, ControlGoes, SMT
<1>f. ptr'[Dir(s)] # NoPage /\ \A v \in Vpn : Still(Pte(s, v))
  <2>1. Dir(s) \in Place /\ Dir(s) # Ktable(s, at[p])
    BY TreePlaces, InTree
  <2>2. ASSUME NEW v \in Vpn PROVE Pte(s, v) \in Place /\ Pte(s, v) # Ktable(s, at[p])
    BY TreePlaces, InTree
  <2> QED  BY <2>1, <2>2, <1>3, <1>b DEF Still
<1>k. \A k \in KernelTable : ptr'[Ktable(s, k)] # NoPage <=> k <= at[p]
  <2> SUFFICES ASSUME NEW k \in KernelTable PROVE ptr'[Ktable(s, k)] # NoPage <=> k <= at[p]
    OBVIOUS
  <2>1. CASE k = at[p]
    BY <2>1, <1>3, <1>t, SMT
  <2>2. CASE k # at[p]
    <3>1. Ktable(s, k) \in Place /\ Ktable(s, k) # Ktable(s, at[p])
      BY <2>2, TreePlaces, InTree
    <3>2. ptr'[Ktable(s, k)] = ptr[Ktable(s, k)]
      BY <3>1, <1>3 DEF Still
    <3>3. k \in Nat /\ at[p] \in Nat
      BY <1>t, SMT DEF KernelTable
    <3> QED  BY <3>2, <3>3, <2>2, <1>b, SMT
  <2> QED  BY <2>1, <2>2
<1>5. Directory(p)'
  <2>1. ptr'[Mem(p)] = NoPage /\ (Builds(p) => ptr'[Kstack(np(p))] # NoPage)
    <3>1. Mem(p) # Ktable(s, at[p]) /\ Kstack(np(p)) # Ktable(s, at[p])
      BY <1>b, TreePlaces, OutsideTrees, ProcPlacesApart
    <3> QED  BY <3>1, <1>3, <1>b, <1>t, ProcPlaces DEF Still
  <2>2. Upto(s, 0)'
    BY <1>b, <1>f, UptoKept
  <2>3. ~Early(p)' /\ pc'[p] # "userinit" /\ pc'[p] # "mappages" /\ (Builds(p)' <=> Builds(p)) /\ np(p)' = np(p)
    BY <1>1, <1>2, SMT DEF Early, Builds, np
  <2>4. (pc[p] = "kmap" => /\ at[p] \in KernelTable /\ new[p] = 0 /\ ptr[Dir(dst[p])] # NoPage /\ Upto(dst[p], 0)
                           /\ \A k \in KernelTable : ptr[Ktable(dst[p], k)] # NoPage <=> k < at[p])'
    <3> SUFFICES ASSUME at[p] < KPD
                 PROVE  at'[p] \in KernelTable /\ \A k \in KernelTable : ptr'[Ktable(s, k)] # NoPage <=> k < at'[p]
      <4>1. pc'[p] = "kmap" <=> at[p] < KPD
        BY <1>1, <1>2, SMT
      <4> QED  BY <1>1, <1>s, <1>b, <1>f, <2>2, <4>1
    <3>1. at'[p] = at[p] + 1 /\ at[p] \in KernelTable
      BY <1>2, <1>b
    <3>2. at'[p] \in KernelTable /\ \A k \in KernelTable : k <= at[p] <=> k < at'[p]
      BY <3>1, VmAssumption, SMT DEF KernelTable
    <3> QED  BY <3>2, <1>k
  <2>5. (Middle(p) => HasTables(dst[p]) /\ Upto(dst[p], Done(p)))'
    <3> SUFFICES ASSUME Middle(p)' PROVE HasTables(s)' /\ Upto(s, 0)' /\ Done(p)' = 0
      BY <1>s
    <3>1. ~(at[p] < KPD)
      BY <1>2 DEF Middle
    <3>2. \A k \in KernelTable : k <= at[p]
      BY <3>1, <1>t, VmAssumption, SMT DEF KernelTable
    <3>3. \A v \in Vpn : ptr'[Pte(s, v)] = NoPage
      <4>1. \A v \in Vpn : ~(v < 0)
        BY VpnFacts, SMT
      <4> QED  BY <2>2, <4>1 DEF Upto
    <3>4. Done(p)' = 0
      BY <1>1, <1>2, <1>b, <3>1, Geometry DEF Done
    <3> QED  BY <1>f, <1>k, <2>2, <3>2, <3>3, <3>4 DEF HasTables, Mapped
  <2> QED  BY <2>1, <2>3, <2>4, <2>5 DEF Directory
<1>6. Work(p)'
  <2>1. Boot(p)'
    BY <1>1, <1>2, <1>b, <1>o, SMT DEF Boot
  <2>2. \A v \in Vpn : ~(v < 0)
    BY VpnFacts, SMT
  <2>3. Copy(p)'
    <3> SUFFICES ASSUME op'[p] = "fork", Middle(p)'
                 PROVE  at'[p] = 0 /\ 0 <= Pages(sz[p])' /\ Filled(s, 0, 0, view[p])' /\ Flags(s, 0, 0, guard[p])' /\ pc'[p] # "mappages"
      BY <1>s DEF Copy
    <3>1. at'[p] = 0 /\ pc'[p] # "mappages"
      BY <1>2 DEF Middle
    <3>2. 0 <= Pages(sz[p])'
      BY <1>1, <1>t, PagesBounds, SMT DEF procs
    <3> QED  BY <2>2, <3>1, <3>2 DEF Filled, Flags
  <2>4. Load(p)'
    <3> SUFFICES ASSUME op'[p] = "exec", Middle(p)'
                 PROVE  new'[p] < KERNBASE /\ Flags(s, 0, 0, -1)' /\ Done(p)' = 0 /\ pc'[p] = "segment"
      BY <1>s DEF Load, Stacked
    <3>1. pc'[p] = "segment" /\ new'[p] = 0
      BY <1>1, <1>2, <1>b DEF Middle
    <3> QED  BY <2>2, <3>1, Geometry, SMT DEF Flags, Done
  <2>5. Grow(p)'
    BY <1>1, <1>o DEF Grow, Growing
  <2> QED  BY <1>5, <2>1, <2>3, <2>4, <2>5 DEF Work
<1>7. \A b \in Place : b \notin Tree(dst[p]) /\ b # Mem(p) /\ ~(b = Kstack(p) /\ state[p] = "embryo") => Still(b)
  BY <1>3, <1>s, <1>b, TreePlaces
<1> QED  BY <1>1, <1>2, <1>3, <1>4, <1>6, <1>7, <1>o, CallStep

(* The page that mappages maps, and where. *)
LEMMA MapFacts ==
  ASSUME VmInv, NEW p \in Proc, pc[p] = "mappages"
  PROVE  /\ at[p] \in Vpn /\ op[p] \in {"boot", "fork", "grow", "exec"} /\ ptr[Mem(p)] # NoPage
         /\ dst[p] \in Space /\ np(p) \in Proc /\ Control(p) /\ Directory(p) /\ HasTables(dst[p]) /\ Upto(dst[p], at[p])
         /\ ptr[Pte(dst[p], at[p])] = NoPage
<1>t. /\ dst[p] \in Space /\ at[p] \in Nat /\ new[p] \in Nat /\ op[p] \in {"none", "boot", "fork", "grow", "shrink", "exec"}
      /\ np(p) \in Proc /\ Control(p) /\ Work(p) /\ sz[p] \in Nat /\ sz[p] < KERNBASE
  BY ProcFacts
<1>o. op[p] \in {"boot", "fork", "grow", "exec"} /\ Middle(p) /\ Done(p) = at[p]
  BY <1>t DEF Control, Middle, Done
<1> USE <1>t, <1>o
<1>1. at[p] \in Vpn
  <2>1. CASE op[p] = "boot"
    BY <2>1, VpnFacts DEF Work, Boot
  <2>2. CASE op[p] = "fork"
    BY <2>2, VpnFacts DEF Work, Copy
  <2>3. CASE op[p] = "grow"
    BY <2>3, VpnFacts DEF Work, Grow, Growing
  <2>4. CASE op[p] = "exec"
    BY <2>4, VpnFacts DEF Work, Load
  <2> QED  BY <2>1, <2>2, <2>3, <2>4
<1>2. Directory(p) /\ ptr[Mem(p)] # NoPage /\ HasTables(dst[p]) /\ Upto(dst[p], at[p])
  BY DEF Work, Directory
<1>3. ~(at[p] < at[p])
  BY SMT
<1> QED  BY <1>1, <1>2, <1>3 DEF Upto

(* p itself is left alone while it grows. *)
LEMMA GrowSlot ==
  ASSUME VmInv, NEW p \in Proc, procs' = procs, Growing(p), Growing(p)', HasTables(Cur(p))', Still(Kstack(p)),
         StillTree(Other(p)), \A v \in Vpn : v < Pages(sz[p]) => Still(Pte(Cur(p), v))
  PROVE  Slot(p)'
<1>1. cur[p] \in {0, 1} /\ sz[p] \in Nat /\ Slot(p) /\ Control(p)
  BY ProcFacts
<1>2. SameProc(p)
  BY DEF procs, SameProc
<1>3. state[p] = "run" /\ op[p] # "exec"
  BY <1>1 DEF Control, Growing
<1> QED  BY <1>1, <1>2, <1>3, SlotGrows

LEMMA StepWalkpgdir ==
  ASSUME VmInv, NEW p \in Proc, walkpgdir(p)
  PROVE  VmInv'
<1>1. /\ pc[p] = "mappages" /\ NoTable(p) /\ kalloc(Table(dst[p], PDX(at[p])), "table") /\ procs' = procs /\ ret' = ret /\ calls' = calls
      /\ op' = op /\ dst' = dst /\ at' = at /\ new' = new /\ rest' = rest /\ pc' = pc
  BY DEF walkpgdir, locals
<1>t. /\ at[p] \in Vpn /\ op[p] \in {"boot", "fork", "grow", "exec"}
      /\ dst[p] \in Space /\ np(p) \in Proc /\ Control(p) /\ Directory(p) /\ HasTables(dst[p]) /\ Upto(dst[p], at[p])
  BY <1>1, MapFacts
<1> USE <1>1, <1>t
<1>m. MemOK /\ LocalTypes
  BY InvParts
<1>2. /\ LocalTypes' /\ (\A r \in Proc : SameLocals(r)) /\ \A r \in Proc : SameProc(r)
  BY <1>m DEF LocalTypes, SameLocals, procs, SameProc
<1>s. PICK s \in Space : s = dst[p] /\ s = dst'[p]
  OBVIOUS
<1>x. PICK T \in Place : T = Table(s, PDX(at[p])) /\ T \in Tree(s)
  BY <1>s, TreePlaces, VpnFacts
<1> USE <1>s, <1>x
<1>3. /\ MemOK' /\ ptr'[T] # NoPage /\ \A b \in Place : b # T => Still(b)
  <2>1. ptr[T] = NoPage
    BY DEF NoTable
  <2>2. "table" \in Contents
    BY DEF Contents
  <2> QED  BY <2>1, <2>2, <1>m, kallocFacts
<1>f. /\ \A v \in Vpn : Still(Pte(s, v))
      /\ \A q \in Proc : Still(Mem(q)) /\ Still(Kstack(q))
  <2>1. ASSUME NEW v \in Vpn PROVE Pte(s, v) \in Place /\ Pte(s, v) # T
    BY TreePlaces, InTree
  <2>2. ASSUME NEW q \in Proc PROVE Mem(q) # T /\ Kstack(q) # T
    BY OutsideTrees, ProcPlacesApart
  <2> QED  BY <2>1, <2>2, <1>3, ProcPlaces
<1> USE <1>f
<1>h. HasTables(s)'
  <2>1. \A b \in Place : ptr[b] # NoPage => ptr'[b] # NoPage
    BY <1>3 DEF Still
  <2>2. \A v \in Vpn : ptr'[Pte(s, v)] = ptr[Pte(s, v)]
    BY DEF Still
  <2>3. HasTables(s)
    OBVIOUS
  <2> QED  BY <2>1, <2>2, <2>3, TreePlaces, VpnFacts DEF HasTables, Mapped
<1>4. Control(p)'
  BY ControlGoes
<1>5. Directory(p)'
  <2>1. ~Early(p)' /\ pc'[p] = "mappages" /\ Done(p)' = at[p] /\ (Builds(p)' <=> Builds(p)) /\ np(p)' = np(p)
    BY DEF Early, Done, Builds, np
  <2>2. PICK n : n = at[p]
    OBVIOUS
  <2>3. Upto(s, n)'
    BY <2>2, UptoKept
  <2>4. ptr'[Mem(p)] # NoPage /\ (Builds(p) => ptr'[Kstack(np(p))] # NoPage)
    BY DEF Directory, Still
  <2> QED  BY <1>h, <2>1, <2>2, <2>3, <2>4 DEF Directory
<1>6. Work(p)'
  <2>1. at[p] \in Nat /\ new[p] \in Nat /\ Work(p)
    BY ProcFacts
  <2>2. Boot(p)' /\ Copy(p)' /\ Grow(p)' /\ Load(p)'
    BY <1>2, <2>1, ContentsKept
  <2> QED  BY <1>5, <2>2 DEF Work
<1>7. \A b \in Place : b \notin Tree(dst[p]) /\ b # Mem(p) /\ ~(b = Kstack(p) /\ state[p] = "embryo") => Still(b)
  BY <1>3
<1>8. ASSUME op[p] = "grow" PROVE Slot(p)'
  <2>1. dst[p] = Cur(p) /\ Growing(p) /\ Growing(p)' /\ Cur(p)' = s /\ Cur(p) = s
    BY <1>8 DEF Control, Growing, procs, Cur
  <2>2. StillTree(Other(p))
    <3>1. Other(p) \in Space /\ Other(p) # s
      BY <2>1, ProcFacts
    <3>2. \A b \in Place : b \notin Tree(s) /\ b # Mem(p) /\ b # Kstack(p) => Still(b)
      BY <1>7
    <3> QED  BY <3>1, <3>2, OtherTreesStill
  <2> QED  BY <1>h, <2>1, <2>2, GrowSlot
<1> QED  BY <1>2, <1>3, <1>4, <1>6, <1>7, <1>8, CallStep

(* One page more: v < n + 1. *)
LEMMA OneMore ==
  ASSUME NEW n \in Nat, NEW v \in Nat
  PROVE  v < n + 1 <=> v < n \/ v = n
BY SMT

LEMMA NextLeq ==
  ASSUME NEW n \in Nat, NEW k \in Nat
  PROVE  (n < k => n + 1 <= k) /\ (k <= n => k <= n + 1) /\ \A v \in Nat : v < k /\ k <= n => v < n
BY SMT

LEMMA RangeGrows ==
  ASSUME NEW s, NEW m, NEW n \in Nat, \A v \in Vpn : v < n => Still(Pte(s, v)), \A v \in Vpn : v < n => ptr[Pte(s, v)] # NoPage
  PROVE  /\ \A f : Filled(s, m, n, f) /\ cont'[ptr'[Pte(s, n)]] = f[n] => Filled(s, m, n + 1, f)'
         /\ \A g : Flags(s, m, n, g) /\ (Pte(s, n) \in user' <=> n # g) => Flags(s, m, n + 1, g)'
<1>1. \A v \in Vpn : v < n + 1 => v < n \/ v = n
  BY VpnFacts, SMT
<1>2. \A f : Filled(s, m, n, f) /\ cont'[ptr'[Pte(s, n)]] = f[n] => Filled(s, m, n + 1, f)'
  BY <1>1 DEF Filled, Still
<1>3. \A g : Flags(s, m, n, g) /\ (Pte(s, n) \in user' <=> n # g) => Flags(s, m, n + 1, g)'
  BY <1>1 DEF Flags, Still
<1> QED  BY <1>2, <1>3

LEMMA StepMappages ==
  ASSUME VmInv, NEW p \in Proc, mappages(p)
  PROVE  VmInv'
<1>1. /\ pc[p] = "mappages" /\ pc' = [pc EXCEPT ![p] = IF op[p] = "fork" THEN "copyuvm" ELSE "allocuvm"] /\ ~NoTable(p)
      /\ ptr' = [ptr EXCEPT ![Pte(dst[p], at[p])] = ptr[Mem(p)], ![Mem(p)] = NoPage]
      /\ user' = (IF op[p] = "fork" /\ Pte(Cur(p), at[p]) \notin user THEN user ELSE user \cup {Pte(dst[p], at[p])})
      /\ at' = [at EXCEPT ![p] = @ + 1] /\ free' = free /\ lost' = lost /\ cont' = cont
      /\ procs' = procs /\ ret' = ret /\ calls' = calls /\ op' = op /\ dst' = dst /\ new' = new /\ rest' = rest
  BY DEF mappages, Goto
<1>t. /\ at[p] \in Vpn /\ op[p] \in {"boot", "fork", "grow", "exec"} /\ ptr[Mem(p)] # NoPage
      /\ dst[p] \in Space /\ np(p) \in Proc /\ Control(p) /\ Directory(p) /\ HasTables(dst[p]) /\ Upto(dst[p], at[p])
      /\ ptr[Pte(dst[p], at[p])] = NoPage
  BY <1>1, MapFacts
<1>u. at[p] \in Nat /\ new[p] \in Nat /\ sz[p] \in Nat /\ Work(p) /\ Slot(p) /\ Other(p) \in Space /\ Cur(p) \in Space /\ Cur(p) # Other(p)
  BY ProcFacts
<1>m. MemOK /\ LocalTypes
  BY InvParts
<1>2. /\ LocalTypes' /\ (\A r \in Proc : r # p => SameLocals(r))
      /\ pc'[p] = (IF op[p] = "fork" THEN "copyuvm" ELSE "allocuvm") /\ at'[p] = at[p] + 1
  <2>1. PICK x : x = (IF op[p] = "fork" THEN "copyuvm" ELSE "allocuvm")
    OBVIOUS
  <2>2. x \in PCs /\ at[p] + 1 \in Nat /\ pc' = [pc EXCEPT ![p] = x] /\ at' = [at EXCEPT ![p] = at[p] + 1]
    BY <1>1, <1>u, <2>1, SMT DEF PCs
  <2>3. LocalTypes' /\ \A r \in Proc : r # p => SameLocals(r)
    BY <1>1, <1>m, <2>2, LocalsGo
  <2> QED  BY <1>m, <2>1, <2>2, <2>3, Update, SMT DEF LocalTypes
<1>s. PICK s \in Space : s = dst[p] /\ s = dst'[p]
  BY <1>t, <1>1
<1>n. PICK n \in Vpn : n = at[p] /\ n \in Nat
  BY <1>t, <1>u
<1>3. /\ MemOK' /\ ptr'[Mem(p)] = NoPage /\ ptr'[Pte(s, n)] = ptr[Mem(p)]
      /\ \A b \in Place : b # Pte(s, n) /\ b # Mem(p) => Still(b)
  <2>1. Pte(s, n) \in Place /\ Mem(p) \in Place /\ Pte(s, n) \in Tree(s)
    BY TreePlaces, ProcPlaces
  <2>2. \A q \in Proc : Pte(s, n) # Mem(q)
    BY <2>1, OutsideTrees, ProcPlacesApart
  <2>3. Mem(p) \notin user
    BY <1>m DEF MemOK, UserPresent
  <2>4. user' \in {user, user \cup {Pte(s, n)}}
    BY <1>1, <1>s, <1>n
  <2>5. ptr' = [ptr EXCEPT ![Pte(s, n)] = ptr[Mem(p)], ![Mem(p)] = NoPage] /\ ptr[Pte(s, n)] = NoPage
    BY <1>1, <1>s, <1>n, <1>t
  <2> QED  BY <1>1, <1>m, <1>t, <2>1, <2>2, <2>3, <2>4, <2>5, MoveFacts
<1>f. /\ \A v \in Vpn : v # n => Still(Pte(s, v))
      /\ \A q \in Proc : Still(Kstack(q))
      /\ \A q \in Proc : q # p => Still(Mem(q))
  <2>1. ASSUME NEW v \in Vpn, v # n PROVE Pte(s, v) \in Place /\ Pte(s, v) # Pte(s, n)
    BY <2>1, TreePlaces, InTree
  <2>2. ASSUME NEW v \in Vpn PROVE Pte(s, v) # Mem(p)
    BY TreePlaces, OutsideTrees
  <2>3. ASSUME NEW q \in Proc PROVE Mem(q) # Pte(s, n) /\ Kstack(q) # Pte(s, n) /\ Kstack(q) # Mem(p)
    BY TreePlaces, OutsideTrees, ProcPlacesApart
  <2>4. ASSUME NEW q \in Proc, q # p PROVE Mem(q) # Mem(p)
    BY <2>4, OutsideTrees, ProcPlacesApart
  <2> QED  BY <2>1, <2>2, <2>3, <2>4, <1>3, ProcPlaces
<1>b. /\ \A v \in Vpn : v < n => Still(Pte(s, v))
      /\ \A v \in Vpn : v < n => ptr[Pte(s, v)] # NoPage
  <2>1. \A v \in Vpn : v < n => v # n
    BY <1>n, SMT
  <2> QED  BY <1>f, <1>t, <1>s, <1>n, <2>1 DEF Upto
<1>c. cont'[ptr'[Pte(s, n)]] = cont[ptr[Mem(p)]]
  BY <1>1, <1>3
<1>g. /\ op[p] # "fork" => Pte(s, n) \in user'
      /\ op[p] = "fork" => (Pte(s, n) \in user' <=> Pte(Cur(p), n) \in user)
  <2>1. Pte(s, n) \notin user
    BY <1>m, <1>t, <1>s, <1>n DEF MemOK, UserPresent
  <2> QED  BY <1>1, <1>s, <1>n, <2>1
<1>h. HasTables(s)' /\ Upto(s, n + 1)'
  <2>1. ptr'[Dir(s)] # NoPage /\ \A k \in KernelTable : ptr'[Ktable(s, k)] # NoPage
    <3>1. Dir(s) \in Place /\ Dir(s) # Pte(s, n) /\ Dir(s) # Mem(p)
      BY TreePlaces, InTree, OutsideTrees, ProcPlacesApart
    <3>2. ASSUME NEW k \in KernelTable PROVE Ktable(s, k) \in Place /\ Ktable(s, k) # Pte(s, n) /\ Ktable(s, k) # Mem(p)
      BY TreePlaces, InTree, OutsideTrees, ProcPlacesApart
    <3> QED  BY <3>1, <3>2, <1>3, <1>t, <1>s DEF Still, HasTables
  <2>2. ASSUME NEW v \in Vpn PROVE ptr'[Table(s, PDX(v))] = ptr[Table(s, PDX(v))]
    <3>1. Table(s, PDX(v)) \in Place /\ Table(s, PDX(v)) # Pte(s, n)
      BY TreePlaces, VpnFacts, InTree
    <3>2. Table(s, PDX(v)) # Mem(p)
      BY TreePlaces, VpnFacts, OutsideTrees, ProcPlacesApart
    <3> QED  BY <3>1, <3>2, <1>3 DEF Still
  <2>3. ptr[Table(s, PDX(n))] # NoPage
    BY <1>1, <1>s, <1>n DEF NoTable
  <2>4. HasTables(s)'
    <3>1. \A v \in Vpn : v # n => ptr'[Pte(s, v)] = ptr[Pte(s, v)]
      BY <1>f DEF Still
    <3>2. \A v \in Vpn : ptr[Pte(s, v)] # NoPage => ptr[Table(s, PDX(v))] # NoPage
      BY <1>t, <1>s DEF HasTables, Mapped
    <3> QED  BY <2>1, <2>2, <2>3, <3>1, <3>2 DEF HasTables, Mapped
  <2>5. ASSUME NEW v \in Vpn PROVE ptr'[Pte(s, v)] # NoPage <=> v < n + 1
    <3>1. v < n + 1 <=> v < n \/ v = n
      BY <1>n, VpnFacts, OneMore
    <3>2. ptr[Pte(s, v)] # NoPage <=> v < n
      BY <1>t, <1>s, <1>n DEF Upto
    <3> QED  BY <1>3, <1>t, <1>f, <3>1, <3>2 DEF Still
  <2> QED  BY <2>4, <2>5 DEF Upto
<1>4. Control(p)'
  BY <1>t, <1>1, <1>2, ControlGoes, SMT
<1>5. Directory(p)'
  <2>1. ~Early(p)' /\ pc'[p] # "mappages" /\ pc'[p] # "kmap" /\ pc'[p] # "userinit" /\ Done(p)' = n + 1
        /\ (Builds(p)' <=> Builds(p)) /\ np(p)' = np(p)
    BY <1>1, <1>2, <1>n, SMT DEF Early, Done, Builds, np
  <2>2. Builds(p) => ptr'[Kstack(np(p))] # NoPage
    BY <1>1, <1>t, <1>f DEF Directory, Still
  <2> QED  BY <1>s, <1>3, <1>h, <2>1, <2>2 DEF Directory
<1>p. SameProc(p)
  BY <1>1 DEF procs, SameProc
<1>6. Work(p)'
  <2>1. Boot(p)'
    <3> SUFFICES ASSUME op[p] = "boot" PROVE at'[p] = 1 /\ new'[p] = 0 /\ Filled(s, 0, 1, Texts)' /\ Flags(s, 0, 1, -1)' /\ pc'[p] = "allocuvm"
      BY <1>1, <1>s DEF Boot, Texts
    <3>1. n = 0 /\ n + 1 = 1 /\ new'[p] = 0 /\ cont[ptr[Mem(p)]] = "text" /\ Texts[n] = "text" /\ n # -1
      BY <1>1, <1>n, <1>u, SMT DEF Work, Boot, Texts
    <3>2. Filled(s, 0, n, Texts) /\ Flags(s, 0, n, -1)
      <4>1. \A v \in Vpn : ~(v < 0)
        BY VpnFacts, SMT
      <4> QED  BY <3>1, <4>1 DEF Filled, Flags
    <3>3. Filled(s, 0, n + 1, Texts)' /\ Flags(s, 0, n + 1, -1)'
      BY <1>b, <1>c, <1>g, <1>n, <3>1, <3>2, RangeGrows DEF Texts
    <3> QED  BY <1>2, <1>n, <3>1, <3>3
  <2>2. Copy(p)'
    <3> SUFFICES ASSUME op[p] = "fork"
                 PROVE  n + 1 <= Pages(sz[p]) /\ Filled(s, 0, n + 1, view[p])' /\ Flags(s, 0, n + 1, guard[p])' /\ pc'[p] # "mappages"
      BY <1>1, <1>2, <1>s, <1>n, <1>p DEF Copy, SameProc
    <3>1. n < Pages(sz[p]) /\ Filled(s, 0, n, view[p]) /\ Flags(s, 0, n, guard[p]) /\ cont[ptr[Mem(p)]] = view[p][n]
      BY <1>1, <1>s, <1>n, <1>u DEF Work, Copy, Middle
    <3>2. Pte(Cur(p), n) \in user <=> n # guard[p]
      <4>1. Flags(Cur(p), 0, Pages(sz[p]), guard[p])
        BY <1>t, <1>u DEF Slot, Control, Live
      <4>2. 0 <= n
        BY <1>n, SMT
      <4> QED  BY <3>1, <4>1, <4>2 DEF Flags
    <3>3. PICK f, g : f = view[p] /\ f = view'[p] /\ g = guard[p] /\ g = guard'[p]
      BY <1>p DEF SameProc
    <3>4. Filled(s, 0, n + 1, f)' /\ Flags(s, 0, n + 1, g)'
      BY <1>b, <1>c, <1>g, <1>n, <3>1, <3>2, <3>3, RangeGrows
    <3>5. n + 1 <= Pages(sz[p]) /\ pc'[p] # "mappages"
      <4>1. Pages(sz[p]) \in Nat
        BY <1>u, PagesBounds
      <4>2. pc'[p] # "mappages"
        BY <1>2
      <4> QED  BY <1>n, <3>1, <4>1, <4>2, NextLeq
    <3> QED  BY <3>3, <3>4, <3>5
  <2>3. Grow(p)'
    <3> SUFFICES ASSUME op[p] = "grow"
                 PROVE  /\ sz[p] <= new[p] /\ new[p] < KERNBASE /\ Pages(sz[p]) <= n + 1 /\ n + 1 <= Pages(new[p]) /\ pc'[p] # "mappages"
                        /\ Filled(s, Pages(sz[p]), n + 1, Zeros)' /\ Flags(s, Pages(sz[p]), n + 1, -1)'
      BY <1>1, <1>2, <1>s, <1>n, <1>p DEF Grow, Growing, SameProc
    <3>1. /\ sz[p] <= new[p] /\ new[p] < KERNBASE /\ Pages(sz[p]) <= n /\ n < Pages(new[p]) /\ cont[ptr[Mem(p)]] = "zero"
          /\ Filled(s, Pages(sz[p]), n, Zeros) /\ Flags(s, Pages(sz[p]), n, -1)
      BY <1>1, <1>s, <1>n, <1>u DEF Work, Grow, Growing
    <3>2. PICK m \in Nat : m = Pages(sz[p]) /\ m = Pages(sz[p])'
      BY <1>p, <1>u, PagesBounds DEF SameProc
    <3>3. Zeros[n] = "zero" /\ n # -1
      BY <1>n, SMT DEF Zeros
    <3>4. Filled(s, m, n + 1, Zeros)' /\ Flags(s, m, n + 1, -1)'
      BY <1>b, <1>c, <1>g, <1>n, <3>1, <3>2, <3>3, RangeGrows DEF Zeros
    <3>5. m <= n + 1 /\ n + 1 <= Pages(new[p]) /\ pc'[p] # "mappages"
      <4>1. Pages(new[p]) \in Nat
        BY <1>u, PagesBounds
      <4>2. pc'[p] # "mappages"
        BY <1>2
      <4> QED  BY <1>n, <3>1, <3>2, <4>1, <4>2, NextLeq
    <3> QED  BY <3>1, <3>2, <3>4, <3>5 DEF Zeros
  <2>4. Load(p)'
    <3> SUFFICES ASSUME op[p] = "exec" PROVE Load(p)'
      BY <1>1 DEF Load
    <3>1. /\ new[p] < KERNBASE /\ n < Pages(new[p]) /\ (Loading(p) => Fits(p)) /\ cont[ptr[Mem(p)]] = "zero" /\ Flags(s, 0, n, -1)
          /\ (~Loading(p) => Pages(new[p]) >= 2 /\ Filled(s, Pages(new[p]) - 2, n, Zeros))
      BY <1>1, <1>s, <1>n, <1>u DEF Work, Load, Middle, Done, Stacked
    <3>2. PICK m \in Nat : m = Pages(new[p]) /\ m = Pages(new[p])'
      BY <1>1, <1>u, PagesBounds
    <3>3. Zeros[n] = "zero" /\ n # -1
      BY <1>n, SMT DEF Zeros
    <3>4. Flags(s, 0, n + 1, -1)'
      BY <1>b, <1>g, <1>n, <3>1, <3>3, RangeGrows
    <3>5. ~Loading(p) => Filled(s, m - 2, n + 1, Zeros)'
      BY <1>b, <1>c, <1>n, <3>1, <3>2, <3>3, RangeGrows DEF Zeros
    <3>6. n + 1 <= m
      <4>1. n \in Nat /\ m \in Nat /\ n < m
        BY <1>n, <3>1, <3>2
      <4> QED  BY <4>1, SMT
    <3>7. pc'[p] = "allocuvm" /\ Done(p)' = n + 1 /\ at'[p] = n + 1 /\ (Loading(p)' <=> Loading(p)) /\ (Fits(p)' <=> Fits(p)) /\ (Stacked(p)' <=> ~Loading(p))
      BY <1>1, <1>2, <1>n, SMT DEF Done, Loading, Fits, Segment, Stacked
    <3> QED  BY <1>1, <1>s, <3>1, <3>2, <3>4, <3>5, <3>6, <3>7 DEF Load, Zeros
  <2> QED  BY <1>5, <2>1, <2>2, <2>3, <2>4 DEF Work
<1>7. \A b \in Place : b \notin Tree(dst[p]) /\ b # Mem(p) /\ ~(b = Kstack(p) /\ state[p] = "embryo") => Still(b)
  BY <1>3, <1>s, TreePlaces
<1>8. ASSUME op[p] = "grow" PROVE Slot(p)'
  <2>1. dst[p] = Cur(p) /\ Growing(p) /\ Growing(p)' /\ Cur(p)' = s /\ Cur(p) = s
    BY <1>8, <1>1, <1>2, <1>s, <1>t, SMT DEF Control, Growing, procs, Cur
  <2>2. StillTree(Other(p))
    <3>1. Other(p) # s
      BY <2>1, <1>u
    <3>2. \A b \in Place : b \notin Tree(s) /\ b # Mem(p) /\ b # Kstack(p) => Still(b)
      BY <1>7, <1>s
    <3> QED  BY <1>u, <3>1, <3>2, OtherTreesStill
  <2>3. \A v \in Vpn : v < Pages(sz[p]) => Still(Pte(s, v))
    <3>1. Pages(sz[p]) <= n
      BY <1>n, <1>u, <2>1 DEF Work, Grow
    <3>2. \A v \in Vpn : v < Pages(sz[p]) => v < n
      BY <3>1, <1>n, <1>u, VpnFacts, PagesBounds, NextLeq
    <3> QED  BY <1>b, <3>2
  <2> QED  BY <1>1, <1>f, <1>h, <2>1, <2>2, <2>3, GrowSlot
<1> QED  BY <1>1, <1>2, <1>3, <1>4, <1>6, <1>7, <1>8, <1>t, CallStep

(* A page for mem, to be mapped next. *)
LEMMA TakeMem ==
  ASSUME VmInv, NEW p \in Proc, NEW c \in Contents, Middle(p), pc[p] # "mappages", at[p] = Done(p), op[p] \in {"boot", "fork", "grow", "exec"},
         kalloc(Mem(p), c), pc' = [pc EXCEPT ![p] = "mappages"], procs' = procs, locals' = locals, ret' = ret, calls' = calls,
         op[p] = "boot" => at[p] = 0 /\ new[p] = 0 /\ c = "text",
         op[p] = "fork" => at[p] < Pages(sz[p]) /\ c = view[p][at[p]],
         op[p] = "grow" => at[p] < Pages(new[p]) /\ c = "zero" /\ pc[p] = "allocuvm",
         op[p] = "exec" => at[p] < Pages(new[p]) /\ c = "zero" /\ pc[p] = "allocuvm"
  PROVE  VmInv'
<1>t. /\ at[p] \in Nat /\ new[p] \in Nat /\ sz[p] \in Nat /\ dst[p] \in Space /\ np(p) \in Proc /\ cur[p] \in {0, 1}
      /\ Control(p) /\ Work(p) /\ Slot(p)
  BY ProcFacts
<1>m. MemOK /\ LocalTypes
  BY InvParts
<1>1. op' = op /\ dst' = dst /\ at' = at /\ new' = new /\ rest' = rest
  BY DEF locals
<1>2. LocalTypes' /\ pc'[p] = "mappages" /\ \A r \in Proc : r # p => SameLocals(r)
  <2>1. "mappages" \in PCs
    BY DEF PCs
  <2>2. LocalTypes' /\ \A r \in Proc : r # p => SameLocals(r)
    BY <1>1, <1>m, <2>1, LocalsGo
  <2> QED  BY <1>m, <2>1, <2>2, Update DEF LocalTypes
<1>3. /\ MemOK' /\ ptr'[Mem(p)] # NoPage /\ cont'[ptr'[Mem(p)]] = c /\ \A b \in Place : b # Mem(p) => Still(b)
  <2>1. ptr[Mem(p)] = NoPage
    BY <1>t DEF Work, Directory
  <2> QED  BY <1>m, <2>1, ProcPlaces, kallocFacts
<1>f. (\A t \in Space : StillTree(t)) /\ \A q \in Proc : Still(Kstack(q))
  <2>1. ASSUME NEW t \in Space, NEW a \in Tree(t) PROVE Still(a)
    BY <1>3, TreePlaces, OutsideTrees
  <2>2. ASSUME NEW q \in Proc PROVE Still(Kstack(q))
    BY <1>3, ProcPlaces, ProcPlacesApart
  <2> QED  BY <2>1, <2>2 DEF StillTree
<1>s. PICK s \in Space : s = dst[p] /\ s = dst'[p] /\ StillTree(s)
  BY <1>t, <1>1, <1>f
<1>n. PICK n \in Nat : n = at[p] /\ n = at'[p] /\ n = Done(p) /\ n = Done(p)'
  BY <1>t, <1>1, <1>2 DEF Done
<1>p. SameProc(p)
  BY DEF procs, SameProc
<1>h. HasTables(s) /\ Upto(s, n) /\ HasTables(s)' /\ Upto(s, n)' /\ \A v \in Vpn : Still(Pte(s, v))
  <2>1. HasTables(s) /\ Upto(s, n)
    BY <1>t, <1>s, <1>n DEF Work, Directory
  <2> QED  BY <1>s, <2>1, SpaceKept, UptoKept
<1>b. \A v \in Vpn : v < n => ptr[Pte(s, v)] # NoPage
  BY <1>h DEF Upto
<1> USE <1>t, <1>1, <1>2, <1>3, <1>f, <1>s, <1>n, <1>p, <1>h, <1>b
<1>4. Control(p)'
  BY ControlGoes
<1>5. Directory(p)'
  <2>1. ~Early(p)' /\ pc'[p] # "kmap" /\ pc'[p] # "userinit" /\ (Builds(p)' <=> Builds(p)) /\ np(p)' = np(p) /\ pc[p] # "userinit"
    BY DEF Early, Builds, np, Middle
  <2>2. Builds(p) => ptr'[Kstack(np(p))] # NoPage
    BY <2>1 DEF Work, Directory, Still
  <2> QED  BY <2>1, <2>2 DEF Directory
<1>6. Work(p)'
  <2>1. Boot(p)'
    BY DEF Boot
  <2>2. Copy(p)'
    <3> SUFFICES ASSUME op[p] = "fork"
                 PROVE  n < Pages(sz[p]) /\ Filled(s, 0, n, view[p])' /\ Flags(s, 0, n, guard[p])' /\ c = view[p][n] /\ n <= Pages(sz[p])
      BY DEF Copy, SameProc
    <3>1. n < Pages(sz[p]) /\ Filled(s, 0, n, view[p]) /\ Flags(s, 0, n, guard[p]) /\ c = view[p][n] /\ n <= Pages(sz[p])
      BY DEF Work, Copy
    <3>2. PICK f, g : f = view[p] /\ f = view'[p] /\ g = guard[p] /\ g = guard'[p]
      BY DEF SameProc
    <3>3. Filled(s, 0, n, f)' /\ Flags(s, 0, n, g)'
      BY <3>1, <3>2, RangeKept
    <3> QED  BY <3>1, <3>2, <3>3
  <2>3. Grow(p)'
    <3> SUFFICES ASSUME op[p] = "grow"
                 PROVE  /\ sz[p] <= new[p] /\ new[p] < KERNBASE /\ Pages(sz[p]) <= n /\ n <= Pages(new[p]) /\ n < Pages(new[p])
                        /\ c = "zero" /\ Filled(s, Pages(sz[p]), n, Zeros)' /\ Flags(s, Pages(sz[p]), n, -1)'
      BY DEF Grow, Growing, SameProc
    <3>1. /\ sz[p] <= new[p] /\ new[p] < KERNBASE /\ Pages(sz[p]) <= n /\ n <= Pages(new[p]) /\ n < Pages(new[p]) /\ c = "zero"
          /\ Filled(s, Pages(sz[p]), n, Zeros) /\ Flags(s, Pages(sz[p]), n, -1)
      BY DEF Work, Grow, Growing
    <3>2. PICK m \in Nat : m = Pages(sz[p]) /\ m = Pages(sz[p])'
      BY PagesBounds DEF SameProc
    <3>3. Filled(s, m, n, Zeros)' /\ Flags(s, m, n, -1)'
      BY <3>1, <3>2, RangeKept DEF Zeros
    <3> QED  BY <3>1, <3>2, <3>3 DEF Zeros
  <2>4. Load(p)'
    <3> SUFFICES ASSUME op[p] = "exec" PROVE Load(p)'
      BY DEF Load
    <3>1. /\ new[p] < KERNBASE /\ n < Pages(new[p]) /\ n <= Pages(new[p]) /\ (Loading(p) => Fits(p)) /\ c = "zero" /\ Flags(s, 0, n, -1)
          /\ (~Loading(p) => Pages(new[p]) >= 2 /\ Filled(s, Pages(new[p]) - 2, n, Zeros))
      BY DEF Work, Load, Middle, Done, Stacked
    <3>2. PICK m \in Nat : m = Pages(new[p]) /\ m = Pages(new[p])'
      BY PagesBounds
    <3>3. Flags(s, 0, n, -1)' /\ (~Loading(p) => Filled(s, m - 2, n, Zeros)')
      BY <3>1, <3>2, RangeKept DEF Zeros
    <3>4. (Loading(p)' <=> Loading(p)) /\ (Fits(p)' <=> Fits(p)) /\ (Stacked(p)' <=> ~Loading(p))
      BY DEF Loading, Fits, Segment, Stacked
    <3> QED  BY <3>1, <3>2, <3>3, <3>4 DEF Load, Zeros
  <2> QED  BY <1>5, <2>1, <2>2, <2>3, <2>4 DEF Work
<1>7. \A b \in Place : b \notin Tree(dst[p]) /\ b # Mem(p) /\ ~(b = Kstack(p) /\ state[p] = "embryo") => Still(b)
  OBVIOUS
<1>8. ASSUME op[p] = "grow" PROVE Slot(p)'
  <2>1. Growing(p) /\ Growing(p)' /\ Cur(p) \in Space /\ Other(p) \in Space
    BY <1>8, ProcFacts DEF Growing
  <2> QED  BY <1>8, <2>1, SlotKept
<1>9. op[p] # "none" /\ (op[p] \in {"grow", "shrink"} => Slot(p)')
  BY <1>8
<1> QED  BY <1>4, <1>6, <1>7, <1>9, CallStep

LEMMA StepCopyuvm ==
  ASSUME VmInv, NEW p \in Proc, copyuvm(p)
  PROVE  VmInv'
<1>1. /\ pc[p] = "copyuvm" /\ pc' = [pc EXCEPT ![p] = "mappages"] /\ at[p] < Pages(sz[p])
      /\ kalloc(Mem(p), cont[ptr[Pte(Cur(p), at[p])]]) /\ procs' = procs /\ locals' = locals /\ ret' = ret /\ calls' = calls
  BY DEF copyuvm, Goto, procs, locals
<1>t. at[p] \in Nat /\ sz[p] \in Nat /\ sz[p] < KERNBASE /\ Control(p) /\ Slot(p) /\ op[p] \in {"none", "boot", "fork", "grow", "shrink", "exec"}
  BY ProcFacts
<1>2. op[p] = "fork" /\ state[p] = "run"
  BY <1>1, <1>t DEF Control
<1>3. at[p] \in Vpn /\ at[p] \in Below(sz[p]) /\ 0 <= at[p]
  <2>1. at[p] \in Vpn /\ at[p] \in Below(sz[p])
    BY <1>1, <1>t, VpnFacts
  <2> QED  BY <1>t, <2>1, SMT
<1>4. ptr[Pte(Cur(p), at[p])] # NoPage /\ cont[ptr[Pte(Cur(p), at[p])]] = view[p][at[p]]
  BY <1>1, <1>t, <1>2, <1>3 DEF Slot, Live, Filled, Mapped
<1>5. cont[ptr[Pte(Cur(p), at[p])]] \in Contents
  <2>1. MemTypes /\ Cur(p) \in Space
    BY InvParts, ProcFacts DEF MemOK
  <2>2. Pte(Cur(p), at[p]) \in Place
    BY <1>3, <2>1, TreePlaces
  <2> QED  BY <1>4, <2>1, <2>2 DEF MemTypes
<1>6. Middle(p) /\ at[p] = Done(p)
  BY <1>1 DEF Middle, Done
<1>7. op[p] \in {"boot", "fork", "grow", "exec"} /\ pc[p] # "mappages" /\ op[p] # "boot" /\ op[p] # "grow" /\ op[p] # "exec"
  BY <1>1, <1>2
<1> QED  BY <1>1, <1>4, <1>5, <1>6, <1>7, TakeMem

LEMMA StepAllocuvmPage ==
  ASSUME VmInv, NEW p \in Proc, allocuvm_page(p)
  PROVE  VmInv'
<1>1. /\ pc[p] = "allocuvm" /\ pc' = [pc EXCEPT ![p] = "mappages"] /\ at[p] < Pages(new[p])
      /\ kalloc(Mem(p), "zero") /\ procs' = procs /\ locals' = locals /\ ret' = ret /\ calls' = calls
  BY DEF allocuvm_page, Goto, procs, locals
<1>t. at[p] \in Nat /\ new[p] \in Nat /\ Control(p) /\ Work(p) /\ op[p] \in {"none", "boot", "fork", "grow", "shrink", "exec"}
  BY ProcFacts
<1>2. op[p] \in {"boot", "grow", "exec"}
  BY <1>1, <1>t DEF Control
<1>3. op[p] # "boot"
  <2> SUFFICES ASSUME op[p] = "boot" PROVE FALSE
    OBVIOUS
  <2>1. at[p] = 1 /\ new[p] = 0
    BY <1>1, <1>t DEF Work, Boot
  <2> QED  BY <1>1, <2>1, Geometry, SMT
<1>4. Middle(p) /\ at[p] = Done(p) /\ "zero" \in Contents
  BY <1>1 DEF Middle, Done, Contents
<1>5. op[p] \in {"boot", "fork", "grow", "exec"} /\ pc[p] # "mappages" /\ op[p] # "fork"
  BY <1>1, <1>2
<1> QED  BY <1>1, <1>3, <1>4, <1>5, TakeMem

LEMMA StepInituvm ==
  ASSUME VmInv, inituvm
  PROVE  VmInv'
<1>1. /\ op[initproc] = "boot" /\ pc[initproc] = "segment" /\ pc' = [pc EXCEPT ![initproc] = "mappages"]
      /\ kalloc(Mem(initproc), "text") /\ procs' = procs /\ locals' = locals /\ ret' = ret /\ calls' = calls
  BY DEF inituvm, Goto, procs, locals
<1> USE <1>1
<1>t. initproc \in Proc /\ Work(initproc)
  BY ProcFacts, VmAssumption
<1>2. at[initproc] = 0 /\ new[initproc] = 0
  BY <1>t DEF Work, Boot
<1>3. Middle(initproc) /\ at[initproc] = Done(initproc) /\ "text" \in Contents
  BY <1>2, Geometry DEF Middle, Done, Contents
<1>4. /\ op[initproc] \in {"boot", "fork", "grow", "exec"} /\ pc[initproc] # "mappages"
      /\ op[initproc] # "fork" /\ op[initproc] # "grow" /\ op[initproc] # "exec"
  OBVIOUS
<1> QED  BY <1>2, <1>3, <1>4, <1>t, TakeMem

=============================================================================
