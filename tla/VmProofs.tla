------------------------------ MODULE VmProofs ------------------------------
(***************************************************************************)
(* Proofs about Vm, second part: the other steps of sbrk and exec, the     *)
(* steps that start and end the calls, and the theorems.                   *)
(***************************************************************************)
EXTENDS VmStepProofs

USE Zenon

-----------------------------------------------------------------------------
(* Steps inside sbrk and exec that only set the local variables.           *)

LEMMA KeepPages ==
  ASSUME VmInv, NEW p \in Proc, op[p] \in {"grow", "exec"}, pages' = pages, procs' = procs, op' = op, dst' = dst,
         LocalTypes', \A r \in Proc : r # p => SameLocals(r), Control(p)', Work(p)', Growing(p) => Growing(p)'
  PROVE  VmInv'
<1>t. Cur(p) \in Space /\ Other(p) \in Space /\ Slot(p) /\ cur[p] \in {0, 1} /\ sz[p] \in Nat
  BY ProcFacts
<1>m. MemOK
  BY InvParts
<1>1. MemOK' /\ \A b : Still(b)
  BY <1>m, PagesKept
<1> USE <1>1
<1>2. \A s : StillTree(s)
  BY DEF StillTree
<1>3. SameProc(p)
  BY DEF procs, SameProc
<1>4. Slot(p)'
  BY <1>t, <1>2, <1>3, SlotKept
<1>5. op[p] # "none"
  OBVIOUS
<1> QED  BY <1>4, <1>5, CallStep

LEMMA SpaceSame ==
  ASSUME MemOK, pages' = pages, NEW s \in Space
  PROVE  /\ HasTables(s) => HasTables(s)'
         /\ \A n : Upto(s, n) => Upto(s, n)'
         /\ \A m, n, g : Flags(s, m, n, g) => Flags(s, m, n, g)'
         /\ \A m, n, f : Filled(s, m, n, f) => Filled(s, m, n, f)'
         /\ \A p : Still(Mem(p)) /\ Still(Kstack(p))
BY PagesKept DEF pages, HasTables, Upto, Flags, Filled, Mapped

LEMMA StepGrowprocGrow ==
  ASSUME VmInv, NEW p \in Proc, growproc_grow(p)
  PROVE  VmInv'
<1>1. /\ pc[p] = "growproc" /\ op[p] = "grow" /\ allocuvm(p, sz[p], new[p]) /\ pages' = pages /\ procs' = procs
      /\ op' = op /\ dst' = dst /\ rest' = rest /\ ret' = ret /\ calls' = calls
  BY DEF growproc_grow, pages, procs
<1>t. /\ new[p] \in Nat /\ sz[p] \in Nat /\ sz[p] < KERNBASE /\ Control(p) /\ Work(p) /\ Slot(p)
  BY ProcFacts
<1>m. MemOK /\ LocalTypes
  BY InvParts
<1>2. PICK z \in Nat, n \in Nat :
         /\ pc' = [pc EXCEPT ![p] = "allocuvm"] /\ new' = [new EXCEPT ![p] = z] /\ at' = [at EXCEPT ![p] = n]
         /\ n = Pages(sz[p]) /\ sz[p] <= z /\ z < KERNBASE
  <2> DEFINE x == IF new[p] < sz[p] THEN sz[p] ELSE new[p]
  <2>1. pc' = [pc EXCEPT ![p] = "allocuvm"] /\ new' = [new EXCEPT ![p] = x] /\ at' = [at EXCEPT ![p] = Pages(sz[p])] /\ new[p] < KERNBASE
    BY <1>1 DEF allocuvm
  <2>2. x \in Nat /\ sz[p] <= x /\ x < KERNBASE /\ Pages(sz[p]) \in Nat
    BY <1>t, <2>1, PagesBounds, SMT
  <2> QED  BY <2>1, <2>2
<1>3. "allocuvm" \in PCs
  BY DEF PCs
<1>4. LocalTypes' /\ \A r \in Proc : r # p => SameLocals(r)
  BY <1>1, <1>2, <1>3, <1>m, LocalsGo
<1>5. pc'[p] = "allocuvm" /\ new'[p] = z /\ at'[p] = n
  BY <1>2, <1>3, <1>m, Update DEF LocalTypes
<1>s. PICK s \in Space : s = dst[p] /\ s = dst'[p] /\ s = Cur(p)
  BY <1>1, <1>t, ProcFacts DEF Control
<1>6. HasTables(s)' /\ Upto(s, n)' /\ ptr'[Mem(p)] = NoPage /\ ~Growing(p) /\ ~Builds(p)
  <2>1. HasTables(s) /\ Upto(s, n) /\ ptr[Mem(p)] = NoPage /\ ~Growing(p) /\ ~Builds(p)
    BY <1>1, <1>2, <1>s, <1>t DEF Slot, Control, Live, Growing, Work, Directory, Builds
  <2> QED  BY <1>1, <1>m, <2>1, SpaceSame DEF Still
<1>7. Directory(p)'
  <2>1. Done(p)' = n /\ ~Early(p)' /\ ~Builds(p)' /\ pc'[p] # "kmap" /\ pc'[p] # "userinit" /\ pc'[p] # "mappages"
    BY <1>1, <1>5, <1>6 DEF Done, Early, Builds
  <2> QED  BY <1>6, <1>s, <2>1 DEF Directory
<1>8. Grow(p)'
  <2>1. sz'[p] = sz[p] /\ n <= Pages(z) /\ \A v \in Vpn : ~(n <= v /\ v < n)
    BY <1>1, <1>2, <1>t, PagesMonotone, VpnFacts, SMT DEF procs
  <2>2. Filled(s, n, n, Zeros)' /\ Flags(s, n, n, -1)'
    BY <2>1 DEF Filled, Flags
  <2> QED  BY <1>2, <1>5, <1>s, <2>1, <2>2, SMT DEF Grow, Zeros
<1>9. Work(p)'
  <2>1. op'[p] = "grow"
    BY <1>1
  <2> QED  BY <1>7, <1>8, <2>1 DEF Work, Boot, Copy, Load
<1>10. Control(p)'
  BY <1>1, <1>5, <1>t, ControlGoes
<1> QED  BY <1>1, <1>4, <1>6, <1>9, <1>10, KeepPages

(* The test ph.vaddr + ph.memsz < ph.vaddr finds every overflow. *)
LEMMA SegmentEnds ==
  ASSUME NEW a \in 0 .. Word - 1, NEW m \in 0 .. Word - 1, NEW f \in 0 .. Word - 1, m >= f, (a + m) % Word >= a
  PROVE  a + f <= (a + m) % Word /\ (a + m) % Word \in Nat
<1>1. Word \in Nat /\ Word > 0
  BY Geometry, SMT
<1> HIDE DEF Word
<1>2. ASSUME NEW x \in Nat, x >= Word, x < 2 * Word PROVE x % Word = x - Word
  <2>1. x = Word * (x \div Word) + (x % Word) /\ x \div Word \in Int /\ x % Word \in 0 .. Word - 1
    BY <1>1, Z3T(60)
  <2>2. PICK q \in Int, r \in 0 .. Word - 1 : x = Word * q + r /\ r = x % Word
    BY <2>1
  <2>3. Word * q < Word * 2 /\ Word * 0 < Word * q
    BY <1>1, <1>2, <2>2, SMT
  <2>4. q < 2 /\ 0 < q
    BY <1>1, <2>3, TimesLess, SMT
  <2>5. q = 1 /\ Word * 1 = Word
    BY <1>1, <2>4, SMT
  <2>6. x = Word + r
    BY <2>2, <2>5
  <2>7. r = x - Word
    BY <1>1, <2>6, SMT
  <2> QED  BY <2>2, <2>7
<1>3. \A x \in Nat : x < Word => x % Word = x
  BY <1>1, Z3T(60)
<1>4. CASE a + m < Word
  BY <1>1, <1>3, <1>4, SMT
<1>5. CASE a + m >= Word
  <2>1. (a + m) % Word = a + m - Word
    BY <1>1, <1>2, <1>5, SMT
  <2> QED  BY <1>1, <2>1, SMT
<1> QED  BY <1>1, <1>4, <1>5, SMT

LEMMA HeadTail ==
  ASSUME NEW S, NEW s \in Seq(S), s # <<>>
  PROVE  Head(s) \in S /\ Tail(s) \in Seq(S)
BY SMT

(* What exec has built before it reads the next segment. *)
LEMMA AtSegment ==
  ASSUME VmInv, NEW p \in Proc, op[p] = "exec", pc[p] = "segment"
  PROVE  /\ new[p] \in Nat /\ new[p] < KERNBASE /\ dst[p] \in Space /\ HasTables(dst[p]) /\ Upto(dst[p], Pages(new[p]))
         /\ Flags(dst[p], 0, Pages(new[p]), -1) /\ ptr[Mem(p)] = NoPage
         /\ Loading(p) => /\ Segment(p).vaddr \in 0 .. Word - 1 /\ Segment(p).memsz \in 0 .. Word - 1
                          /\ Segment(p).filesz \in 0 .. Word - 1
<1>1. new[p] \in Nat /\ dst[p] \in Space /\ Work(p) /\ rest[p] \in Files
  BY ProcFacts, InvParts DEF LocalTypes
<1> USE <1>1
<1>2. Loading(p) => Segment(p) \in [vaddr : 0 .. Word - 1, memsz : 0 .. Word - 1, filesz : 0 .. Word - 1, short : BOOLEAN]
  BY HeadTail DEF Loading, Segment, Files
<1>3. Middle(p) /\ Done(p) = Pages(new[p])
  BY DEF Middle, Done
<1>4. HasTables(dst[p]) /\ Upto(dst[p], Pages(new[p])) /\ ptr[Mem(p)] = NoPage
  BY <1>3 DEF Work, Directory
<1>5. new[p] < KERNBASE /\ Flags(dst[p], 0, Pages(new[p]), -1)
  BY <1>3 DEF Work, Load
<1> QED  BY <1>2, <1>4, <1>5

LEMMA StepExecAlloc ==
  ASSUME VmInv, NEW p \in Proc, exec_alloc(p)
  PROVE  VmInv'
<1>1. /\ pc[p] = "segment" /\ op[p] = "exec" /\ pages' = pages /\ procs' = procs
      /\ op' = op /\ dst' = dst /\ rest' = rest /\ ret' = ret /\ calls' = calls
  BY DEF exec_alloc, pages, procs
<1>t. /\ new[p] \in Nat /\ new[p] < KERNBASE /\ dst[p] \in Space /\ HasTables(dst[p]) /\ Upto(dst[p], Pages(new[p]))
      /\ Flags(dst[p], 0, Pages(new[p]), -1) /\ ptr[Mem(p)] = NoPage
  BY <1>1, AtSegment
<1>m. MemOK /\ LocalTypes /\ Control(p)
  BY InvParts
<1>2. PICK z \in Nat, n \in Nat :
         /\ pc' = [pc EXCEPT ![p] = "allocuvm"] /\ new' = [new EXCEPT ![p] = z] /\ at' = [at EXCEPT ![p] = n]
         /\ z < KERNBASE /\ n = Pages(new[p]) /\ n <= Pages(z)
         /\ Loading(p) => Segment(p).vaddr + Segment(p).filesz <= z
         /\ ~Loading(p) => Pages(z) >= 2 /\ Pages(z) - 2 = n
  <2>1. CASE Loading(p)
    <3> DEFINE e == End(Segment(p))
               x == IF e < new[p] THEN new[p] ELSE e
    <3>1. /\ Segment(p).memsz >= Segment(p).filesz /\ e >= Segment(p).vaddr
          /\ pc' = [pc EXCEPT ![p] = "allocuvm"] /\ new' = [new EXCEPT ![p] = x] /\ at' = [at EXCEPT ![p] = Pages(new[p])] /\ e < KERNBASE
      BY <2>1 DEF exec_alloc, allocuvm
    <3>2. /\ Segment(p).vaddr \in 0 .. Word - 1 /\ Segment(p).memsz \in 0 .. Word - 1 /\ Segment(p).filesz \in 0 .. Word - 1
      BY <1>1, <2>1, AtSegment
    <3>3. e \in Nat /\ Segment(p).vaddr + Segment(p).filesz <= e
      BY <3>1, <3>2, SegmentEnds DEF End
    <3> HIDE DEF e
    <3>4. x \in Nat /\ x < KERNBASE /\ new[p] <= x /\ e <= x
      BY <1>t, <3>1, <3>3, SMT
    <3>5. Segment(p).vaddr + Segment(p).filesz <= x
      BY <3>2, <3>3, <3>4, SMT
    <3>6. Pages(new[p]) <= Pages(x) /\ Pages(new[p]) \in Nat
      BY <1>t, <3>4, PagesMonotone, PagesBounds
    <3> QED  BY <2>1, <3>1, <3>4, <3>5, <3>6
  <2>2. CASE ~Loading(p)
    <3>1. PICK n \in Nat : n = Pages(new[p])
      BY <1>t, PagesBounds
    <3> DEFINE e == (n + 2) * PGSIZE
    <3>2. /\ pc' = [pc EXCEPT ![p] = "allocuvm"] /\ new' = [new EXCEPT ![p] = IF e < n * PGSIZE THEN n * PGSIZE ELSE e]
          /\ at' = [at EXCEPT ![p] = Pages(n * PGSIZE)] /\ e < KERNBASE
      BY <2>2, <3>1 DEF exec_alloc, allocuvm
    <3>3. e \in Nat /\ Pages(e) = n + 2 /\ Pages(n * PGSIZE) = n
      <4>1. n + 2 \in Nat /\ (n + 2) * PGSIZE \in Nat
        BY Geometry, SMT
      <4> QED  BY <4>1, PagesTimes
    <3>4. ~(e < n * PGSIZE)
      BY Geometry, SMT
    <3>5. n <= Pages(e) /\ Pages(e) >= 2 /\ Pages(e) - 2 = n
      BY <3>3, SMT
    <3> HIDE DEF e
    <3>6. new' = [new EXCEPT ![p] = e] /\ at' = [at EXCEPT ![p] = n]
      BY <3>2, <3>3, <3>4
    <3> QED  BY <2>2, <3>1, <3>2, <3>3, <3>5, <3>6
  <2> QED  BY <2>1, <2>2
<1>3. "allocuvm" \in PCs
  BY DEF PCs
<1>4. LocalTypes' /\ \A r \in Proc : r # p => SameLocals(r)
  BY <1>1, <1>2, <1>3, <1>m, LocalsGo
<1>5. pc'[p] = "allocuvm" /\ new'[p] = z /\ at'[p] = n
  BY <1>2, <1>3, <1>m, Update DEF LocalTypes
<1>s. PICK s \in Space : s = dst[p] /\ s = dst'[p]
  BY <1>1, <1>t
<1>6. HasTables(s)' /\ Upto(s, n)' /\ Flags(s, 0, n, -1)' /\ ptr'[Mem(p)] = NoPage
  BY <1>1, <1>2, <1>s, <1>t, <1>m, SpaceSame DEF Still
<1>7. Directory(p)'
  <2>1. Done(p)' = n /\ ~Early(p)' /\ ~Builds(p)' /\ pc'[p] # "kmap" /\ pc'[p] # "userinit" /\ pc'[p] # "mappages"
    BY <1>1, <1>5, <1>6 DEF Done, Early, Builds
  <2> QED  BY <1>6, <1>s, <2>1 DEF Directory
<1>8. Load(p)'
  <2>1. (Loading(p)' <=> Loading(p)) /\ Segment(p)' = Segment(p) /\ Done(p)' = n
    BY <1>1, <1>5 DEF Loading, Segment, Done
  <2>2. \A v \in Vpn : ~(n <= v /\ v < n)
    BY <1>2, VpnFacts, SMT
  <2>3. Filled(s, n, n, Zeros)'
    BY <2>2 DEF Filled
  <2>4. /\ pc'[p] # "commit" /\ pc'[p] # "copyout" /\ pc'[p] # "mappages" /\ pc'[p] # "loaduvm"
        /\ Loading(p) => Fits(p)' /\ ~Stacked(p)'
    BY <1>2, <1>5, <2>1 DEF Stacked, Fits
  <2>5. ~Loading(p) => Pages(new[p])' >= 2 /\ Filled(s, Pages(z) - 2, n, Zeros)'
    BY <1>2, <1>5, <2>3 DEF Zeros
  <2> QED  BY <1>2, <1>5, <1>6, <1>s, <2>1, <2>4, <2>5 DEF Load, Zeros
<1>9. Work(p)'
  <2>1. op'[p] = "exec" /\ ~Growing(p)'
    BY <1>1 DEF Growing
  <2> QED  BY <1>7, <1>8, <2>1 DEF Work, Boot, Copy, Grow
<1>10. Control(p)'
  BY <1>1, <1>5, <1>m, ControlGoes
<1>11. ~Growing(p)
  BY <1>1 DEF Growing
<1> QED  BY <1>1, <1>4, <1>9, <1>10, <1>11, KeepPages

LEMMA StepExecAllocated ==
  ASSUME VmInv, NEW p \in Proc, exec_allocated(p)
  PROVE  VmInv'
<1>1. /\ pc[p] = "allocuvm" /\ op[p] = "exec" /\ at[p] >= Pages(new[p]) /\ pages' = pages /\ procs' = procs /\ locals' = locals
      /\ pc' = [pc EXCEPT ![p] = IF Loading(p) THEN "loaduvm" ELSE "copyout"] /\ ret' = ret /\ calls' = calls
  BY DEF exec_allocated, Goto, pages, procs, locals
<1>2. op' = op /\ dst' = dst /\ at' = at /\ new' = new /\ rest' = rest
  BY <1>1 DEF locals
<1>t. new[p] \in Nat /\ at[p] \in Nat /\ dst[p] \in Space /\ Control(p) /\ Work(p)
  BY ProcFacts
<1> USE <1>1, <1>2, <1>t
<1>m. MemOK /\ LocalTypes
  BY InvParts
<1>3. PICK x \in PCs : x = IF Loading(p) THEN "loaduvm" ELSE "copyout"
  BY DEF PCs
<1>4. LocalTypes' /\ (\A r \in Proc : r # p => SameLocals(r)) /\ pc'[p] = x
  <2>1. LocalTypes' /\ (\A r \in Proc : r # p => SameLocals(r))
    BY <1>3, <1>m, LocalsGo
  <2> QED  BY <1>3, <1>m, <2>1, Update DEF LocalTypes
<1>s. PICK s \in Space : s = dst[p] /\ s = dst'[p]
  OBVIOUS
<1>n. PICK n \in Nat : n = Pages(new[p]) /\ n = Pages(new[p])' /\ n = at[p]
  <2>1. Pages(new[p]) \in Nat /\ at[p] <= Pages(new[p])
    BY PagesBounds DEF Work, Load, Middle
  <2>2. at[p] = Pages(new[p])
    BY <2>1, SMT
  <2> QED  BY <2>1, <2>2
<1>5. /\ Middle(p) /\ Done(p) = n /\ Middle(p)' /\ Done(p)' = n /\ ~Early(p)' /\ ~Builds(p)'
      /\ pc'[p] # "kmap" /\ pc'[p] # "userinit" /\ pc'[p] # "mappages" /\ pc'[p] # "commit" /\ pc'[p] # "allocuvm"
      /\ (pc'[p] = "loaduvm" <=> Loading(p)) /\ (Stacked(p)' <=> ~Loading(p)) /\ (Stacked(p) <=> ~Loading(p))
      /\ (Loading(p)' <=> Loading(p)) /\ Segment(p)' = Segment(p)
  BY <1>3, <1>4, <1>n DEF Middle, Done, Early, Builds, Stacked, Loading, Segment
<1> USE <1>5
<1>6. /\ HasTables(s) /\ Upto(s, n) /\ ptr[Mem(p)] = NoPage /\ Flags(s, 0, n, -1) /\ new[p] < KERNBASE
      /\ Loading(p) => Fits(p)
      /\ ~Loading(p) => n >= 2 /\ Filled(s, n - 2, n, Zeros)
  <2>1. HasTables(s) /\ Upto(s, n) /\ ptr[Mem(p)] = NoPage
    BY <1>s DEF Work, Directory
  <2>2. Flags(s, 0, n, -1) /\ new[p] < KERNBASE /\ (Loading(p) => Fits(p)) /\ (~Loading(p) => n >= 2 /\ Filled(s, n - 2, n, Zeros))
    BY <1>s, <1>n DEF Work, Load
  <2> QED  BY <2>1, <2>2
<1>7. /\ HasTables(s)' /\ Upto(s, n)' /\ ptr'[Mem(p)] = NoPage /\ Flags(s, 0, n, -1)'
      /\ ~Loading(p) => Filled(s, n - 2, n, Zeros)'
  BY <1>6, <1>m, SpaceSame DEF Still, Zeros
<1>8. Directory(p)'
  BY <1>7, <1>s DEF Directory
<1>9. Load(p)'
  <2>1. Loading(p) => Fits(p)'
    BY <1>6 DEF Fits
  <2> QED  BY <1>6, <1>7, <1>n, <1>s, <2>1 DEF Load, Zeros
<1>10. Work(p)'
  <2>1. op'[p] = "exec" /\ ~Growing(p)'
    BY DEF Growing
  <2> QED  BY <1>8, <1>9, <2>1 DEF Work, Boot, Copy, Grow
<1>11. Control(p)'
  BY <1>3, <1>4, ControlGoes
<1>12. ~Growing(p)
  BY DEF Growing
<1> QED  BY <1>4, <1>10, <1>11, <1>12, KeepPages

-----------------------------------------------------------------------------
(* exec reads a segment in and pushes the arguments.                       *)

LEMMA PtrSame ==
  ASSUME ptr' = ptr, NEW s
  PROVE  /\ HasTables(s) => HasTables(s)'
         /\ \A n : Upto(s, n) => Upto(s, n)'
         /\ \A m, n, g : user' = user /\ Flags(s, m, n, g) => Flags(s, m, n, g)'
BY DEF HasTables, Upto, Flags, Mapped

LEMMA StepLoaduvm ==
  ASSUME VmInv, NEW p \in Proc, loaduvm(p)
  PROVE  VmInv'
<1> DEFINE S == {ptr[Pte(dst[p], v)] : v \in {w \in Below(Segment(p).vaddr + Segment(p).filesz) : w * PGSIZE >= Segment(p).vaddr}}
<1>1. /\ pc[p] = "loaduvm" /\ pc' = [pc EXCEPT ![p] = "segment"] /\ rest' = [rest EXCEPT ![p] = Tail(rest[p])]
      /\ cont' = [pg \in Page |-> IF pg \in S THEN "text" ELSE cont[pg]]
      /\ ptr' = ptr /\ user' = user /\ free' = free /\ lost' = lost /\ procs' = procs /\ op' = op /\ dst' = dst
      /\ at' = at /\ new' = new /\ ret' = ret /\ calls' = calls
  BY DEF loaduvm, Goto, procs
<1>t. new[p] \in Nat /\ dst[p] \in Space /\ Control(p) /\ Work(p) /\ op[p] \in {"none", "boot", "fork", "grow", "shrink", "exec"}
  BY ProcFacts
<1>o. op[p] = "exec"
  BY <1>1, <1>t DEF Control
<1>m. MemOK /\ LocalTypes
  BY InvParts
<1>s. PICK s \in Space : s = dst[p] /\ s = dst'[p]
  BY <1>1, <1>t
<1>n. PICK n \in Nat : n = Pages(new[p]) /\ n = Pages(new[p])'
  BY <1>1, <1>t, PagesBounds
<1> USE <1>1, <1>t, <1>o, <1>m, <1>s, <1>n
<1>2. Middle(p) /\ Done(p) = n
  BY DEF Middle, Done
<1>3. HasTables(s) /\ Upto(s, n) /\ ptr[Mem(p)] = NoPage
  BY <1>2 DEF Work, Directory
<1>4. new[p] < KERNBASE /\ Flags(s, 0, n, -1) /\ Loading(p)
  BY <1>2 DEF Work, Load
<1>5. LocalTypes' /\ (\A r \in Proc : r # p => SameLocals(r)) /\ pc'[p] = "segment"
  <2>1. "segment" \in PCs /\ Tail(rest[p]) \in Files
    <3>1. rest[p] \in Files /\ rest[p] # <<>>
      BY <1>4 DEF LocalTypes, Loading
    <3>2. Tail(rest[p]) \in Files
      BY <3>1, HeadTail DEF Files
    <3> QED  BY <3>2 DEF PCs
  <2>2. LocalTypes' /\ (\A r \in Proc : r # p => SameLocals(r))
    BY <2>1, LocalsGo
  <2> QED  BY <2>1, <2>2, Update DEF LocalTypes
<1> USE <1>4, <1>5
<1>6. MemOK' /\ \A b \in Place : b \notin Tree(s) => Still(b)
  <2>1. "text" \in Contents
    BY DEF Contents
  <2>2. cont' \in [Page -> Contents] /\ \A x \in Page : cont'[x] # cont[x] => x \in S
    <3> HIDE DEF S
    <3>1. cont \in [Page -> Contents]
      BY DEF MemOK, MemTypes
    <3> QED  BY <2>1, <3>1
  <2>3. ASSUME NEW x \in S PROVE \E b \in Tree(s) : ptr[b] = x
    <3>1. PICK v \in Vpn : x = ptr[Pte(s, v)]
      BY DEF Below
    <3> QED  BY <3>1, TreePlaces
  <2>4. Tree(s) \in SUBSET Place
    BY TreePlaces
  <2> HIDE DEF S
  <2>5. user' \subseteq user /\ (\A a \in user : a \notin Tree(s) => a \in user')
    OBVIOUS
  <2>6. \A x \in Page : cont'[x] # cont[x] => \E b \in Tree(s) : ptr[b] = x
    BY <2>2, <2>3
  <2>7. cont' \in [Page -> Contents] /\ ptr' = ptr /\ free' = free /\ lost' = lost
    BY <2>2
  <2> QED  BY <2>4, <2>5, <2>6, <2>7, WriteFacts
<1> HIDE DEF S
<1>7. HasTables(s)' /\ Upto(s, n)' /\ ptr'[Mem(p)] = NoPage /\ Flags(s, 0, n, -1)'
  BY <1>3, PtrSame
<1>8. Directory(p)'
  <2>1. Done(p)' = n /\ ~Early(p)' /\ ~Builds(p)' /\ pc'[p] # "kmap" /\ pc'[p] # "userinit" /\ pc'[p] # "mappages"
    BY DEF Done, Early, Builds
  <2> QED  BY <1>7, <2>1 DEF Directory
<1>9. Load(p)'
  <2>1. Done(p)' = n /\ ~Stacked(p)' /\ pc'[p] # "allocuvm" /\ pc'[p] # "mappages" /\ pc'[p] # "loaduvm" /\ pc'[p] # "commit"
    BY DEF Done, Stacked
  <2> QED  BY <1>7, <2>1 DEF Load
<1>10. Work(p)'
  <2>1. op'[p] = "exec" /\ ~Growing(p)'
    BY DEF Growing
  <2> QED  BY <1>8, <1>9, <2>1 DEF Work, Boot, Copy, Grow
<1>11. Control(p)'
  BY ControlGoes
<1>12. op[p] # "none" /\ op[p] \notin {"grow", "shrink"}
  OBVIOUS
<1> QED  BY <1>6, <1>10, <1>11, <1>12, CallStep

LEMMA StepExecArgs ==
  ASSUME VmInv, NEW p \in Proc, exec_args(p)
  PROVE  VmInv'
<1>t. new[p] \in Nat /\ dst[p] \in Space /\ Control(p) /\ Work(p) /\ op[p] \in {"none", "boot", "fork", "grow", "shrink", "exec"}
  BY ProcFacts
<1>n. PICK n \in Nat : n = Pages(new[p])
  BY <1>t, PagesBounds
<1>s. PICK s \in Space : s = dst[p]
  BY <1>t
<1>1. /\ pc[p] = "copyout" /\ pc' = [pc EXCEPT ![p] = "commit"] /\ user' = user \ {Pte(s, n - 2)}
      /\ cont' = [cont EXCEPT ![ptr[Pte(s, n - 1)]] = "args"] /\ ptr' = ptr /\ free' = free /\ lost' = lost
      /\ procs' = procs /\ op' = op /\ dst' = dst /\ at' = at /\ new' = new /\ rest' = rest /\ ret' = ret /\ calls' = calls
  BY <1>n, <1>s DEF exec_args, Goto, procs, locals
<1>o. op[p] = "exec" /\ Middle(p) /\ Done(p) = n /\ Stacked(p)
  BY <1>1, <1>t, <1>n DEF Control, Middle, Done, Stacked
<1>m. MemOK /\ LocalTypes
  BY InvParts
<1> USE <1>t, <1>n, <1>s, <1>1, <1>o, <1>m
<1>2. HasTables(s) /\ Upto(s, n) /\ ptr[Mem(p)] = NoPage
  BY DEF Work, Directory
<1>3. new[p] < KERNBASE /\ Flags(s, 0, n, -1) /\ n >= 2 /\ Filled(s, n - 2, n, Zeros)
  BY DEF Work, Load
<1>4. /\ n - 1 \in Vpn /\ n - 2 \in Vpn /\ n - 1 < n /\ n - 2 < n /\ n - 2 # n - 1 /\ 0 <= n - 2 /\ n - 2 <= n - 2
      /\ \A v \in Vpn : (n - 2 <= v /\ v < n - 1 => v = n - 2) /\ 0 <= v /\ v # -1
  <2>1. n - 1 \in Nat /\ n - 2 \in Nat /\ n - 1 < n /\ n - 2 < n
    BY <1>3, SMT
  <2>2. n - 1 \in Vpn /\ n - 2 \in Vpn
    BY <1>3, <2>1, VpnFacts
  <2>3. \A v \in Vpn : v \in Nat
    BY VpnFacts
  <2> QED  BY <2>1, <2>2, <2>3, SMT
<1>5. /\ ptr[Pte(s, n - 1)] # NoPage /\ ptr[Pte(s, n - 2)] # NoPage /\ ptr[Pte(s, n - 1)] # ptr[Pte(s, n - 2)]
      /\ Pte(s, n - 1) \in Tree(s) /\ Pte(s, n - 2) \in Tree(s) /\ Pte(s, n - 1) \in Place /\ Pte(s, n - 2) \in Place
      /\ Pte(s, n - 1) # Pte(s, n - 2)
  <2>1. Pte(s, n - 1) \in Tree(s) /\ Pte(s, n - 2) \in Tree(s) /\ Pte(s, n - 1) \in Place /\ Pte(s, n - 2) \in Place
    BY <1>4, TreePlaces
  <2>2. ptr[Pte(s, n - 1)] # NoPage /\ ptr[Pte(s, n - 2)] # NoPage
    BY <1>2, <1>4 DEF Upto
  <2>3. Pte(s, n - 1) # Pte(s, n - 2)
    BY <1>4 DEF Pte
  <2> QED  BY <2>1, <2>2, <2>3 DEF MemOK, OnePlace
<1>6. LocalTypes' /\ (\A r \in Proc : r # p => SameLocals(r)) /\ pc'[p] = "commit"
  <2>1. "commit" \in PCs
    BY DEF PCs
  <2>2. LocalTypes' /\ (\A r \in Proc : r # p => SameLocals(r))
    BY <2>1, LocalsGo
  <2> QED  BY <2>1, <2>2, Update DEF LocalTypes
<1>7. /\ cont' \in [Page -> Contents] /\ \A x \in Page : x # ptr[Pte(s, n - 1)] => cont'[x] = cont[x]
  <2>1. "args" \in Contents
    BY DEF Contents
  <2>2. cont \in [Page -> Contents] /\ ptr[Pte(s, n - 1)] \in Page
    BY <1>5 DEF MemOK, MemTypes
  <2> QED  BY <2>1, <2>2, Update
<1> USE <1>3, <1>4, <1>5, <1>6, <1>7
<1>8. MemOK' /\ \A b \in Place : b \notin Tree(s) => Still(b)
  <2>1. Tree(s) \in SUBSET Place
    BY TreePlaces
  <2>2. user' \subseteq user /\ (\A a \in user : a \notin Tree(s) => a \in user')
    OBVIOUS
  <2>3. \A x \in Page : cont'[x] # cont[x] => \E b \in Tree(s) : ptr[b] = x
    OBVIOUS
  <2>4. cont' \in [Page -> Contents] /\ ptr' = ptr /\ free' = free /\ lost' = lost
    OBVIOUS
  <2> QED  BY <2>1, <2>2, <2>3, <2>4, WriteFacts
<1>9. Directory(p)'
  <2>1. Done(p)' = n /\ ~Early(p)' /\ ~Builds(p)' /\ pc'[p] # "kmap" /\ pc'[p] # "userinit" /\ pc'[p] # "mappages"
    BY DEF Done, Early, Builds
  <2>2. HasTables(s)' /\ Upto(s, n)' /\ ptr'[Mem(p)] = NoPage /\ s = dst'[p]
    BY <1>2, PtrSame
  <2> QED  BY <2>1, <2>2 DEF Directory
<1>10. Load(p)'
  <2>1. Flags(s, 0, n, n - 2)'
    <3>1. ASSUME NEW v \in Vpn, v < n PROVE Pte(s, v) \in user' <=> v # n - 2
      <4>1. Pte(s, v) \in user
        BY <3>1 DEF Flags
      <4>2. Pte(s, v) = Pte(s, n - 2) <=> v = n - 2
        BY DEF Pte
      <4> QED  BY <4>1, <4>2
    <3> QED  BY <3>1 DEF Flags
  <2>2. Filled(s, n - 2, n - 1, Zeros)'
    <3>1. cont'[ptr[Pte(s, n - 2)]] = cont[ptr[Pte(s, n - 2)]]
      BY DEF MemOK, MemTypes
    <3>2. cont[ptr[Pte(s, n - 2)]] = Zeros[n - 2]
      BY DEF Filled
    <3>3. \A v \in Vpn : n - 2 <= v /\ v < n - 1 => cont'[ptr'[Pte(s, v)]] = Zeros[v]
      BY <3>1, <3>2
    <3> QED  BY <3>3 DEF Filled, Zeros
  <2>3. /\ Done(p)' = n /\ ~Stacked(p)' /\ pc'[p] # "allocuvm" /\ pc'[p] # "mappages" /\ pc'[p] # "loaduvm" /\ Pages(new[p])' = n
        /\ s = dst'[p] /\ new'[p] < KERNBASE
    BY DEF Done, Stacked
  <2> QED  BY <2>1, <2>2, <2>3 DEF Load, Zeros
<1>11. Work(p)'
  <2>1. op'[p] = "exec" /\ ~Growing(p)'
    BY DEF Growing
  <2> QED  BY <1>9, <1>10, <2>1 DEF Work, Boot, Copy, Grow
<1>12. Control(p)'
  BY ControlGoes
<1>13. op[p] # "none" /\ op[p] \notin {"grow", "shrink"}
  OBVIOUS
<1> QED  BY <1>8, <1>11, <1>12, <1>13, CallStep

LEMMA StepUserinit ==
  ASSUME VmInv, userinit
  PROVE  VmInv'
<1>p. PICK p \in Proc : p = initproc
  BY VmAssumption
<1>1. /\ pc[p] = "userinit" /\ pc' = [pc EXCEPT ![p] = "setupkvm"] /\ kalloc(Kstack(p), "stack") /\ procs' = procs
      /\ op' = op /\ dst' = dst /\ at' = at /\ new' = new /\ rest' = rest /\ ret' = ret /\ calls' = calls
  BY <1>p DEF userinit, Goto, procs, locals
<1>t. dst[p] \in Space /\ Control(p) /\ Work(p) /\ op[p] \in {"none", "boot", "fork", "grow", "shrink", "exec"}
  BY ProcFacts
<1>o. op[p] = "boot" /\ state[p] = "embryo" /\ dst[p] = Cur(p) /\ np(p) = p
  BY <1>1, <1>t, SMT DEF Control, np, Cur
<1>m. MemOK /\ LocalTypes
  BY InvParts
<1>2. LocalTypes' /\ (\A r \in Proc : r # p => SameLocals(r)) /\ pc'[p] = "setupkvm"
  <2>1. "setupkvm" \in PCs
    BY DEF PCs
  <2>2. LocalTypes' /\ (\A r \in Proc : r # p => SameLocals(r))
    BY <1>1, <1>m, <2>1, LocalsGo
  <2> QED  BY <1>1, <1>m, <2>1, <2>2, Update DEF LocalTypes
<1>3. ptr[Kstack(p)] = NoPage /\ Blank(dst[p]) /\ new[p] = 0 /\ at[p] = 0 /\ ptr[Mem(p)] = NoPage
  BY <1>1, <1>t DEF Work, Directory, Early
<1>4. MemOK' /\ ptr'[Kstack(p)] # NoPage /\ \A b \in Place : b # Kstack(p) => Still(b)
  <2>1. "stack" \in Contents
    BY DEF Contents
  <2> QED  BY <1>1, <1>3, <1>m, <2>1, ProcPlaces, kallocFacts
<1> USE <1>1, <1>t, <1>o, <1>2, <1>3, <1>4
<1>s. PICK s \in Space : s = dst[p] /\ s = dst'[p]
  OBVIOUS
<1>5. Blank(s)' /\ ptr'[Mem(p)] = NoPage
  <2>1. StillTree(s)
    BY TreePlaces, OutsideTrees DEF StillTree
  <2>2. Still(Mem(p))
    BY ProcPlaces, ProcPlacesApart
  <2> QED  BY <1>s, <2>1, <2>2, SpaceKept DEF Still
<1>6. Work(p)'
  <2>1. /\ pc'[p] # "kmap" /\ ~Middle(p)' /\ pc'[p] # "userinit" /\ np(p)' = p /\ pc'[p] # "mappages" /\ op'[p] = "boot" /\ ~Growing(p)'
        /\ pc'[p] \notin {"segment", "mappages"} /\ pc'[p] # "allocuvm"
    BY DEF Middle, np, Growing
  <2>2. Directory(p)'
    BY <1>5, <1>s, <2>1 DEF Directory
  <2> QED  BY <2>1, <2>2 DEF Work, Boot, Copy, Grow, Load
<1>7. Control(p)'
  BY ControlGoes
<1>8. op[p] # "none" /\ op[p] \notin {"grow", "shrink"}
  OBVIOUS
<1> QED  BY <1>6, <1>7, <1>8, CallStep

-----------------------------------------------------------------------------
(* Steps that start or end a call.                                         *)

LEMMA Returned ==
  ASSUME LocalTypes, NEW p \in Proc, NEW r \in {0, -1}, Return(p, r), calls' \in Nat
  PROVE  /\ LocalTypes' /\ (\A x \in Proc : x # p => SameLocals(x))
         /\ pc'[p] = "user" /\ op'[p] = "none" /\ at'[p] = 0 /\ new'[p] = 0 /\ ret'[p] = r
<1>1. pc \in [Proc -> PCs] /\ op \in [Proc -> Ops] /\ dst \in [Proc -> Space] /\ at \in [Proc -> Nat] /\ new \in [Proc -> Nat]
      /\ rest \in [Proc -> Files] /\ ret \in [Proc -> {0, -1}]
  BY DEF LocalTypes
<1>2. "user" \in PCs /\ "none" \in Ops /\ <<p, 0>> \in Space /\ 0 \in Nat /\ <<>> \in Files
  BY SMT DEF PCs, Ops, Space, Files
<1> USE <1>1, <1>2
<1>3. pc' \in [Proc -> PCs] /\ pc'[p] = "user" /\ \A x \in Proc : x # p => pc'[x] = pc[x]
  BY Update DEF Return
<1>4. op' \in [Proc -> Ops] /\ op'[p] = "none" /\ \A x \in Proc : x # p => op'[x] = op[x]
  BY Update DEF Return
<1>5. dst' \in [Proc -> Space] /\ \A x \in Proc : x # p => dst'[x] = dst[x]
  BY Update DEF Return
<1>6. at' \in [Proc -> Nat] /\ at'[p] = 0 /\ \A x \in Proc : x # p => at'[x] = at[x]
  BY Update DEF Return
<1>7. new' \in [Proc -> Nat] /\ new'[p] = 0 /\ \A x \in Proc : x # p => new'[x] = new[x]
  BY Update DEF Return
<1>8. rest' \in [Proc -> Files] /\ \A x \in Proc : x # p => rest'[x] = rest[x]
  BY Update DEF Return
<1>9. ret' \in [Proc -> {0, -1}] /\ ret'[p] = r
  BY Update DEF Return
<1> QED  BY <1>3, <1>4, <1>5, <1>6, <1>7, <1>8, <1>9 DEF LocalTypes, SameLocals

(* A process in no call. *)
LEMMA Idle ==
  ASSUME NEW p \in Proc, pc'[p] = "user", op'[p] = "none", at'[p] = 0, new'[p] = 0, ptr'[Mem(p)] = NoPage
  PROVE  Control(p)' /\ Work(p)'
<1>1. /\ op'[p] # "boot" /\ op'[p] # "fork" /\ op'[p] # "grow" /\ op'[p] # "shrink" /\ op'[p] # "exec" /\ pc'[p] # "kmap"
      /\ pc'[p] # "userinit" /\ pc'[p] # "mappages" /\ ~Early(p)' /\ ~Middle(p)' /\ ~Builds(p)' /\ ~Growing(p)'
  BY DEF Early, Middle, Builds, Growing
<1>2. Control(p)'
  BY <1>1 DEF Control
<1>3. Directory(p)' /\ Boot(p)' /\ Copy(p)' /\ Grow(p)' /\ Load(p)'
  BY <1>1 DEF Directory, Boot, Copy, Grow, Load
<1> QED  BY <1>2, <1>3 DEF Work

(* What makes up the memory of a live process. *)
LEMMA SlotIs ==
  ASSUME NEW r \in Proc, NEW s \in Space, NEW n \in Nat, NEW f, NEW g, s = Cur(r)', sz'[r] \in Nat, n = Pages(sz'[r]),
         f = view'[r], g = guard'[r], state'[r] \in {"run", "zombie"}, ptr'[Kstack(r)] # NoPage, HasTables(s)', Upto(s, n)',
         Filled(s, 0, n, f)', Flags(s, 0, n, g)', g = -1 \/ (g \in Vpn /\ g < n /\ f[g] = "zero"), Blank(Other(r))'
  PROVE  Slot(r)'
<1>1. \A v \in Vpn : v \in Below(sz'[r]) <=> v < n
  BY VpnFacts
<1>2. (Below(sz[r]) \subseteq Mapped(Cur(r)))'
  <2>1. \A v \in Vpn : v < n => ptr'[Pte(s, v)] # NoPage
    BY DEF Upto
  <2>2. \A v \in Below(sz'[r]) : v \in Vpn
    BY DEF Below
  <2> QED  BY <1>1, <2>1, <2>2 DEF Mapped
<1>3. (guard[r] = -1 \/ (guard[r] \in Below(sz[r]) /\ view[r][guard[r]] = "zero"))'
  BY <1>1
<1>4. state'[r] # "unused"
  OBVIOUS
<1> QED  BY <1>2, <1>3, <1>4 DEF Slot

(* What a live process whose memory is left alone keeps. *)
LEMMA SlotLive ==
  ASSUME NEW r \in Proc, cur[r] \in {0, 1}, sz[r] \in Nat, Slot(r), cur'[r] = cur[r], sz'[r] = sz[r], view'[r] = view[r],
         guard'[r] = guard[r], Live(r), state'[r] \in {"run", "zombie"}, ~Growing(r), Blank(Other(r))',
         StillTree(Cur(r)), Still(Kstack(r))
  PROVE  Slot(r)'
<1>1. PICK s \in Space : s = Cur(r) /\ s = Cur(r)'
  BY DEF Cur, Space
<1>2. PICK n \in Nat : n = Pages(sz[r]) /\ n = Pages(sz'[r])
  BY PagesBounds
<1> USE <1>1, <1>2
<1>3. PICK f, g : f = view[r] /\ f = view'[r] /\ g = guard[r] /\ g = guard'[r]
  OBVIOUS
<1>4. /\ ptr[Kstack(r)] # NoPage /\ HasTables(s) /\ Upto(s, n) /\ Filled(s, 0, n, f) /\ Flags(s, 0, n, g)
      /\ g = -1 \/ (g \in Vpn /\ g < n /\ f[g] = "zero")
  <2>1. \A v \in Below(sz[r]) : v \in Vpn /\ v < n
    BY DEF Below
  <2> QED  BY <1>3, <2>1 DEF Slot
<1> USE <1>4
<1>5. HasTables(s)' /\ Upto(s, n)' /\ Filled(s, 0, n, f)' /\ Flags(s, 0, n, g)'
  <2>1. \A v \in Vpn : Still(Pte(s, v))
    BY SpaceKept
  <2>2. \A v \in Vpn : v < n => ptr[Pte(s, v)] # NoPage
    BY DEF Upto
  <2> QED  BY <2>1, <2>2, SpaceKept, UptoKept, RangeKept
<1>6. ptr'[Kstack(r)] # NoPage /\ sz'[r] \in Nat
  BY DEF Still
<1> QED  BY <1>3, <1>5, <1>6, SlotIs

LEMMA ProcsSame ==
  ASSUME ProcTypes, procs' = procs
  PROVE  ProcTypes' /\ \A r \in Proc : SameProc(r)
BY DEF procs, ProcTypes, SameProc

(* Only the process p changes. *)
LEMMA ProcGoes ==
  ASSUME ProcTypes, NEW p \in Proc,
         cur' = cur \/ \E c \in {0, 1} : cur' = [cur EXCEPT ![p] = c],
         sz' = sz \/ \E k \in 0 .. KERNBASE - 1 : sz' = [sz EXCEPT ![p] = k],
         state' = state \/ \E x \in {"unused", "embryo", "run", "zombie"} : state' = [state EXCEPT ![p] = x],
         view' = view \/ \E f \in [Vpn -> Contents \cup {"none"}] : view' = [view EXCEPT ![p] = f],
         guard' = guard \/ \E g \in Int : guard' = [guard EXCEPT ![p] = g]
  PROVE  ProcTypes' /\ \A r \in Proc : r # p => SameProc(r)
<1>0. cur \in [Proc -> {0, 1}] /\ sz \in [Proc -> 0 .. KERNBASE - 1] /\ state \in [Proc -> {"unused", "embryo", "run", "zombie"}]
      /\ view \in [Proc -> [Vpn -> Contents \cup {"none"}]] /\ guard \in [Proc -> Int]
  BY DEF ProcTypes
<1>1. cur' \in [Proc -> {0, 1}] /\ \A r \in Proc : r # p => cur'[r] = cur[r]
  BY <1>0, SMT
<1>2. sz' \in [Proc -> 0 .. KERNBASE - 1] /\ \A r \in Proc : r # p => sz'[r] = sz[r]
  BY <1>0, SMT
<1>3. state' \in [Proc -> {"unused", "embryo", "run", "zombie"}] /\ \A r \in Proc : r # p => state'[r] = state[r]
  BY <1>0, SMT
<1>4. view' \in [Proc -> [Vpn -> Contents \cup {"none"}]] /\ \A r \in Proc : r # p => view'[r] = view[r]
  <2>1. CASE view' = view
    BY <1>0, <2>1
  <2>2. CASE view' # view
    <3>1. PICK f \in [Vpn -> Contents \cup {"none"}] : view' = [view EXCEPT ![p] = f]
      BY <2>2
    <3> QED  BY <1>0, <3>1, Update
  <2> QED  BY <2>1, <2>2
<1>5. guard' \in [Proc -> Int] /\ \A r \in Proc : r # p => guard'[r] = guard[r]
  BY <1>0, SMT
<1> QED  BY <1>1, <1>2, <1>3, <1>4, <1>5 DEF ProcTypes, SameProc

(* A step of a process that builds no other one touches only its own. *)
LEMMA OwnStep ==
  ASSUME VmInv, NEW p \in Proc, state[p] # "embryo", state'[p] # "embryo", ~Builds(p), ~Builds(p)', MemOK', ProcTypes', LocalTypes',
         \A b \in Place : b \notin Tree(Cur(p)) /\ b \notin Tree(Other(p)) /\ b # Mem(p) /\ b # Kstack(p) => Still(b),
         \A r \in Proc : r # p => SameLocals(r) /\ SameProc(r), Control(p)', Slot(p)', Work(p)'
  PROVE  VmInv'
<1>1. Builders'
  <2>1. \A r \in Proc : state'[r] = "embryo" <=> state[r] = "embryo"
    BY DEF SameProc
  <2> QED  BY <2>1, BuildersKept
<1>2. \A b \in Place : b \notin Mine(p, p) => Still(b)
  <2>1. cur[p] \in {0, 1} /\ 1 - cur[p] \in {0, 1}
    BY ProcFacts, SMT
  <2>2. Tree(Cur(p)) \subseteq Mine(p, p) /\ Tree(Other(p)) \subseteq Mine(p, p) /\ Mem(p) \in Mine(p, p) /\ Kstack(p) \in Mine(p, p)
    BY <2>1, MineFacts DEF Cur, Other
  <2> QED  BY <2>2
<1> QED  BY <1>1, <1>2, StepInv

(* A step of a running process that leaves the pages alone. *)
LEMMA QuietStep ==
  ASSUME VmInv, NEW p \in Proc, state[p] = "run", state'[p] \in {"run", "zombie"}, op[p] # "exec", ~Growing(p), ~Builds(p), ~Builds(p)',
         pages' = pages, ProcTypes', LocalTypes', \A r \in Proc : r # p => SameLocals(r) /\ SameProc(r),
         cur'[p] = cur[p], sz'[p] = sz[p], view'[p] = view[p], guard'[p] = guard[p], Control(p)', Work(p)'
  PROVE  VmInv'
<1>t. cur[p] \in {0, 1} /\ sz[p] \in Nat /\ Slot(p) /\ Cur(p) \in Space /\ Other(p) \in Space
  BY ProcFacts
<1> USE <1>t
<1>m. MemOK
  BY InvParts
<1>1. MemOK' /\ \A b : Still(b)
  BY <1>m, PagesKept
<1>2. Live(p) /\ state[p] # "embryo" /\ state'[p] # "embryo"
  BY DEF Live
<1>3. StillTree(Cur(p)) /\ StillTree(Other(p)) /\ Still(Kstack(p))
  BY <1>1 DEF StillTree
<1>4. Blank(Other(p))'
  <2>1. Blank(Other(p)) /\ Other(p)' = Other(p)
    BY DEF Slot, Other
  <2> QED  BY <1>3, <2>1, SpaceKept
<1>5. Slot(p)'
  BY <1>2, <1>3, <1>4, SlotLive
<1> QED  BY <1>1, <1>2, <1>5, OwnStep

LEMMA StepAllocprocFails ==
  ASSUME VmInv, NEW p \in Proc, allocproc_fails(p)
  PROVE  VmInv'
<1>1. state[p] = "run" /\ pc[p] = "user" /\ calls' = calls + 1 /\ Return(p, -1) /\ pages' = pages /\ procs' = procs
  BY DEF allocproc_fails, pages, procs
<1>t. Control(p) /\ Work(p)
  BY ProcFacts
<1>m. LocalTypes /\ ProcTypes
  BY InvParts
<1>2. op[p] = "none" /\ ptr[Mem(p)] = NoPage
  BY <1>1, <1>t DEF Control, Work, Directory
<1>3. calls' \in Nat /\ -1 \in {0, -1}
  BY <1>1, <1>m, SMT DEF LocalTypes
<1>4. /\ LocalTypes' /\ (\A x \in Proc : x # p => SameLocals(x))
      /\ pc'[p] = "user" /\ op'[p] = "none" /\ at'[p] = 0 /\ new'[p] = 0
  BY <1>1, <1>3, <1>m, Returned
<1>5. ProcTypes' /\ \A r \in Proc : SameProc(r)
  BY <1>1, <1>m, ProcsSame
<1>6. Control(p)' /\ Work(p)'
  <2>1. ptr'[Mem(p)] = NoPage
    BY <1>1, <1>2 DEF pages
  <2> QED  BY <1>4, <2>1, Idle
<1>7. op[p] # "exec" /\ ~Growing(p) /\ ~Builds(p) /\ ~Builds(p)'
  BY <1>2, <1>4 DEF Growing, Builds
<1>8. state'[p] \in {"run", "zombie"} /\ cur'[p] = cur[p] /\ sz'[p] = sz[p] /\ view'[p] = view[p] /\ guard'[p] = guard[p]
  BY <1>1, <1>5 DEF SameProc
<1> QED  BY <1>1, <1>4, <1>5, <1>6, <1>7, <1>8, QuietStep

LEMMA StepGrowprocToobig ==
  ASSUME VmInv, NEW p \in Proc, growproc_toobig(p)
  PROVE  VmInv'
<1>1. pc[p] = "growproc" /\ op[p] = "grow" /\ Return(p, -1) /\ pages' = pages /\ procs' = procs /\ calls' = calls
  BY DEF growproc_toobig, pages, procs
<1> USE <1>1
<1>t. Control(p) /\ Work(p)
  BY ProcFacts
<1>m. LocalTypes /\ ProcTypes
  BY InvParts
<1>2. state[p] = "run" /\ ptr[Mem(p)] = NoPage
  BY <1>t DEF Control, Work, Directory
<1> USE <1>m, <1>2
<1>3. calls' \in Nat /\ -1 \in {0, -1}
  BY DEF LocalTypes
<1>4. /\ LocalTypes' /\ (\A x \in Proc : x # p => SameLocals(x))
      /\ pc'[p] = "user" /\ op'[p] = "none" /\ at'[p] = 0 /\ new'[p] = 0
  BY <1>3, Returned
<1> USE <1>4
<1>5. ProcTypes' /\ \A r \in Proc : SameProc(r)
  BY ProcsSame
<1>6. Control(p)' /\ Work(p)'
  <2>1. ptr'[Mem(p)] = NoPage
    BY DEF pages
  <2> QED  BY <2>1, Idle
<1>7. op[p] # "exec" /\ ~Growing(p) /\ ~Builds(p) /\ ~Builds(p)'
  BY DEF Growing, Builds
<1>8. state'[p] \in {"run", "zombie"} /\ cur'[p] = cur[p] /\ sz'[p] = sz[p] /\ view'[p] = view[p] /\ guard'[p] = guard[p]
  BY <1>5 DEF SameProc
<1> QED  BY <1>5, <1>6, <1>7, <1>8, QuietStep

LEMMA StepExit ==
  ASSUME VmInv, NEW p \in Proc, exit(p)
  PROVE  VmInv'
<1>1. /\ state[p] = "run" /\ pc[p] = "user" /\ state' = [state EXCEPT ![p] = "zombie"] /\ pages' = pages
      /\ cur' = cur /\ sz' = sz /\ view' = view /\ guard' = guard /\ locals' = locals /\ pc' = pc /\ ret' = ret /\ calls' = calls
  BY DEF exit, pages, locals
<1> USE <1>1
<1>t. Control(p) /\ Work(p)
  BY ProcFacts
<1>m. LocalTypes /\ ProcTypes
  BY InvParts
<1> USE <1>m
<1>2. op[p] = "none" /\ ptr[Mem(p)] = NoPage /\ at[p] = 0 /\ new[p] = 0
  BY <1>t DEF Control, Work, Directory
<1>3. LocalTypes' /\ (\A x \in Proc : SameLocals(x))
  BY DEF locals, LocalTypes, SameLocals
<1>4. ProcTypes' /\ (\A r \in Proc : r # p => SameProc(r)) /\ state'[p] \in {"run", "zombie"}
  <2>1. "zombie" \in {"unused", "embryo", "run", "zombie"}
    OBVIOUS
  <2>2. ProcTypes' /\ (\A r \in Proc : r # p => SameProc(r))
    BY <2>1, ProcGoes
  <2>3. state'[p] = "zombie"
    BY <2>1, Update DEF ProcTypes
  <2> QED  BY <2>2, <2>3
<1>5. Control(p)' /\ Work(p)'
  <2>1. ptr'[Mem(p)] = NoPage /\ pc'[p] = "user" /\ op'[p] = "none" /\ at'[p] = 0 /\ new'[p] = 0
    BY <1>2 DEF pages, locals
  <2> QED  BY <2>1, Idle
<1>6. op[p] # "exec" /\ ~Growing(p) /\ ~Builds(p) /\ ~Builds(p)'
  BY <1>2 DEF Growing, Builds, locals
<1>7. cur'[p] = cur[p] /\ sz'[p] = sz[p] /\ view'[p] = view[p] /\ guard'[p] = guard[p]
  OBVIOUS
<1> QED  BY <1>3, <1>4, <1>5, <1>6, <1>7, QuietStep

(* A call starts. *)
LEMMA Called ==
  ASSUME VmInv, NEW p \in Proc, NEW name \in Ops, NEW to \in PCs, Call(p, name, to), \E s \in Space : dst' = [dst EXCEPT ![p] = s],
         at' = at, new' = new \/ \E z \in Nat : new' = [new EXCEPT ![p] = z],
         rest' = rest \/ \E l \in Files : rest' = [rest EXCEPT ![p] = l], ret' = ret
  PROVE  /\ LocalTypes' /\ (\A x \in Proc : x # p => SameLocals(x)) /\ pc'[p] = to /\ op'[p] = name
         /\ op[p] = "none" /\ pc[p] = "user" /\ at[p] = 0 /\ new[p] = 0 /\ ptr[Mem(p)] = NoPage /\ state[p] = "run"
<1>t. Control(p) /\ Work(p)
  BY ProcFacts
<1>m. LocalTypes
  BY InvParts
<1>1. state[p] = "run" /\ pc[p] = "user" /\ pc' = [pc EXCEPT ![p] = to] /\ op' = [op EXCEPT ![p] = name] /\ calls' = calls + 1
  BY DEF Call, Goto
<1>2. op[p] = "none" /\ ptr[Mem(p)] = NoPage /\ at[p] = 0 /\ new[p] = 0
  BY <1>1, <1>t DEF Control, Work, Directory
<1>3. pc \in [Proc -> PCs] /\ op \in [Proc -> Ops] /\ dst \in [Proc -> Space] /\ at \in [Proc -> Nat] /\ new \in [Proc -> Nat]
      /\ rest \in [Proc -> Files] /\ ret \in [Proc -> {0, -1}] /\ calls \in Nat
  BY <1>m DEF LocalTypes
<1>4. pc' \in [Proc -> PCs] /\ pc'[p] = to /\ \A x \in Proc : x # p => pc'[x] = pc[x]
  BY <1>1, <1>3, Update
<1>5. op' \in [Proc -> Ops] /\ op'[p] = name /\ \A x \in Proc : x # p => op'[x] = op[x]
  BY <1>1, <1>3, Update
<1>6. dst' \in [Proc -> Space] /\ \A x \in Proc : x # p => dst'[x] = dst[x]
  <2>1. PICK s \in Space : dst' = [dst EXCEPT ![p] = s]
    OBVIOUS
  <2> QED  BY <1>3, <2>1, Update
<1>7. new' \in [Proc -> Nat] /\ \A x \in Proc : x # p => new'[x] = new[x]
  BY <1>3, SMT
<1>8. rest' \in [Proc -> Files] /\ \A x \in Proc : x # p => rest'[x] = rest[x]
  <2>1. CASE rest' = rest
    BY <1>3, <2>1
  <2>2. CASE rest' # rest
    <3>1. PICK l \in Files : rest' = [rest EXCEPT ![p] = l]
      BY <2>2
    <3> QED  BY <1>3, <3>1, Update
  <2> QED  BY <2>1, <2>2
<1>9. calls' \in Nat
  BY <1>1, <1>3, SMT
<1> QED  BY <1>1, <1>2, <1>3, <1>4, <1>5, <1>6, <1>7, <1>8, <1>9 DEF LocalTypes, SameLocals

LEMMA StepSbrk ==
  ASSUME VmInv, NEW p \in Proc, NEW n \in Steps, sbrk(p, n)
  PROVE  VmInv'
<1>t. sz[p] \in Nat /\ Cur(p) \in Space
  BY ProcFacts
<1>m. LocalTypes /\ ProcTypes
  BY InvParts
<1>0. PICK name \in {"grow", "shrink"}, z \in Nat :
         /\ Call(p, name, "growproc") /\ new' = [new EXCEPT ![p] = z] /\ dst' = [dst EXCEPT ![p] = Cur(p)] /\ pages' = pages
         /\ procs' = procs /\ at' = at /\ rest' = rest /\ ret' = ret
  <2> DEFINE x == IF n > 0 THEN "grow" ELSE "shrink"
             y == (sz[p] + n) % Word
  <2>1. /\ Call(p, x, "growproc") /\ new' = [new EXCEPT ![p] = y] /\ dst' = [dst EXCEPT ![p] = Cur(p)] /\ pages' = pages
        /\ procs' = procs /\ at' = at /\ rest' = rest /\ ret' = ret
    BY DEF sbrk, pages, procs
  <2>2. x \in {"grow", "shrink"}
    OBVIOUS
  <2>3. y \in Nat
    <3>1. n \in Int /\ Word \in Nat /\ Word > 0
      BY VmAssumption, Geometry, SMT
    <3> HIDE DEF Word
    <3> QED  BY <1>t, <3>1, SMT
  <2> HIDE DEF x, y
  <2> QED  BY <2>1, <2>2, <2>3
<1>1. name \in Ops /\ "growproc" \in PCs
  BY DEF Ops, PCs
<1>2. /\ LocalTypes' /\ (\A x \in Proc : x # p => SameLocals(x)) /\ pc'[p] = "growproc" /\ op'[p] = name
      /\ op[p] = "none" /\ pc[p] = "user" /\ at[p] = 0 /\ ptr[Mem(p)] = NoPage /\ state[p] = "run"
  BY <1>0, <1>1, <1>t, Called
<1>3. ProcTypes' /\ \A r \in Proc : SameProc(r)
  BY <1>0, <1>m, ProcsSame
<1>4. dst'[p] = Cur(p)' /\ state'[p] = "run" /\ ptr'[Mem(p)] = NoPage
  <2>1. dst'[p] = Cur(p)
    BY <1>0, <1>m, <1>t, Update DEF LocalTypes
  <2> QED  BY <1>0, <1>2, <1>3, <2>1 DEF SameProc, pages, Cur
<1>5. /\ op'[p] # "none" /\ op'[p] # "boot" /\ op'[p] # "fork" /\ op'[p] # "exec" /\ pc'[p] # "user" /\ pc'[p] # "kmap"
      /\ pc'[p] # "userinit" /\ pc'[p] # "mappages" /\ ~Early(p)' /\ ~Middle(p)' /\ ~Builds(p)' /\ ~Growing(p)'
      /\ pc'[p] \in {"growproc", "allocuvm", "mappages"}
  BY <1>2 DEF Early, Middle, Builds, Growing
<1>6. Control(p)' /\ Work(p)'
  <2>1. Control(p)'
    BY <1>2, <1>4, <1>5 DEF Control
  <2>2. Directory(p)' /\ Boot(p)' /\ Copy(p)' /\ Grow(p)' /\ Load(p)'
    BY <1>4, <1>5 DEF Directory, Boot, Copy, Grow, Load
  <2> QED  BY <2>1, <2>2 DEF Work
<1>7. op[p] # "exec" /\ ~Growing(p) /\ ~Builds(p)
  BY <1>2 DEF Growing, Builds
<1>8. state'[p] \in {"run", "zombie"} /\ cur'[p] = cur[p] /\ sz'[p] = sz[p] /\ view'[p] = view[p] /\ guard'[p] = guard[p]
  BY <1>3, <1>4 DEF SameProc
<1> QED  BY <1>0, <1>2, <1>3, <1>5, <1>6, <1>7, <1>8, QuietStep

LEMMA StepExec ==
  ASSUME VmInv, NEW p \in Proc, NEW image \in Images, exec(p, image)
  PROVE  VmInv'
<1>0. /\ Call(p, "exec", "setupkvm") /\ dst' = [dst EXCEPT ![p] = Other(p)] /\ rest' = [rest EXCEPT ![p] = image]
      /\ pages' = pages /\ procs' = procs /\ at' = at /\ new' = new /\ ret' = ret
  BY DEF exec, pages, procs
<1>t. Other(p) \in Space /\ Slot(p)
  BY ProcFacts
<1>m. LocalTypes /\ ProcTypes /\ MemOK
  BY InvParts
<1> USE <1>0, <1>t, <1>m
<1>1. "exec" \in Ops /\ "setupkvm" \in PCs /\ image \in Files
  <2>1. image \in Files
    BY VmAssumption DEF Files
  <2> QED  BY <2>1 DEF Ops, PCs
<1>2. /\ LocalTypes' /\ (\A x \in Proc : x # p => SameLocals(x)) /\ pc'[p] = "setupkvm" /\ op'[p] = "exec"
      /\ op[p] = "none" /\ pc[p] = "user" /\ at[p] = 0 /\ new[p] = 0 /\ ptr[Mem(p)] = NoPage /\ state[p] = "run"
  BY <1>1, Called
<1>3. ProcTypes' /\ \A r \in Proc : SameProc(r)
  BY ProcsSame
<1>4. dst'[p] = Other(p) /\ Other(p)' = Other(p) /\ state'[p] = "run" /\ ptr'[Mem(p)] = NoPage /\ at'[p] = 0 /\ new'[p] = 0
  <2>1. dst'[p] = Other(p)
    BY Update DEF LocalTypes
  <2> QED  BY <1>2, <1>3, <2>1 DEF SameProc, pages, Other
<1>5. /\ op'[p] # "none" /\ op'[p] # "boot" /\ op'[p] # "fork" /\ op'[p] # "grow" /\ op'[p] # "shrink" /\ pc'[p] # "user" /\ pc'[p] # "kmap"
      /\ pc'[p] # "userinit" /\ pc'[p] # "mappages" /\ ~Middle(p)' /\ ~Builds(p)' /\ ~Growing(p)'
      /\ pc'[p] \in {"setupkvm", "kmap", "segment", "mappages", "allocuvm", "loaduvm", "copyout", "commit"}
      /\ op[p] # "exec" /\ ~Growing(p) /\ ~Builds(p)
  BY <1>2 DEF Middle, Builds, Growing
<1> USE <1>2, <1>3, <1>4, <1>5
<1>6. Blank(dst[p])'
  <2>1. PICK s \in Space : s = Other(p) /\ s = dst'[p]
    OBVIOUS
  <2>2. Blank(s) /\ StillTree(s)
    <3>1. \A b : Still(b)
      BY PagesKept
    <3> QED  BY <2>1, <3>1 DEF Slot, StillTree
  <2> QED  BY <2>1, <2>2, SpaceKept
<1>7. Control(p)' /\ Work(p)'
  <2>1. Control(p)'
    BY DEF Control
  <2>2. Directory(p)' /\ Boot(p)' /\ Copy(p)' /\ Grow(p)' /\ Load(p)'
    BY <1>6 DEF Directory, Boot, Copy, Grow, Load
  <2> QED  BY <2>1, <2>2 DEF Work
<1>8. state'[p] \in {"run", "zombie"} /\ cur'[p] = cur[p] /\ sz'[p] = sz[p] /\ view'[p] = view[p] /\ guard'[p] = guard[p]
  BY DEF SameProc
<1> QED  BY <1>7, <1>8, QuietStep

-----------------------------------------------------------------------------
(* The end of sbrk.                                                        *)

(* proc->sz = k: the pages below k are mapped, the new ones to zeros. *)
LEMMA Resized ==
  ASSUME VmInv, NEW p \in Proc, NEW k \in Nat, k < KERNBASE, Resize(p, k), Live(p), op[p] # "exec", ptr'[Kstack(p)] # NoPage,
         StillTree(Other(p)), HasTables(Cur(p))', Upto(Cur(p), Pages(k))',
         \A v \in Vpn : v < Pages(k) /\ v < Pages(sz[p]) => Still(Pte(Cur(p), v)),
         \A v \in Vpn : v < Pages(k) /\ ~(v < Pages(sz[p])) => cont'[ptr'[Pte(Cur(p), v)]] = "zero" /\ Pte(Cur(p), v) \in user'
  PROVE  ProcTypes' /\ (\A r \in Proc : r # p => SameProc(r)) /\ state'[p] = state[p] /\ cur'[p] = cur[p] /\ Slot(p)'
<1>t. cur[p] \in {0, 1} /\ sz[p] \in Nat /\ Cur(p) \in Space /\ Other(p) \in Space /\ Slot(p)
  BY ProcFacts
<1>m. ProcTypes
  BY InvParts
<1> DEFINE F == [v \in Vpn |-> IF v \notin Below(k) THEN "none" ELSE IF v \in Below(sz[p]) THEN view[p][v] ELSE "zero"]
           G == IF guard[p] \in Below(k) THEN guard[p] ELSE -1
<1>1. /\ sz' = [sz EXCEPT ![p] = k] /\ view' = [view EXCEPT ![p] = F] /\ guard' = [guard EXCEPT ![p] = G] /\ cur' = cur /\ state' = state
  BY DEF Resize
<1>2. view[p] \in [Vpn -> Contents \cup {"none"}] /\ guard[p] \in Int
  BY <1>m DEF ProcTypes
<1>3. F \in [Vpn -> Contents \cup {"none"}] /\ G \in Int /\ k \in 0 .. KERNBASE - 1
  <2>1. "none" \in Contents \cup {"none"} /\ "zero" \in Contents \cup {"none"} /\ -1 \in Int
    BY SMT DEF Contents
  <2>2. k \in 0 .. KERNBASE - 1
    BY Geometry, SMT
  <2> QED  BY <1>2, <2>1, <2>2
<1>4. PICK f \in [Vpn -> Contents \cup {"none"}], g \in Int :
         /\ f = F /\ g = G /\ view' = [view EXCEPT ![p] = f] /\ guard' = [guard EXCEPT ![p] = g]
  BY <1>1, <1>3
<1>5. ProcTypes' /\ \A r \in Proc : r # p => SameProc(r)
  BY <1>1, <1>3, <1>4, <1>m, ProcGoes
<1>6. sz'[p] = k /\ view'[p] = f /\ guard'[p] = g
  <2>1. sz \in [Proc -> 0 .. KERNBASE - 1] /\ view \in [Proc -> [Vpn -> Contents \cup {"none"}]] /\ guard \in [Proc -> Int]
    BY <1>m DEF ProcTypes
  <2>2. sz' = [sz EXCEPT ![p] = k] /\ k \in 0 .. KERNBASE - 1 /\ view' = [view EXCEPT ![p] = f] /\ guard' = [guard EXCEPT ![p] = g]
    BY <1>1, <1>3, <1>4
  <2> QED  BY <2>1, <2>2, Update
<1>s. PICK s \in Space : s = Cur(p) /\ s = Cur(p)'
  BY <1>1, <1>t DEF Cur
<1>n. PICK n \in Nat, m \in Nat : n = Pages(k) /\ m = Pages(sz[p])
  BY <1>t, PagesBounds
<1>b. \A v \in Vpn : (v \in Below(k) <=> v < n) /\ (v \in Below(sz[p]) <=> v < m) /\ 0 <= v /\ v # -1
  <2>1. \A v \in Vpn : (v \in Below(k) <=> v < n) /\ (v \in Below(sz[p]) <=> v < m) /\ v \in Nat
    BY <1>n, <1>t, VpnFacts
  <2> QED  BY <2>1, SMT
<1>7. \A v \in Vpn : v < n => f[v] = IF v < m THEN view[p][v] ELSE "zero"
  BY <1>4, <1>b
<1>8. /\ Filled(s, 0, m, view[p]) /\ Flags(s, 0, m, guard[p]) /\ \A v \in Vpn : v < m => ptr[Pte(s, v)] # NoPage
      /\ guard[p] = -1 \/ (guard[p] \in Vpn /\ guard[p] < m /\ view[p][guard[p]] = "zero")
  <2>1. /\ Filled(s, 0, m, view[p]) /\ Flags(s, 0, m, guard[p]) /\ Below(sz[p]) \subseteq Mapped(s)
        /\ guard[p] = -1 \/ (guard[p] \in Below(sz[p]) /\ view[p][guard[p]] = "zero")
    BY <1>n, <1>s, <1>t DEF Slot
  <2>2. \A v \in Below(sz[p]) : v \in Vpn
    BY DEF Below
  <2> QED  BY <1>b, <2>1, <2>2 DEF Mapped
<1>9. Filled(s, 0, n, f)'
  <2> SUFFICES ASSUME NEW v \in Vpn, v < n PROVE cont'[ptr'[Pte(s, v)]] = f[v]
    BY DEF Filled
  <2>1. CASE v < m
    <3>1. cont[ptr[Pte(s, v)]] = view[p][v] /\ ptr[Pte(s, v)] # NoPage /\ Still(Pte(s, v))
      BY <1>8, <1>b, <1>n, <1>s, <2>1 DEF Filled
    <3> QED  BY <1>7, <2>1, <3>1 DEF Still
  <2>2. CASE ~(v < m)
    BY <1>7, <1>n, <1>s, <2>2
  <2> QED  BY <2>1, <2>2
<1>10. Flags(s, 0, n, g)'
  <2> SUFFICES ASSUME NEW v \in Vpn, v < n PROVE Pte(s, v) \in user' <=> v # g
    BY DEF Flags
  <2>1. v = g <=> v = guard[p]
    BY <1>4, <1>b
  <2>2. CASE v < m
    <3>1. (Pte(s, v) \in user <=> v # guard[p]) /\ Still(Pte(s, v))
      BY <1>8, <1>b, <1>n, <1>s, <2>2 DEF Flags
    <3> QED  BY <2>1, <3>1 DEF Still
  <2>3. CASE ~(v < m)
    <3>1. v # guard[p]
      BY <1>8, <1>b, <2>3
    <3> QED  BY <1>n, <1>s, <2>1, <2>3, <3>1
  <2> QED  BY <2>2, <2>3
<1>11. g = -1 \/ (g \in Vpn /\ g < n /\ f[g] = "zero")
  <2>1. CASE guard[p] \in Below(k) /\ guard[p] # -1
    <3>1. g = guard[p] /\ g \in Vpn /\ g < n /\ g < m /\ view[p][g] = "zero"
      BY <1>4, <1>8, <1>b, <2>1
    <3> QED  BY <1>7, <3>1
  <2>2. CASE guard[p] \notin Below(k) \/ guard[p] = -1
    BY <1>4, <2>2
  <2> QED  BY <2>1, <2>2
<1>12. Blank(Other(p))'
  <2>1. Blank(Other(p)) /\ Other(p)' = Other(p)
    BY <1>1, <1>t DEF Slot, Other
  <2> QED  BY <1>t, <2>1, SpaceKept
<1>13. HasTables(s)' /\ Upto(s, n)' /\ state'[p] \in {"run", "zombie"} /\ sz'[p] \in Nat /\ n = Pages(sz'[p])
  BY <1>1, <1>6, <1>n, <1>s DEF Live
<1>14. Slot(p)'
  BY <1>6, <1>9, <1>10, <1>11, <1>12, <1>13, <1>s, SlotIs
<1> QED  BY <1>1, <1>5, <1>14

(* The tables stay when only PTEs are cleared. *)
LEMMA TablesStay ==
  ASSUME NEW s \in Space, HasTables(s), NEW A, \A b \in Tree(s) : b \notin A => Still(b), \A b \in A : ptr'[b] = NoPage,
         A \subseteq {Pte(s, v) : v \in Vpn} \cup {Mem(p) : p \in Proc}
  PROVE  HasTables(s)'
<1>1. Dir(s) \in Tree(s) /\ (\A k \in KernelTable : Ktable(s, k) \in Tree(s)) /\ (\A x \in UserTable : Table(s, x) \in Tree(s))
      /\ \A v \in Vpn : Pte(s, v) \in Tree(s)
  BY DEF Tree
<1>2. Dir(s) \notin A /\ (\A k \in KernelTable : Ktable(s, k) \notin A) /\ \A x \in UserTable : Table(s, x) \notin A
  BY DEF Dir, Ktable, Table, Pte, Mem
<1>3. ptr'[Dir(s)] = ptr[Dir(s)] /\ (\A k \in KernelTable : ptr'[Ktable(s, k)] = ptr[Ktable(s, k)])
      /\ \A x \in UserTable : ptr'[Table(s, x)] = ptr[Table(s, x)]
  BY <1>1, <1>2 DEF Still
<1>4. ASSUME NEW v \in Vpn, ptr'[Pte(s, v)] # NoPage PROVE ptr'[Table(s, PDX(v))] # NoPage
  <2>1. ptr[Pte(s, v)] # NoPage
    BY <1>1, <1>4 DEF Still
  <2> QED  BY <1>3, <2>1, VpnFacts DEF HasTables, Mapped
<1> QED  BY <1>3, <1>4 DEF HasTables, Mapped

(* deallocuvm of the pages S of p, and perhaps kfree(mem). *)
LEMMA Dealloc ==
  ASSUME VmInv, NEW p \in Proc, NEW S \in SUBSET Vpn, NEW M \in SUBSET {Mem(p)}, ptr[Mem(p)] # NoPage => Mem(p) \in M,
         HasTables(Cur(p)), cur' = cur, kfree({Pte(Cur(p), v) : v \in S} \cup M)
  PROVE  /\ MemOK' /\ HasTables(Cur(p))'
         /\ ptr'[Mem(p)] = NoPage /\ StillTree(Other(p)) /\ Still(Kstack(p))
         /\ \A v \in S : ptr'[Pte(Cur(p), v)] = NoPage
         /\ \A v \in Vpn : v \notin S => Still(Pte(Cur(p), v))
         /\ \A b \in Place : b \notin Tree(Cur(p)) /\ b # Mem(p) => Still(b)
<1>t. Cur(p) \in Space /\ Other(p) \in Space /\ Cur(p) # Other(p)
  BY ProcFacts
<1>m. MemOK
  BY InvParts
<1>s. PICK s \in Space : s = Cur(p)
  BY <1>t
<1>a. PICK A : A = {Pte(s, v) : v \in S} \cup M
  OBVIOUS
<1> USE <1>s, <1>a
<1>1. Release(A, {})
  BY DEF kfree
<1>2. /\ A \subseteq {Pte(s, v) : v \in Vpn} \cup {Mem(q) : q \in Proc} /\ (\A v \in S : Pte(s, v) \in A)
      /\ (Mem(p) \in M => Mem(p) \in A)
      /\ \A b \in A : b = Mem(p) \/ b \in Tree(s)
  <2>1. \A v \in S : v \in Vpn
    OBVIOUS
  <2>2. \A b \in M : b = Mem(p)
    OBVIOUS
  <2>3. \A v \in Vpn : Pte(s, v) \in Tree(s)
    BY TreePlaces
  <2> QED  BY <2>1, <2>2, <2>3
<1> USE <1>2
<1>3. A \in SUBSET Place
  BY TreePlaces, ProcPlaces
<1>4. \A v \in Vpn : v \notin S => Pte(s, v) \notin A
  <2>1. ASSUME NEW v \in Vpn, NEW w \in S, Pte(s, v) = Pte(s, w) PROVE v = w
    BY <2>1 DEF Pte
  <2>2. \A v \in Vpn : Pte(s, v) # Mem(p)
    BY DEF Pte, Mem
  <2> QED  BY <2>1, <2>2
<1>5. MemOK' /\ (\A a \in A : ptr'[a] = NoPage) /\ \A b \in Place : b \notin A => Still(b)
  <2>1. {} \in SUBSET Place /\ A \cup {} = A /\ \A b : b \notin {}
    OBVIOUS
  <2> QED  BY <1>1, <1>3, <1>m, <2>1, ReleaseFacts
<1> USE <1>5
<1>6. HasTables(s)'
  <2>1. \A b \in Tree(s) : b \notin A => Still(b)
    BY TreePlaces
  <2> QED  BY <2>1, TablesStay
<1>7. \A b \in Place : b \notin Tree(s) /\ b # Mem(p) => Still(b)
  OBVIOUS
<1> USE <1>7
<1>8. StillTree(Other(p))
  BY <1>t, OtherTreesStill
<1>9. Still(Kstack(p))
  BY OutsideTrees, ProcPlaces, ProcPlacesApart
<1>10. ptr'[Mem(p)] = NoPage
  <2>1. CASE Mem(p) \in A
    BY <2>1
  <2>2. CASE Mem(p) \notin A
    <3>1. ptr[Mem(p)] = NoPage /\ Still(Mem(p))
      BY <2>2, ProcPlaces
    <3> QED  BY <3>1 DEF Still
  <2> QED  BY <2>1, <2>2
<1>11. \A v \in Vpn : v \notin S => Still(Pte(s, v))
  BY <1>4, TreePlaces
<1>12. HasTables(Cur(p))'
  BY <1>6 DEF Cur
<1> QED  BY <1>8, <1>9, <1>10, <1>11, <1>12

LEMMA StepGrowprocShrink ==
  ASSUME VmInv, NEW p \in Proc, growproc_shrink(p)
  PROVE  VmInv'
<1>t. /\ cur[p] \in {0, 1} /\ sz[p] \in Nat /\ sz[p] < KERNBASE /\ new[p] \in Nat /\ Cur(p) \in Space /\ Slot(p) /\ Control(p) /\ Work(p)
  BY ProcFacts
<1> USE <1>t
<1>m. LocalTypes
  BY InvParts
<1>1. /\ pc[p] = "growproc" /\ op[p] = "shrink" /\ kfree(deallocuvm(dst[p], sz[p], new[p]))
      /\ Resize(p, IF new[p] >= sz[p] THEN sz[p] ELSE new[p]) /\ Return(p, 0) /\ calls' = calls
  BY DEF growproc_shrink
<1>2. /\ state[p] = "run" /\ dst[p] = Cur(p) /\ ptr[Mem(p)] = NoPage /\ ~Growing(p) /\ ~Builds(p) /\ op[p] # "exec" /\ Live(p)
  BY <1>1 DEF Control, Work, Directory, Growing, Builds, Live
<1>k. PICK k \in Nat : /\ k < KERNBASE /\ k = (IF new[p] >= sz[p] THEN sz[p] ELSE new[p]) /\ k <= sz[p] /\ k <= new[p]
                       /\ k = sz[p] \/ k = new[p]
  BY Geometry, SMT
<1>n. PICK m \in Nat, n \in Nat, l \in Nat : m = Pages(sz[p]) /\ n = Pages(new[p]) /\ l = Pages(k) /\ l <= m /\ l <= n /\ (l = m \/ l = n)
  <2>1. Pages(sz[p]) \in Nat /\ Pages(new[p]) \in Nat /\ Pages(k) \in Nat
    BY PagesBounds
  <2>2. Pages(k) <= Pages(sz[p]) /\ Pages(k) <= Pages(new[p])
    BY <1>k, PagesMonotone
  <2>3. Pages(k) = Pages(sz[p]) \/ Pages(k) = Pages(new[p])
    BY <1>k
  <2> QED  BY <2>1, <2>2, <2>3
<1> USE <1>1, <1>2, <1>k, <1>n
<1>3. PICK S \in SUBSET Vpn : S = Below(sz[p]) \ Below(new[p])
  BY DEF Below
<1>4. \A v \in Vpn : (v \in S <=> v < m /\ ~(v < n)) /\ (v < l <=> v < m /\ v < n)
  <2>1. \A v \in Vpn : (v \in S <=> v < m /\ ~(v < n)) /\ v \in Nat
    BY <1>3, VpnFacts
  <2> QED  BY <2>1, SMT
<1> USE <1>4
<1>5. HasTables(Cur(p)) /\ Upto(Cur(p), m)
  BY DEF Slot
<1>6. kfree({Pte(Cur(p), v) : v \in S} \cup {}) /\ Resize(p, k)
  <2>1. {Pte(Cur(p), v) : v \in S} \cup {} = {Pte(Cur(p), v) : v \in S}
    OBVIOUS
  <2> QED  BY <1>3, <2>1 DEF deallocuvm
<1>7. /\ MemOK' /\ HasTables(Cur(p))'
      /\ ptr'[Mem(p)] = NoPage /\ StillTree(Other(p)) /\ Still(Kstack(p))
      /\ \A v \in S : ptr'[Pte(Cur(p), v)] = NoPage
      /\ \A v \in Vpn : v \notin S => Still(Pte(Cur(p), v))
      /\ \A b \in Place : b \notin Tree(Cur(p)) /\ b # Mem(p) => Still(b)
  <2>1. {} \in SUBSET {Mem(p)} /\ cur' = cur
    BY <1>6 DEF Resize
  <2> QED  BY <1>5, <1>6, <2>1, Dealloc
<1> USE <1>6, <1>7
<1>8. Upto(Cur(p), Pages(k))'
  <2>1. PICK s : s = Cur(p) /\ s = Cur(p)'
    BY DEF Resize, Cur
  <2> USE <2>1
  <2>2. \A v \in Vpn : ptr'[Pte(s, v)] # NoPage <=> v < l
    <3> SUFFICES ASSUME NEW v \in Vpn PROVE ptr'[Pte(s, v)] # NoPage <=> v < l
      OBVIOUS
    <3>1. CASE v \in S
      <4>1. ptr'[Pte(s, v)] = NoPage /\ ~(v < l)
        BY <3>1
      <4> QED  BY <4>1
    <3>2. CASE v \notin S
      <4>1. ptr'[Pte(s, v)] = ptr[Pte(s, v)] /\ (ptr[Pte(s, v)] # NoPage <=> v < m)
        BY <1>5, <3>2 DEF Still, Upto
      <4> QED  BY <3>2, <4>1
    <3> QED  BY <3>1, <3>2
  <2>3. Pages(k)' = l
    OBVIOUS
  <2> QED  BY <2>2, <2>3 DEF Upto
<1>9. /\ ProcTypes' /\ (\A r \in Proc : r # p => SameProc(r)) /\ state'[p] = state[p] /\ cur'[p] = cur[p] /\ Slot(p)'
  <2>1. ptr'[Kstack(p)] # NoPage
    BY DEF Slot, Still
  <2>2. \A v \in Vpn : v < Pages(k) /\ v < Pages(sz[p]) => Still(Pte(Cur(p), v))
    OBVIOUS
  <2>3. \A v \in Vpn : v < Pages(k) => v < Pages(sz[p])
    OBVIOUS
  <2> QED  BY <1>8, <2>1, <2>2, <2>3, Resized
<1>10. /\ LocalTypes' /\ (\A x \in Proc : x # p => SameLocals(x))
       /\ pc'[p] = "user" /\ op'[p] = "none" /\ at'[p] = 0 /\ new'[p] = 0
  <2>1. calls' \in Nat /\ 0 \in {0, -1}
    BY <1>m DEF LocalTypes
  <2> QED  BY <1>m, <2>1, Returned
<1> USE <1>10
<1>11. Control(p)' /\ Work(p)'
  BY Idle
<1>12. state[p] # "embryo" /\ state'[p] # "embryo" /\ ~Builds(p)'
  BY <1>9 DEF Builds
<1> QED  BY <1>9, <1>11, <1>12, OwnStep

LEMMA StepGrowprocDone ==
  ASSUME VmInv, NEW p \in Proc, growproc_done(p)
  PROVE  VmInv'
<1>t. /\ cur[p] \in {0, 1} /\ sz[p] \in Nat /\ new[p] \in Nat /\ at[p] \in Nat /\ Cur(p) \in Space /\ Slot(p) /\ Control(p) /\ Work(p)
  BY ProcFacts
<1> USE <1>t
<1>m. LocalTypes /\ MemOK
  BY InvParts
<1>1. /\ pc[p] = "allocuvm" /\ op[p] = "grow" /\ at[p] >= Pages(new[p]) /\ Resize(p, new[p]) /\ Return(p, 0) /\ pages' = pages /\ calls' = calls
  BY DEF growproc_done, pages
<1>2. /\ state[p] = "run" /\ dst[p] = Cur(p) /\ Growing(p) /\ ~Builds(p) /\ op[p] # "exec" /\ Live(p) /\ Middle(p) /\ Done(p) = at[p]
  BY <1>1 DEF Control, Growing, Builds, Live, Middle, Done
<1> USE <1>1, <1>2
<1>s. PICK s \in Space : s = Cur(p) /\ s = Cur(p)'
  BY DEF Resize, Cur
<1>3. HasTables(s) /\ Upto(s, at[p]) /\ ptr[Mem(p)] = NoPage
  BY <1>s DEF Work, Directory
<1>4. /\ new[p] < KERNBASE /\ at[p] <= Pages(new[p]) /\ Filled(s, Pages(sz[p]), at[p], Zeros) /\ Flags(s, Pages(sz[p]), at[p], -1)
  BY <1>s DEF Work, Grow
<1>n. PICK n \in Nat, m \in Nat : n = Pages(new[p]) /\ n = at[p] /\ m = Pages(sz[p])
  <2>1. Pages(new[p]) \in Nat /\ Pages(sz[p]) \in Nat
    BY PagesBounds
  <2>2. at[p] = Pages(new[p])
    BY <1>4, <2>1, SMT
  <2> QED  BY <2>1, <2>2
<1>5. MemOK' /\ (\A b : Still(b)) /\ HasTables(s)' /\ Upto(s, n)' /\ StillTree(Other(p))
  BY <1>3, <1>m, <1>n, PagesKept, SpaceSame DEF StillTree
<1> USE <1>n, <1>5
<1>6. \A v \in Vpn : v < n /\ ~(v < m) => cont'[ptr'[Pte(s, v)]] = "zero" /\ Pte(s, v) \in user'
  <2> SUFFICES ASSUME NEW v \in Vpn, v < n, ~(v < m) PROVE cont'[ptr'[Pte(s, v)]] = "zero" /\ Pte(s, v) \in user'
    OBVIOUS
  <2>1. m <= v /\ v # -1 /\ Zeros[v] = "zero"
    <3>1. v \in Nat
      BY VpnFacts
    <3> QED  BY <3>1, SMT DEF Zeros
  <2>2. cont[ptr[Pte(s, v)]] = "zero" /\ Pte(s, v) \in user
    BY <1>4, <2>1 DEF Filled, Flags
  <2>3. ptr[Pte(s, v)] # NoPage
    BY <1>3 DEF Upto
  <2> QED  BY <2>2, <2>3 DEF Still
<1>7. /\ ProcTypes' /\ (\A r \in Proc : r # p => SameProc(r)) /\ state'[p] = state[p] /\ cur'[p] = cur[p] /\ Slot(p)'
  <2>1. ptr'[Kstack(p)] # NoPage
    BY DEF Slot, Still
  <2>2. \A v \in Vpn : v < Pages(new[p]) /\ v < Pages(sz[p]) => Still(Pte(Cur(p), v))
    OBVIOUS
  <2>3. \A v \in Vpn : v < Pages(new[p]) /\ ~(v < Pages(sz[p])) => cont'[ptr'[Pte(Cur(p), v)]] = "zero" /\ Pte(Cur(p), v) \in user'
    BY <1>6, <1>s
  <2>4. PICK k \in Nat : k = new[p]
    OBVIOUS
  <2>5. HasTables(Cur(p))' /\ Upto(Cur(p), Pages(k))'
    BY <1>s, <2>4
  <2> QED  BY <1>4, <2>1, <2>2, <2>3, <2>4, <2>5, Resized
<1>8. /\ LocalTypes' /\ (\A x \in Proc : x # p => SameLocals(x))
      /\ pc'[p] = "user" /\ op'[p] = "none" /\ at'[p] = 0 /\ new'[p] = 0
  <2>1. calls' \in Nat /\ 0 \in {0, -1}
    BY <1>m DEF LocalTypes
  <2> QED  BY <1>m, <2>1, Returned
<1>9. Control(p)' /\ Work(p)'
  <2>1. ptr'[Mem(p)] = NoPage
    BY <1>3 DEF Still
  <2> QED  BY <1>8, <2>1, Idle
<1>10. state[p] # "embryo" /\ state'[p] # "embryo" /\ ~Builds(p)'
  BY <1>7, <1>8 DEF Builds
<1> QED  BY <1>7, <1>8, <1>9, <1>10, OwnStep

LEMMA StepGrowprocBad ==
  ASSUME VmInv, NEW p \in Proc, growproc_bad(p)
  PROVE  VmInv'
<1>t. /\ cur[p] \in {0, 1} /\ sz[p] \in Nat /\ new[p] \in Nat /\ at[p] \in Nat /\ Cur(p) \in Space /\ Other(p) \in Space
      /\ Slot(p) /\ Control(p) /\ Work(p)
  BY ProcFacts
<1>m. LocalTypes /\ ProcTypes
  BY InvParts
<1>1. /\ op[p] = "grow" /\ OutOfMemory(p) /\ kfree(deallocuvm(dst[p], new[p], sz[p]) \cup {Mem(p)})
      /\ Return(p, -1) /\ procs' = procs /\ calls' = calls
  BY DEF growproc_bad, procs
<1>2. /\ state[p] = "run" /\ dst[p] = Cur(p) /\ Growing(p) /\ ~Builds(p) /\ Live(p) /\ Middle(p) /\ Done(p) = at[p]
  BY <1>1, <1>t DEF Control, OutOfMemory, Growing, Builds, Live, Middle, Done
<1>s. PICK s \in Space : s = Cur(p) /\ s = Cur(p)'
  BY <1>1, <1>t DEF procs, Cur
<1>3. HasTables(s) /\ Upto(s, at[p])
  BY <1>2, <1>s, <1>t DEF Work, Directory
<1>4. Pages(sz[p]) <= at[p] /\ at[p] <= Pages(new[p])
  BY <1>2, <1>t DEF Work, Grow
<1>n. PICK m \in Nat, n \in Nat, i \in Nat : m = Pages(sz[p]) /\ n = Pages(new[p]) /\ i = at[p] /\ m <= i /\ i <= n
  BY <1>4, <1>t, PagesBounds
<1>5. PICK S \in SUBSET Vpn : S = Below(new[p]) \ Below(sz[p])
  BY DEF Below
<1>6. \A v \in Vpn : (v \in S <=> v < n /\ ~(v < m)) /\ (v < m => v < i) /\ (v < i => v < n)
  <2>1. \A v \in Vpn : (v \in S <=> v < n /\ ~(v < m)) /\ v \in Nat
    BY <1>5, <1>n, <1>t, VpnFacts
  <2> QED  BY <1>n, <2>1, SMT
<1>7. /\ MemOK' /\ HasTables(Cur(p))'
      /\ ptr'[Mem(p)] = NoPage /\ StillTree(Other(p)) /\ Still(Kstack(p))
      /\ \A v \in S : ptr'[Pte(Cur(p), v)] = NoPage
      /\ \A v \in Vpn : v \notin S => Still(Pte(Cur(p), v))
      /\ \A b \in Place : b \notin Tree(Cur(p)) /\ b # Mem(p) => Still(b)
  <2>1. kfree({Pte(Cur(p), v) : v \in S} \cup {Mem(p)})
    BY <1>1, <1>2, <1>5 DEF deallocuvm
  <2>2. cur' = cur /\ {Mem(p)} \in SUBSET {Mem(p)} /\ Mem(p) \in {Mem(p)} /\ HasTables(Cur(p))
    BY <1>1, <1>3, <1>s DEF procs
  <2> QED  BY <2>1, <2>2, Dealloc
<1>p. ProcTypes' /\ \A r \in Proc : SameProc(r)
  BY <1>1, <1>m, ProcsSame
<1>8. Slot(p)'
  <2>1. PICK f, g : f = view[p] /\ f = view'[p] /\ g = guard[p] /\ g = guard'[p]
    BY <1>p DEF SameProc
  <2>2. /\ ptr[Kstack(p)] # NoPage /\ Filled(s, 0, m, f) /\ Flags(s, 0, m, g)
        /\ g = -1 \/ (g \in Vpn /\ g < m /\ f[g] = "zero")
    <3>1. \A v \in Below(sz[p]) : v \in Vpn /\ v < m
      BY <1>n DEF Below
    <3> QED  BY <1>2, <1>n, <1>s, <1>t, <2>1, <3>1 DEF Slot
  <2>3. Upto(s, m)'
    <3> SUFFICES ASSUME NEW v \in Vpn PROVE ptr'[Pte(s, v)] # NoPage <=> v < m
      BY DEF Upto
    <3>1. CASE v \in S
      <4>1. ptr'[Pte(s, v)] = NoPage /\ ~(v < m)
        BY <1>6, <1>7, <1>s, <3>1, SMT
      <4> QED  BY <4>1
    <3>2. CASE v \notin S
      <4>1. ptr'[Pte(s, v)] = ptr[Pte(s, v)] /\ (ptr[Pte(s, v)] # NoPage <=> v < i)
        BY <1>3, <1>7, <1>n, <1>s, <3>2 DEF Still, Upto
      <4> QED  BY <1>6, <3>2, <4>1
    <3> QED  BY <3>1, <3>2
  <2>4. Filled(s, 0, m, f)' /\ Flags(s, 0, m, g)'
    <3>1. \A v \in Vpn : v < m => Still(Pte(s, v))
      BY <1>6, <1>7, <1>s
    <3>2. \A v \in Vpn : v < m => ptr[Pte(s, v)] # NoPage
      BY <1>3, <1>6, <1>n DEF Upto
    <3> QED  BY <2>2, <3>1, <3>2, RangeKept
  <2>5. Blank(Other(p))'
    <3>1. Blank(Other(p)) /\ Other(p)' = Other(p)
      BY <1>1, <1>t, <1>p DEF Slot, Other, SameProc
    <3> QED  BY <1>7, <1>t, <3>1, SpaceKept
  <2>6. /\ HasTables(s)' /\ ptr'[Kstack(p)] # NoPage /\ state'[p] \in {"run", "zombie"} /\ sz'[p] \in Nat /\ m = Pages(sz'[p])
    BY <1>2, <1>7, <1>n, <1>p, <1>s, <1>t, <2>2 DEF Still, SameProc, Live
  <2> QED  BY <1>s, <2>1, <2>2, <2>3, <2>4, <2>5, <2>6, SlotIs
<1>9. /\ LocalTypes' /\ (\A x \in Proc : x # p => SameLocals(x))
      /\ pc'[p] = "user" /\ op'[p] = "none" /\ at'[p] = 0 /\ new'[p] = 0
  <2>1. calls' \in Nat /\ -1 \in {0, -1}
    BY <1>1, <1>m DEF LocalTypes
  <2> QED  BY <1>1, <1>m, <2>1, Returned
<1>10. Control(p)' /\ Work(p)'
  BY <1>7, <1>9, Idle
<1>11. state[p] # "embryo" /\ state'[p] # "embryo" /\ ~Builds(p)'
  BY <1>2, <1>9, <1>p DEF Builds, SameProc
<1> QED  BY <1>2, <1>7, <1>8, <1>9, <1>10, <1>11, <1>p, OwnStep

-----------------------------------------------------------------------------
(* Releasing an address space.                                             *)

(* freevm(s), with kfree of the places in M; the pages at L are forgotten. *)
LEMMA FreeTree ==
  ASSUME MemOK, NEW s \in Space, NEW p \in Proc, NEW q \in Proc, NEW M \in SUBSET {Mem(p), Kstack(q)}, NEW L \in SUBSET {Mem(p)},
         \A a \in L : a \notin M, Release(Tree(s) \cup M, L)
  PROVE  /\ MemOK' /\ Blank(s)' /\ (\A a \in M \cup L : ptr'[a] = NoPage)
         /\ (\A t \in Space : t # s => StillTree(t))
         /\ \A b \in Place : b \notin Tree(s) /\ b \notin M /\ b \notin L => Still(b)
<1>a. PICK A : A = Tree(s) \cup M
  OBVIOUS
<1>1. (\A a \in M : a = Mem(p) \/ a = Kstack(q)) /\ \A a \in L : a = Mem(p)
  OBVIOUS
<1> USE <1>a, <1>1
<1>2. A \in SUBSET Place /\ L \in SUBSET Place
  BY TreePlaces, ProcPlaces
<1>3. \A a \in L : a \notin A /\ a \notin user
  <2>1. Mem(p) \notin user
    BY DEF MemOK, UserPresent
  <2>2. Mem(p) \notin Tree(s)
    BY OutsideTrees
  <2> QED  BY <2>1, <2>2
<1>4. /\ MemOK' /\ (\A a \in A \cup L : ptr'[a] = NoPage)
      /\ \A b \in Place : b \notin A /\ b \notin L => Still(b)
  BY <1>2, <1>3, ReleaseFacts
<1> USE <1>4
<1>5. \A a \in M \cup L : ptr'[a] = NoPage
  OBVIOUS
<1>6. \A a \in Tree(s) : ptr'[a] = NoPage
  OBVIOUS
<1>7. \A b \in Place : b \notin Tree(s) /\ b \notin M /\ b \notin L => Still(b)
  OBVIOUS
<1>8. ASSUME NEW t \in Space, t # s PROVE StillTree(t)
  <2>1. \A b \in Place : b \notin Tree(s) /\ b # Mem(p) /\ b # Kstack(q) => Still(b)
    BY <1>7
  <2> QED  BY <1>8, <2>1, OtherTreesStill
<1> QED  BY <1>5, <1>6, <1>7, <1>8 DEF Blank

LEMMA StepExecCommit ==
  ASSUME VmInv, NEW p \in Proc, exec_commit(p)
  PROVE  VmInv'
<1>t. /\ cur[p] \in {0, 1} /\ new[p] \in Nat /\ Cur(p) \in Space /\ Other(p) \in Space /\ Cur(p) # Other(p)
      /\ Slot(p) /\ Control(p) /\ Work(p) /\ op[p] \in Ops
  BY ProcFacts DEF Ops
<1>m. LocalTypes /\ ProcTypes /\ MemOK
  BY InvParts
<1>1. /\ pc[p] = "commit" /\ Release(Tree(Cur(p)) \cup {}, {})
      /\ cur' = [cur EXCEPT ![p] = 1 - @] /\ sz' = [sz EXCEPT ![p] = new[p]]
      /\ view' = [view EXCEPT ![p] = [v \in Vpn |-> IF v \in Below(new[p]) THEN cont[ptr[Pte(dst[p], v)]] ELSE "none"]]
      /\ guard' = [guard EXCEPT ![p] = Pages(new[p]) - 2]
      /\ Return(p, 0) /\ state' = state /\ calls' = calls
  <2>1. Tree(Cur(p)) \cup {} = Tree(Cur(p))
    OBVIOUS
  <2> QED  BY <2>1 DEF exec_commit, kfree, freevm
<1>2. /\ op[p] = "exec" /\ state[p] = "run" /\ dst[p] = Other(p) /\ ~Builds(p) /\ Middle(p) /\ Done(p) = Pages(new[p])
      /\ ptr[Mem(p)] = NoPage
  BY <1>1, <1>t DEF Control, Builds, Middle, Done, Work, Directory, Ops
<1>s. PICK s \in Space : s = Other(p) /\ s = dst[p] /\ s # Cur(p)
  BY <1>2, <1>t
<1>n. PICK n \in Nat : n = Pages(new[p]) /\ n >= 2 /\ new[p] < KERNBASE
  BY <1>1, <1>2, <1>t, PagesBounds DEF Work, Load
<1>3. HasTables(s) /\ Upto(s, n) /\ Flags(s, 0, n, n - 2) /\ Filled(s, n - 2, n - 1, Zeros)
  BY <1>1, <1>2, <1>n, <1>s, <1>t DEF Work, Load, Directory
<1>c. PICK c \in Space : c = Cur(p) /\ c # s
  BY <1>s, <1>t
<1>4. /\ MemOK' /\ Blank(c)' /\ StillTree(s)
      /\ \A b \in Place : b \notin Tree(c) => Still(b)
  <2>1. PICK M \in SUBSET {Mem(p), Kstack(p)}, L \in SUBSET {Mem(p)} : M = {} /\ L = {}
    OBVIOUS
  <2>2. Release(Tree(c) \cup M, L)
    BY <1>1, <1>c, <2>1
  <2>3. \A a : a \notin M /\ a \notin L
    BY <2>1
  <2> QED  BY <1>c, <1>m, <2>2, <2>3, FreeTree
<1>5. s = Cur(p)' /\ c = Other(p)' /\ sz'[p] = new[p] /\ guard'[p] = n - 2 /\ state'[p] = "run"
  <2>1. cur'[p] = 1 - cur[p] /\ sz'[p] = new[p] /\ guard'[p] = Pages(new[p]) - 2 /\ state'[p] = state[p]
    BY <1>1, <1>m DEF ProcTypes
  <2>2. 1 - (1 - cur[p]) = cur[p]
    <3>1. cur[p] \in {0, 1}
      BY <1>t
    <3> QED  BY <3>1, SMT
  <2> QED  BY <1>2, <1>c, <1>n, <1>s, <2>1, <2>2 DEF Cur, Other
<1>f. PICK f \in [Vpn -> Contents \cup {"none"}] : /\ view' = [view EXCEPT ![p] = f]
                                                   /\ \A v \in Vpn : v < n => f[v] = cont[ptr[Pte(s, v)]]
  <2> DEFINE F == [v \in Vpn |-> IF v \in Below(new[p]) THEN cont[ptr[Pte(s, v)]] ELSE "none"]
  <2>1. \A v \in Vpn : v \in Below(new[p]) <=> v < n
    BY <1>n, <1>t, VpnFacts
  <2>2. \A v \in Vpn : v < n => cont[ptr[Pte(s, v)]] \in Contents
    <3>1. \A v \in Vpn : Pte(s, v) \in Place
      BY TreePlaces
    <3>2. \A v \in Vpn : v < n => ptr[Pte(s, v)] # NoPage
      BY <1>3 DEF Upto
    <3> QED  BY <1>m, <3>1, <3>2 DEF MemOK, MemTypes
  <2>3. F \in [Vpn -> Contents \cup {"none"}] /\ \A v \in Vpn : v < n => F[v] = cont[ptr[Pte(s, v)]]
    BY <2>1, <2>2
  <2>4. view' = [view EXCEPT ![p] = F]
    BY <1>1, <1>s
  <2> QED  BY <2>3, <2>4
<1>6. view'[p] = f
  BY <1>f, <1>m DEF ProcTypes
<1>7. ProcTypes' /\ \A r \in Proc : r # p => SameProc(r)
  <2>1. 1 - cur[p] \in {0, 1} /\ new[p] \in 0 .. KERNBASE - 1 /\ n - 2 \in Int
    BY <1>n, <1>t, Geometry, SMT
  <2>2. cur' = [cur EXCEPT ![p] = 1 - cur[p]] /\ guard' = [guard EXCEPT ![p] = n - 2]
    BY <1>1, <1>n
  <2> QED  BY <1>1, <1>f, <1>m, <2>1, <2>2, ProcGoes
<1>8. /\ LocalTypes' /\ (\A x \in Proc : x # p => SameLocals(x))
      /\ pc'[p] = "user" /\ op'[p] = "none" /\ at'[p] = 0 /\ new'[p] = 0
  <2>1. calls' \in Nat /\ 0 \in {0, -1}
    BY <1>1, <1>m DEF LocalTypes
  <2> QED  BY <1>1, <1>m, <2>1, Returned
<1>9. Still(Mem(p)) /\ Still(Kstack(p))
  BY <1>4, OutsideTrees, ProcPlaces
<1>10. Slot(p)'
  <2>1. HasTables(s)' /\ Upto(s, n)'
    BY <1>3, <1>4, SpaceKept, UptoKept
  <2>2. \A v \in Vpn : Still(Pte(s, v)) /\ (v < n => ptr[Pte(s, v)] # NoPage)
    BY <1>3, <1>4, SpaceKept DEF Upto
  <2>3. Flags(s, 0, n, n - 2)'
    BY <1>3, <2>2, RangeKept
  <2>4. Filled(s, 0, n, f)'
    <3>1. Filled(s, 0, n, f)
      BY <1>f DEF Filled
    <3> QED  BY <2>2, <3>1, RangeKept
  <2>5. n - 2 \in Vpn /\ n - 2 < n /\ f[n - 2] = "zero"
    <3>1. n - 2 \in Nat /\ n - 2 < n /\ n - 2 <= n - 2 /\ n - 2 < n - 1
      BY <1>n, SMT
    <3>2. n - 2 \in Vpn
      BY <1>n, <1>t, <3>1, VpnFacts
    <3>3. cont[ptr[Pte(s, n - 2)]] = Zeros[n - 2] /\ Zeros[n - 2] = "zero"
      BY <1>3, <3>1, <3>2 DEF Filled, Zeros
    <3> QED  BY <1>f, <3>1, <3>2, <3>3
  <2>6. ptr'[Kstack(p)] # NoPage
    BY <1>2, <1>9, <1>t DEF Slot, Live, Still
  <2>7. state'[p] \in {"run", "zombie"} /\ sz'[p] \in Nat /\ n = Pages(sz'[p]) /\ Blank(Other(p))'
    BY <1>4, <1>5, <1>n, <1>t
  <2>8. PICK g : g = n - 2
    OBVIOUS
  <2> QED  BY <1>5, <1>6, <2>1, <2>3, <2>4, <2>5, <2>6, <2>7, <2>8, SlotIs
<1>11. Control(p)' /\ Work(p)'
  <2>1. ptr'[Mem(p)] = NoPage
    BY <1>2, <1>9 DEF Still
  <2> QED  BY <1>8, <2>1, Idle
<1>12. state[p] # "embryo" /\ state'[p] # "embryo" /\ ~Builds(p)'
  BY <1>2, <1>5, <1>8 DEF Builds
<1> QED  BY <1>2, <1>4, <1>7, <1>8, <1>10, <1>11, <1>12, <1>c, OwnStep

LEMMA StepExecBad ==
  ASSUME VmInv, NEW p \in Proc, exec_bad(p)
  PROVE  VmInv'
<1>t. /\ cur[p] \in {0, 1} /\ sz[p] \in Nat /\ Cur(p) \in Space /\ Other(p) \in Space /\ Cur(p) # Other(p)
      /\ Slot(p) /\ Control(p) /\ Work(p)
  BY ProcFacts
<1>m. LocalTypes /\ ProcTypes /\ MemOK
  BY InvParts
<1>1. op[p] = "exec" /\ Release(Tree(dst[p]) \cup {Mem(p)}, {}) /\ Return(p, -1) /\ procs' = procs /\ calls' = calls
  BY DEF exec_bad, kfree, freevm, procs
<1>2. state[p] = "run" /\ dst[p] = Other(p) /\ ~Builds(p) /\ ~Growing(p) /\ Live(p)
  BY <1>1, <1>t DEF Control, Builds, Growing, Live
<1>s. PICK s \in Space, c \in Space : s = Other(p) /\ s = dst[p] /\ c = Cur(p) /\ c # s
  BY <1>2, <1>t
<1>4. /\ MemOK' /\ Blank(s)' /\ ptr'[Mem(p)] = NoPage /\ StillTree(c)
      /\ \A b \in Place : b \notin Tree(s) /\ b # Mem(p) => Still(b)
  <2>1. PICK M \in SUBSET {Mem(p), Kstack(p)}, L \in SUBSET {Mem(p)} : M = {Mem(p)} /\ L = {}
    OBVIOUS
  <2>2. Release(Tree(s) \cup M, L)
    BY <1>1, <1>s, <2>1
  <2>3. /\ Mem(p) \in M \cup L /\ (\A a \in L : a \notin M)
        /\ \A b : b # Mem(p) => b \notin M /\ b \notin L
    BY <2>1
  <2> QED  BY <1>m, <1>s, <2>2, <2>3, FreeTree
<1>5. ProcTypes' /\ \A r \in Proc : SameProc(r)
  BY <1>1, <1>m, ProcsSame
<1>6. /\ LocalTypes' /\ (\A x \in Proc : x # p => SameLocals(x))
      /\ pc'[p] = "user" /\ op'[p] = "none" /\ at'[p] = 0 /\ new'[p] = 0
  <2>1. calls' \in Nat /\ -1 \in {0, -1}
    BY <1>1, <1>m DEF LocalTypes
  <2> QED  BY <1>1, <1>m, <2>1, Returned
<1> USE <1>2, <1>s, <1>4, <1>5, <1>6
<1>7. Control(p)' /\ Work(p)'
  BY Idle
<1>8. Slot(p)'
  <2>1. Blank(Other(p))'
    <3>1. s = Other(p)'
      BY DEF SameProc, Other
    <3> QED  BY <3>1
  <2>2. Still(Kstack(p))
    BY OutsideTrees, ProcPlaces, ProcPlacesApart
  <2>3. /\ cur'[p] = cur[p] /\ sz'[p] = sz[p] /\ view'[p] = view[p] /\ guard'[p] = guard[p] /\ state'[p] \in {"run", "zombie"}
    BY DEF SameProc
  <2> QED  BY <1>t, <2>1, <2>2, <2>3, SlotLive
<1>9. state[p] # "embryo" /\ state'[p] # "embryo" /\ ~Builds(p)'
  BY DEF Builds, SameProc
<1> QED  BY <1>7, <1>8, <1>9, OwnStep

LEMMA StepWait ==
  ASSUME VmInv, NEW p \in Proc, wait(p)
  PROVE  VmInv'
<1>t. /\ cur[p] \in {0, 1} /\ Cur(p) \in Space /\ Other(p) \in Space /\ Cur(p) # Other(p) /\ Slot(p) /\ Control(p) /\ Work(p) /\ op[p] \in Ops
  BY ProcFacts DEF Ops
<1>m. LocalTypes /\ ProcTypes /\ MemOK
  BY InvParts
<1>1. /\ state[p] = "zombie" /\ state' = [state EXCEPT ![p] = "unused"] /\ Release(Tree(Cur(p)) \cup {Kstack(p)}, {})
      /\ view' = [view EXCEPT ![p] = [v \in Vpn |-> "none"]] /\ guard' = [guard EXCEPT ![p] = -1]
      /\ cur' = cur /\ sz' = sz /\ pc' = pc /\ op' = op /\ dst' = dst /\ at' = at /\ new' = new /\ rest' = rest
      /\ ret' = ret /\ calls' = calls
  BY DEF wait, kfree, freevm, locals
<1>2. op[p] = "none" /\ pc[p] = "user" /\ at[p] = 0 /\ new[p] = 0 /\ ~Builds(p) /\ ptr[Mem(p)] = NoPage
  BY <1>1, <1>t DEF Control, Ops, Builds, Work, Directory
<1>s. PICK s \in Space, t \in Space : s = Cur(p) /\ t = Other(p) /\ s = Cur(p)' /\ t = Other(p)' /\ s # t
  BY <1>1, <1>t DEF Cur, Other
<1>3. /\ MemOK' /\ Blank(s)' /\ ptr'[Kstack(p)] = NoPage /\ StillTree(t)
      /\ \A b \in Place : b \notin Tree(s) /\ b # Kstack(p) => Still(b)
  <2>1. PICK M \in SUBSET {Mem(p), Kstack(p)}, L \in SUBSET {Mem(p)} : M = {Kstack(p)} /\ L = {}
    OBVIOUS
  <2>2. Release(Tree(s) \cup M, L)
    BY <1>1, <1>s, <2>1
  <2>3. /\ Kstack(p) \in M \cup L /\ (\A a \in L : a \notin M)
        /\ \A b : b # Kstack(p) => b \notin M /\ b \notin L
    BY <2>1
  <2> QED  BY <1>m, <1>s, <2>2, <2>3, FreeTree
<1>4. ProcTypes' /\ (\A r \in Proc : r # p => SameProc(r)) /\ state'[p] = "unused"
  <2>1. [v \in Vpn |-> "none"] \in [Vpn -> Contents \cup {"none"}] /\ -1 \in Int
    BY SMT
  <2>2. state'[p] = "unused"
    BY <1>1, <1>m DEF ProcTypes
  <2> QED  BY <1>1, <1>m, <2>1, <2>2, ProcGoes
<1> USE <1>1, <1>2, <1>s, <1>3, <1>4
<1>5. LocalTypes' /\ (\A r \in Proc : SameLocals(r))
  BY <1>m DEF LocalTypes, SameLocals
<1>6. Control(p)' /\ Work(p)'
  <2>1. Still(Mem(p))
    BY OutsideTrees, ProcPlaces, ProcPlacesApart
  <2>2. ptr'[Mem(p)] = NoPage /\ pc'[p] = "user" /\ op'[p] = "none" /\ at'[p] = 0 /\ new'[p] = 0
    BY <2>1 DEF Still
  <2> QED  BY <2>2, Idle
<1>7. Slot(p)'
  <2>1. Blank(t)'
    <3>1. Blank(t)
      BY <1>t DEF Slot
    <3> QED  BY <3>1, SpaceKept
  <2>2. ~Live(p)'
    BY DEF Live
  <2> QED  BY <2>1, <2>2 DEF Slot
<1>8. state[p] # "embryo" /\ state'[p] # "embryo" /\ ~Builds(p)'
  BY DEF Builds
<1> QED  BY <1>5, <1>6, <1>7, <1>8, OwnStep

LEMMA StepStore ==
  ASSUME VmInv, NEW p \in Proc, NEW v \in Vpn, store(p, v)
  PROVE  VmInv'
<1>t. /\ cur[p] \in {0, 1} /\ sz[p] \in Nat /\ Cur(p) \in Space /\ Slot(p) /\ Control(p) /\ Work(p)
  BY ProcFacts
<1>m. LocalTypes /\ ProcTypes /\ MemOK
  BY InvParts
<1>1. /\ state[p] = "run" /\ pc[p] = "user" /\ Pte(Cur(p), v) \in user
      /\ cont' = [cont EXCEPT ![ptr[Pte(Cur(p), v)]] = "data"] /\ view' = [view EXCEPT ![p][v] = "data"]
      /\ ptr' = ptr /\ user' = user /\ free' = free /\ lost' = lost /\ cur' = cur /\ sz' = sz /\ state' = state /\ guard' = guard
      /\ pc' = pc /\ op' = op /\ dst' = dst /\ at' = at /\ new' = new /\ rest' = rest /\ ret' = ret /\ calls' = calls
  BY DEF store, locals
<1>2. /\ op[p] = "none" /\ at[p] = 0 /\ new[p] = 0 /\ ~Builds(p) /\ ~Growing(p) /\ Live(p) /\ ptr[Mem(p)] = NoPage
  BY <1>1, <1>t DEF Control, Builds, Growing, Live, Work, Directory
<1>s. PICK s \in Space : s = Cur(p) /\ s = Cur(p)'
  BY <1>1, <1>t DEF Cur
<1>n. PICK n \in Nat : n = Pages(sz[p])
  BY <1>t, PagesBounds
<1>v. PICK f, g : f = view[p] /\ g = guard[p]
  OBVIOUS
<1>3. /\ HasTables(s) /\ Upto(s, n) /\ Filled(s, 0, n, f) /\ Flags(s, 0, n, g) /\ ptr[Kstack(p)] # NoPage
      /\ g = -1 \/ (g \in Vpn /\ g < n /\ f[g] = "zero")
  <2>1. \A w \in Below(sz[p]) : w \in Vpn /\ w < n
    BY <1>n DEF Below
  <2> QED  BY <1>2, <1>n, <1>s, <1>t, <1>v, <2>1 DEF Slot
<1>4. v < n /\ v # g /\ ptr[Pte(s, v)] \in Page
  <2>1. Pte(s, v) \in Place
    BY TreePlaces
  <2>2. ptr[Pte(s, v)] # NoPage /\ ptr[Pte(s, v)] \in Page
    BY <1>1, <1>m, <1>s, <2>1 DEF MemOK, MemTypes, UserPresent
  <2>3. v < n
    BY <1>3, <2>2 DEF Upto
  <2>4. 0 <= v
    BY VpnFacts, SMT
  <2> QED  BY <1>1, <1>3, <1>s, <2>2, <2>3, <2>4 DEF Flags
<1>5. MemOK' /\ \A b \in Place : b # Pte(s, v) => Still(b)
  <2>1. PICK B \in SUBSET Place : B = {Pte(s, v)}
    BY TreePlaces
  <2>2. cont' \in [Page -> Contents] /\ \A x \in Page : cont'[x] # cont[x] => x = ptr[Pte(s, v)]
    <3>1. "data" \in Contents /\ cont \in [Page -> Contents]
      BY <1>m DEF MemOK, MemTypes, Contents
    <3>2. cont' = [cont EXCEPT ![ptr[Pte(s, v)]] = "data"]
      BY <1>1, <1>s
    <3> QED  BY <1>4, <3>1, <3>2, Update
  <2>3. \A x \in Page : cont'[x] # cont[x] => \E b \in B : ptr[b] = x
    BY <2>1, <2>2
  <2>4. user' \subseteq user /\ \A a \in user : a \notin B => a \in user'
    BY <1>1
  <2>5. \A b \in Place : b # Pte(s, v) => b \notin B
    BY <2>1
  <2> QED  BY <1>1, <1>m, <2>2, <2>3, <2>4, <2>5, WriteFacts
<1>f. PICK h \in [Vpn -> Contents \cup {"none"}] : view' = [view EXCEPT ![p] = h] /\ h[v] = "data" /\ \A w \in Vpn : w # v => h[w] = f[w]
  <2>1. f \in [Vpn -> Contents \cup {"none"}]
    BY <1>m, <1>v DEF ProcTypes
  <2>2. PICK h : h = [f EXCEPT ![v] = "data"]
    OBVIOUS
  <2>3. h \in [Vpn -> Contents \cup {"none"}] /\ h[v] = "data" /\ \A w \in Vpn : w # v => h[w] = f[w]
    BY <2>1, <2>2 DEF Contents
  <2>4. view' = [view EXCEPT ![p] = h]
    BY <1>1, <1>v, <2>2
  <2> QED  BY <2>3, <2>4
<1>6. ProcTypes' /\ (\A r \in Proc : r # p => SameProc(r)) /\ view'[p] = h
  <2>1. view'[p] = h
    BY <1>f, <1>m DEF ProcTypes
  <2> QED  BY <1>1, <1>f, <1>m, <2>1, ProcGoes
<1>7. LocalTypes' /\ (\A r \in Proc : SameLocals(r))
  BY <1>1, <1>m DEF LocalTypes, SameLocals
<1>8. Control(p)' /\ Work(p)'
  BY <1>1, <1>2, Idle
<1>9. Slot(p)'
  <2>1. HasTables(s)' /\ Upto(s, n)' /\ Flags(s, 0, n, g)'
    BY <1>1, <1>3, PtrSame
  <2>2. Filled(s, 0, n, h)'
    <3> SUFFICES ASSUME NEW w \in Vpn, 0 <= w, w < n PROVE cont'[ptr'[Pte(s, w)]] = h[w]
      BY DEF Filled
    <3>1. CASE w = v
      BY <1>1, <1>4, <1>f, <1>m, <1>s, <3>1 DEF MemOK, MemTypes
    <3>2. CASE w # v
      <4>1. Still(Pte(s, w))
        BY <1>5, <3>2, InTree, TreePlaces
      <4>2. cont[ptr[Pte(s, w)]] = f[w] /\ ptr[Pte(s, w)] # NoPage
        BY <1>3 DEF Filled, Upto
      <4> QED  BY <1>f, <3>2, <4>1, <4>2 DEF Still
    <3> QED  BY <3>1, <3>2
  <2>3. g = -1 \/ (g \in Vpn /\ g < n /\ h[g] = "zero")
    BY <1>3, <1>4, <1>f
  <2>4. Blank(Other(p))'
    BY <1>1, <1>2, <1>t DEF Slot, Blank, Other
  <2>5. state'[p] \in {"run", "zombie"} /\ sz'[p] \in Nat /\ n = Pages(sz'[p]) /\ g = guard'[p] /\ ptr'[Kstack(p)] # NoPage
    BY <1>1, <1>3, <1>n, <1>t, <1>v
  <2> QED  BY <1>6, <1>s, <2>1, <2>2, <2>3, <2>4, <2>5, SlotIs
<1>10. state[p] # "embryo" /\ state'[p] # "embryo" /\ ~Builds(p)'
  BY <1>1, <1>2 DEF Builds
<1>11. \A b \in Place : b \notin Tree(Cur(p)) => Still(b)
  BY <1>5, <1>s, TreePlaces
<1> QED  BY <1>2, <1>5, <1>6, <1>7, <1>8, <1>9, <1>10, <1>11, OwnStep

-----------------------------------------------------------------------------
(* The start and the end of building a process.                            *)

(* p stops building q. *)
LEMMA BuilderLeaves ==
  ASSUME VmInv, NEW p \in Proc, NEW q \in Proc, Builds(p), np(p) = q, ~Builds(p)', \A r \in Proc : r # p => SameLocals(r),
         state'[q] # "embryo", \A x \in Proc : x # q => state'[x] = state[x]
  PROVE  Builders'
<1>m. Builders
  BY InvParts
<1>1. \A r \in Proc : Builds(r)' => r # p /\ Builds(r)
  BY DEF SameLocals, Builds
<1>2. \A r \in Proc : r # p => (Builds(r) => Builds(r)') /\ np(r)' = np(r)
  BY DEF SameLocals, Builds, np
<1>3. \A a, b \in Proc : Builds(a)' /\ Builds(b)' /\ np(a)' = np(b)' => a = b
  BY <1>1, <1>2, <1>m DEF Builders
<1>4. ASSUME NEW x \in Proc, state'[x] = "embryo" PROVE \E r \in Proc : Builds(r)' /\ np(r)' = x
  <2>1. x # q /\ state[x] = "embryo"
    BY <1>4
  <2>2. PICK r \in Proc : Builds(r) /\ np(r) = x
    BY <1>m, <2>1 DEF Builders
  <2> QED  BY <1>2, <2>1, <2>2
<1> QED  BY <1>3, <1>4 DEF Builders

(* A process that is not in use is not in a call either. *)
LEMMA UnusedIdle ==
  ASSUME VmInv, NEW q \in Proc, state[q] = "unused"
  PROVE  /\ op[q] = "none" /\ pc[q] = "user" /\ at[q] = 0 /\ new[q] = 0 /\ ptr[Mem(q)] = NoPage /\ ptr[Kstack(q)] = NoPage
         /\ Blank(Cur(q)) /\ Blank(Other(q)) /\ \A r \in Proc : Builds(r) => np(r) # q
<1>t. op[q] \in Ops /\ Slot(q) /\ Control(q) /\ Work(q)
  BY ProcFacts DEF Ops
<1>1. op[q] = "none" /\ pc[q] = "user" /\ at[q] = 0 /\ new[q] = 0
  BY <1>t DEF Control, Ops
<1>2. ASSUME NEW r \in Proc, Builds(r) PROVE np(r) # q
  <2>1. Control(r)
    BY ProcFacts
  <2>2. state[np(r)] = "embryo"
    BY <1>2, <2>1, SMT DEF Builds, Control, np, Cur
  <2> QED  BY <2>2
<1> QED  BY <1>1, <1>2, <1>t DEF Slot, Work, Directory

LEMMA StepFork ==
  ASSUME VmInv, NEW p \in Proc, NEW q \in Proc, fork(p, q)
  PROVE  VmInv'
<1>t. /\ cur[p] \in {0, 1} /\ sz[p] \in Nat /\ cur[q] \in {0, 1} /\ Cur(p) \in Space /\ Other(p) \in Space /\ Cur(q) \in Space /\ Other(q) \in Space
      /\ Slot(p) /\ Control(p)
  BY ProcFacts
<1>m. ProcTypes /\ MemOK /\ Builders
  BY InvParts
<1>1. /\ Call(p, "fork", "setupkvm") /\ state[q] = "unused" /\ kalloc(Kstack(q), "stack")
      /\ state' = [state EXCEPT ![q] = "embryo"] /\ dst' = [dst EXCEPT ![p] = Cur(q)]
      /\ cur' = cur /\ sz' = sz /\ view' = view /\ guard' = guard /\ at' = at /\ new' = new /\ rest' = rest /\ ret' = ret
  BY DEF fork
<1>2. /\ LocalTypes' /\ (\A x \in Proc : x # p => SameLocals(x)) /\ pc'[p] = "setupkvm" /\ op'[p] = "fork"
      /\ op[p] = "none" /\ pc[p] = "user" /\ at[p] = 0 /\ new[p] = 0 /\ ptr[Mem(p)] = NoPage /\ state[p] = "run"
  <2>1. "fork" \in Ops /\ "setupkvm" \in PCs
    BY DEF Ops, PCs
  <2> QED  BY <1>1, <1>t, <2>1, Called
<1>3. /\ op[q] = "none" /\ pc[q] = "user" /\ at[q] = 0 /\ new[q] = 0 /\ ptr[Mem(q)] = NoPage /\ ptr[Kstack(q)] = NoPage
      /\ Blank(Cur(q)) /\ Blank(Other(q)) /\ \A r \in Proc : Builds(r) => np(r) # q
  BY <1>1, UnusedIdle
<1>4. p # q
  BY <1>1, <1>2
<1>5. MemOK' /\ ptr'[Kstack(q)] # NoPage /\ \A b \in Place : b # Kstack(q) => Still(b)
  <2>1. "stack" \in Contents
    BY DEF Contents
  <2> QED  BY <1>1, <1>3, <1>m, <2>1, ProcPlaces, kallocFacts
<1>6. /\ ProcTypes' /\ (\A r \in Proc : r # q => SameProc(r)) /\ state'[q] = "embryo"
  <2>1. state'[q] = "embryo"
    BY <1>1, <1>m DEF ProcTypes
  <2> QED  BY <1>1, <1>m, <2>1, ProcGoes
<1>7. dst'[p] = Cur(q) /\ np(p)' = q /\ Cur(q)' = Cur(q) /\ Other(q)' = Other(q)
  <2>1. dst'[p] = Cur(q)
    <3>1. dst \in [Proc -> Space]
      BY InvParts DEF LocalTypes
    <3> QED  BY <1>1, <3>1
  <2> QED  BY <1>1, <2>1, SMT DEF np, Cur, Other
<1>8. \A t \in Space : StillTree(t)
  BY <1>5, TreePlaces, OutsideTrees DEF StillTree
<1>9. Builders'
  <2>1. \A r \in Proc : r # p => (Builds(r)' <=> Builds(r)) /\ np(r)' = np(r)
    BY <1>2 DEF SameLocals, Builds, np
  <2>2. ~Builds(p) /\ Builds(p)'
    BY <1>2 DEF Builds
  <2>3. ASSUME NEW a \in Proc, NEW b \in Proc, Builds(a)', Builds(b)', np(a)' = np(b)' PROVE a = b
    BY <1>3, <1>7, <1>m, <2>1, <2>3 DEF Builders
  <2>4. ASSUME NEW x \in Proc, state'[x] = "embryo" PROVE \E r \in Proc : Builds(r)' /\ np(r)' = x
    <3>1. CASE x = q
      BY <1>7, <2>2, <3>1
    <3>2. CASE x # q
      <4>1. state[x] = "embryo"
        BY <1>6, <2>4, <3>2 DEF SameProc
      <4>2. PICK r \in Proc : Builds(r) /\ np(r) = x
        BY <1>m, <4>1 DEF Builders
      <4> QED  BY <2>1, <2>2, <4>2
    <3> QED  BY <3>1, <3>2
  <2> QED  BY <2>3, <2>4 DEF Builders
<1>10. Control(p)'
  <2>1. state'[p] = "run"
    BY <1>2, <1>4, <1>6 DEF SameProc
  <2> QED  BY <1>2, <1>6, <1>7, <2>1 DEF Control
<1>11. Slot(p)'
  <2>1. Still(Kstack(p))
    BY <1>4, <1>5, ProcPlaces, ProcPlacesApart
  <2>2. ~Growing(p) /\ op[p] # "exec"
    BY <1>2 DEF Growing
  <2> QED  BY <1>4, <1>6, <1>8, <1>t, <2>1, <2>2, SlotKept
<1>12. Work(p)'
  <2>1. ptr'[Mem(p)] = NoPage /\ at'[p] = 0 /\ new'[p] = 0
    BY <1>1, <1>2, <1>5, ProcPlaces, ProcPlacesApart, SMT DEF Still
  <2>2. Blank(Cur(q))'
    BY <1>3, <1>7, <1>8, <1>t, SpaceKept
  <2>3. Blank(dst[p])'
    BY <1>7, <2>2
  <2>4. Directory(p)'
    BY <1>2, <1>5, <1>7, <2>1, <2>3 DEF Directory, Early, Middle
  <2> QED  BY <1>2, <2>4 DEF Work, Boot, Copy, Grow, Growing, Load, Middle
<1>13. Control(q)' /\ Work(q)'
  <2>1. /\ ptr'[Mem(q)] = NoPage /\ pc'[q] = "user" /\ op'[q] = "none" /\ at'[q] = 0 /\ new'[q] = 0
    BY <1>2, <1>3, <1>4, <1>5, ProcPlaces, ProcPlacesApart DEF Still, SameLocals
  <2> QED  BY <2>1, Idle
<1>14. Slot(q)'
  <2>1. Blank(Other(q))'
    BY <1>3, <1>7, <1>8, <1>t, SpaceKept
  <2> QED  BY <1>6, <2>1 DEF Slot, Live
<1>15. \A b \in Place : b \notin Mine(p, q) => Still(b)
  BY <1>5, MineFacts
<1>16. state[p] # "embryo" /\ state[q] # "embryo"
  BY <1>1, <1>2
<1> QED  BY <1>2, <1>5, <1>6, <1>9, <1>10, <1>11, <1>12, <1>13, <1>14, <1>15, <1>16, StepInv

LEMMA StepForkBad ==
  ASSUME VmInv, NEW p \in Proc, fork_bad(p)
  PROVE  VmInv'
<1>1. /\ op[p] = "fork" /\ Release(Tree(dst[p]) \cup {Kstack(np(p))}, {Mem(p)})
      /\ state' = [state EXCEPT ![np(p)] = "unused"] /\ Return(p, -1)
      /\ cur' = cur /\ sz' = sz /\ view' = view /\ guard' = guard /\ calls' = calls
  BY DEF fork_bad, freevm
<1>q. PICK q \in Proc : q = np(p) /\ q # p /\ op[q] = "none" /\ state[q] = "embryo" /\ state[p] = "run" /\ dst[p] = Cur(q)
  BY <1>1, BuiltIdle
<1>t. /\ cur[p] \in {0, 1} /\ sz[p] \in Nat /\ cur[q] \in {0, 1} /\ Cur(p) \in Space /\ Other(p) \in Space
      /\ Cur(q) \in Space /\ Other(q) \in Space /\ Cur(q) # Other(q) /\ Slot(p) /\ Slot(q) /\ Control(q) /\ Work(q)
  BY ProcFacts
<1>m. ProcTypes /\ MemOK /\ LocalTypes
  BY InvParts
<1>s. PICK s \in Space : s = Cur(q) /\ s = Cur(q)' /\ s = dst[p] /\ s # Other(q) /\ s # Cur(p) /\ s # Other(p) /\ Other(q)' = Other(q)
  <2>1. Cur(q) # Cur(p) /\ Cur(q) # Other(p)
    BY <1>q DEF Cur, Other
  <2>2. Cur(q)' = Cur(q) /\ Other(q)' = Other(q)
    BY <1>1 DEF Cur, Other
  <2> QED  BY <1>q, <1>t, <2>1, <2>2
<1>2. /\ MemOK' /\ Blank(s)' /\ ptr'[Kstack(q)] = NoPage /\ ptr'[Mem(p)] = NoPage /\ (\A t \in Space : t # s => StillTree(t))
      /\ \A b \in Place : b \notin Tree(s) /\ b # Kstack(q) /\ b # Mem(p) => Still(b)
  <2>1. PICK M \in SUBSET {Mem(p), Kstack(q)}, L \in SUBSET {Mem(p)} : M = {Kstack(q)} /\ L = {Mem(p)}
    OBVIOUS
  <2>2. Release(Tree(s) \cup M, L)
    BY <1>1, <1>q, <1>s, <2>1
  <2>3. /\ Kstack(q) \in M \cup L /\ Mem(p) \in M \cup L /\ (\A a \in L : a \notin M)
        /\ \A b : b # Kstack(q) /\ b # Mem(p) => b \notin M /\ b \notin L
    BY <2>1, ProcPlacesApart
  <2> QED  BY <1>m, <2>2, <2>3, FreeTree
<1>3. ProcTypes' /\ (\A r \in Proc : r # q => SameProc(r)) /\ state'[q] = "unused"
  <2>1. state' = [state EXCEPT ![q] = "unused"]
    BY <1>1, <1>q
  <2>2. state'[q] = "unused"
    BY <1>m, <2>1 DEF ProcTypes
  <2> QED  BY <1>1, <1>m, <2>1, <2>2, ProcGoes
<1>4. /\ LocalTypes' /\ (\A x \in Proc : x # p => SameLocals(x))
      /\ pc'[p] = "user" /\ op'[p] = "none" /\ at'[p] = 0 /\ new'[p] = 0
  <2>1. calls' \in Nat /\ -1 \in {0, -1}
    BY <1>1, <1>m DEF LocalTypes
  <2> QED  BY <1>1, <1>m, <2>1, Returned
<1> USE <1>q, <1>t, <1>s, <1>2, <1>3, <1>4
<1>5. Builders'
  <2>1. Builds(p) /\ ~Builds(p)' /\ state'[q] # "embryo"
    BY <1>1 DEF Builds
  <2>2. \A x \in Proc : x # q => state'[x] = state[x]
    BY DEF SameProc
  <2> QED  BY <2>1, <2>2, BuilderLeaves
<1>6. Control(p)' /\ Work(p)'
  BY Idle
<1>7. Slot(p)'
  <2>1. Still(Kstack(p)) /\ StillTree(Cur(p)) /\ StillTree(Other(p))
    BY OutsideTrees, ProcPlaces, ProcPlacesApart
  <2>2. ~Growing(p) /\ op[p] # "exec"
    BY <1>1 DEF Growing
  <2> QED  BY <2>1, <2>2, SlotKept
<1>8. Control(q)' /\ Work(q)'
  <2>1. pc[q] = "user" /\ at[q] = 0 /\ new[q] = 0 /\ ptr[Mem(q)] = NoPage
    BY DEF Control, Work, Directory
  <2>2. Still(Mem(q)) /\ SameLocals(q)
    BY OutsideTrees, ProcPlaces, ProcPlacesApart
  <2>3. ptr'[Mem(q)] = NoPage /\ pc'[q] = "user" /\ op'[q] = "none" /\ at'[q] = 0 /\ new'[q] = 0
    BY <2>1, <2>2 DEF Still, SameLocals
  <2> QED  BY <2>3, Idle
<1>9. Slot(q)'
  <2>1. Blank(Other(q))'
    <3>1. Blank(Other(q))
      BY DEF Slot
    <3> QED  BY <3>1, SpaceKept
  <2>2. ~Live(q)'
    BY DEF Live
  <2>3. Blank(Cur(q))'
    OBVIOUS
  <2> QED  BY <2>1, <2>2, <2>3 DEF Slot
<1>10. \A b \in Place : b \notin Mine(p, q) => Still(b)
  <2>1. Tree(s) \subseteq Mine(p, q)
    BY MineFacts DEF Cur
  <2> QED  BY <2>1, MineFacts
<1>11. state[p] # "embryo" /\ Builds(p) /\ np(p) = q
  BY <1>1 DEF Builds
<1> QED  BY <1>5, <1>6, <1>7, <1>8, <1>9, <1>10, <1>11, StepInv

LEMMA StepForkDone ==
  ASSUME VmInv, NEW p \in Proc, fork_done(p)
  PROVE  VmInv'
<1>1. /\ pc[p] = "copyuvm" /\ at[p] >= Pages(sz[p])
      /\ sz' = [sz EXCEPT ![np(p)] = sz[p]] /\ state' = [state EXCEPT ![np(p)] = "run"]
      /\ view' = [view EXCEPT ![np(p)] = view[p]] /\ guard' = [guard EXCEPT ![np(p)] = guard[p]]
      /\ Return(p, 0) /\ pages' = pages /\ cur' = cur /\ calls' = calls
  BY DEF fork_done, pages
<1>2. op[p] = "fork" /\ Middle(p) /\ Done(p) = at[p] /\ Builds(p)
  <2>1. Control(p) /\ op[p] \in {"none", "boot", "fork", "grow", "shrink", "exec"}
    BY ProcFacts
  <2> QED  BY <1>1, <2>1 DEF Control, Middle, Done, Builds
<1>q. PICK q \in Proc : q = np(p) /\ q # p /\ op[q] = "none" /\ state[q] = "embryo" /\ state[p] = "run" /\ dst[p] = Cur(q)
  BY <1>2, BuiltIdle
<1>t. /\ cur[p] \in {0, 1} /\ sz[p] \in Nat /\ sz[p] < KERNBASE /\ at[p] \in Nat /\ Slot(p) /\ Work(p)
      /\ Cur(q) \in Space /\ Other(q) \in Space /\ Slot(q) /\ Control(q) /\ Work(q)
  BY ProcFacts
<1>m. ProcTypes /\ MemOK /\ LocalTypes
  BY InvParts
<1>s. PICK s \in Space : s = Cur(q) /\ s = Cur(q)' /\ s = dst[p] /\ Other(q)' = Other(q)
  BY <1>1, <1>q, <1>t DEF Cur, Other
<1>v. PICK f, g : f = view[p] /\ g = guard[p]
  OBVIOUS
<1>n. PICK n \in Nat : n = Pages(sz[p]) /\ n = at[p]
  <2>1. Pages(sz[p]) \in Nat /\ at[p] <= Pages(sz[p])
    BY <1>2, <1>t, PagesBounds DEF Work, Copy
  <2> QED  BY <1>1, <1>t, <2>1, SMT
<1> USE <1>1, <1>2, <1>q, <1>t, <1>m, <1>s, <1>v, <1>n
<1>3. /\ HasTables(s) /\ Upto(s, n) /\ Filled(s, 0, n, f) /\ Flags(s, 0, n, g) /\ ptr[Kstack(q)] # NoPage
  <2>1. pc[p] # "userinit"
    OBVIOUS
  <2> QED  BY <2>1 DEF Work, Directory, Copy
<1>4. g = -1 \/ (g \in Vpn /\ g < n /\ f[g] = "zero")
  <2>1. \A w \in Below(sz[p]) : w \in Vpn /\ w < n
    BY DEF Below
  <2>2. Live(p)
    BY DEF Live
  <2> QED  BY <2>1, <2>2 DEF Slot
<1>5. MemOK' /\ (\A b : Still(b)) /\ \A t : StillTree(t)
  BY PagesKept DEF StillTree
<1>6. /\ ProcTypes' /\ (\A r \in Proc : r # q => SameProc(r))
      /\ state'[q] = "run" /\ sz'[q] = sz[p] /\ view'[q] = f /\ guard'[q] = g
  <2>1. /\ sz[p] \in 0 .. KERNBASE - 1 /\ view[p] \in [Vpn -> Contents \cup {"none"}] /\ guard[p] \in Int
    BY DEF ProcTypes
  <2>2. /\ sz' = [sz EXCEPT ![q] = sz[p]] /\ state' = [state EXCEPT ![q] = "run"]
        /\ view' = [view EXCEPT ![q] = view[p]] /\ guard' = [guard EXCEPT ![q] = guard[p]]
    OBVIOUS
  <2>3. state'[q] = "run" /\ sz'[q] = sz[p] /\ view'[q] = view[p] /\ guard'[q] = guard[p]
    BY <2>2 DEF ProcTypes
  <2> QED  BY <2>1, <2>2, <2>3, ProcGoes
<1>7. /\ LocalTypes' /\ (\A x \in Proc : x # p => SameLocals(x))
      /\ pc'[p] = "user" /\ op'[p] = "none" /\ at'[p] = 0 /\ new'[p] = 0
  <2>1. calls' \in Nat /\ 0 \in {0, -1}
    BY DEF LocalTypes
  <2> QED  BY <2>1, Returned
<1> USE <1>5, <1>6, <1>7
<1>8. Builders'
  <2>1. ~Builds(p)' /\ state'[q] # "embryo"
    BY DEF Builds
  <2>2. \A x \in Proc : x # q => state'[x] = state[x]
    BY DEF SameProc
  <2> QED  BY <2>1, <2>2, BuilderLeaves
<1>9. Control(p)' /\ Work(p)'
  <2>1. ptr[Mem(p)] = NoPage
    BY DEF Work, Directory
  <2>2. ptr'[Mem(p)] = NoPage
    BY <2>1 DEF Still
  <2> QED  BY <2>2, Idle
<1>10. Slot(p)'
  <2>1. ~Growing(p) /\ op[p] # "exec"
    BY DEF Growing
  <2> QED  BY <2>1, SlotKept
<1>11. Control(q)' /\ Work(q)'
  <2>1. pc[q] = "user" /\ at[q] = 0 /\ new[q] = 0 /\ ptr[Mem(q)] = NoPage
    BY DEF Control, Work, Directory
  <2>2. ptr'[Mem(q)] = NoPage /\ pc'[q] = "user" /\ op'[q] = "none" /\ at'[q] = 0 /\ new'[q] = 0
    BY <2>1 DEF Still, SameLocals
  <2> QED  BY <2>2, Idle
<1>12. Slot(q)'
  <2>1. HasTables(s)' /\ Upto(s, n)' /\ Filled(s, 0, n, f)' /\ Flags(s, 0, n, g)'
    BY <1>3, SpaceSame
  <2>2. Blank(Other(q))'
    <3>1. Blank(Other(q))
      BY DEF Slot
    <3> QED  BY <3>1, SpaceKept
  <2>3. state'[q] \in {"run", "zombie"} /\ sz'[q] \in Nat /\ n = Pages(sz'[q]) /\ ptr'[Kstack(q)] # NoPage
    BY <1>3 DEF Still
  <2> QED  BY <1>4, <2>1, <2>2, <2>3, SlotIs
<1>13. state[p] # "embryo" /\ \A b \in Place : Still(b)
  OBVIOUS
<1> QED  BY <1>8, <1>9, <1>10, <1>11, <1>12, <1>13, StepInv

LEMMA StepUserinitDone ==
  ASSUME VmInv, userinit_done
  PROVE  VmInv'
<1>p. PICK p \in Proc : p = initproc
  BY VmAssumption
<1>t. /\ at[p] \in Nat /\ Cur(p) \in Space /\ Other(p) \in Space /\ Slot(p) /\ Control(p) /\ Work(p)
  BY ProcFacts
<1>m. ProcTypes /\ MemOK /\ LocalTypes
  BY InvParts
<1>1. /\ op[p] = "boot" /\ pc[p] = "allocuvm"
      /\ sz' = [sz EXCEPT ![p] = PGSIZE] /\ state' = [state EXCEPT ![p] = "run"]
      /\ view' = [view EXCEPT ![p][0] = "text"]
      /\ Return(p, 0) /\ pages' = pages /\ cur' = cur /\ guard' = guard /\ calls' = calls
  BY <1>p DEF userinit_done, pages
<1>2. Builds(p) /\ Middle(p) /\ Done(p) = at[p] /\ at[p] = 1 /\ dst[p] = Cur(p) /\ np(p) = p /\ state[p] = "embryo" /\ guard[p] = -1
  BY <1>1, <1>t, SMT DEF Builds, Middle, Done, Control, Work, Boot, np, Cur
<1>s. PICK s \in Space : s = Cur(p) /\ s = Cur(p)' /\ s = dst[p] /\ Other(p)' = Other(p)
  BY <1>1, <1>2, <1>t DEF Cur, Other
<1>3. /\ HasTables(s) /\ Upto(s, 1) /\ Filled(s, 0, 1, Texts) /\ Flags(s, 0, 1, -1) /\ ptr[Kstack(p)] # NoPage /\ ptr[Mem(p)] = NoPage
  <2>1. pc[p] # "userinit" /\ pc[p] # "mappages"
    BY <1>1
  <2>2. Directory(p) /\ Boot(p)
    BY <1>t DEF Work
  <2>3. HasTables(s) /\ Upto(s, 1) /\ ptr[Kstack(p)] # NoPage /\ ptr[Mem(p)] = NoPage
    BY <1>2, <1>s, <2>1, <2>2 DEF Directory
  <2>4. Filled(s, 0, 1, Texts) /\ Flags(s, 0, 1, -1)
    BY <1>1, <1>s, <2>2 DEF Boot
  <2> QED  BY <2>3, <2>4
<1>4. MemOK' /\ (\A b : Still(b)) /\ \A t : StillTree(t)
  BY <1>1, <1>m, PagesKept DEF StillTree
<1>f. PICK f \in [Vpn -> Contents \cup {"none"}] : view' = [view EXCEPT ![p] = f] /\ f[0] = "text"
  <2>1. view[p] \in [Vpn -> Contents \cup {"none"}] /\ "text" \in Contents \cup {"none"} /\ 0 \in Vpn
    BY <1>m, VpnFacts DEF ProcTypes, Contents
  <2>2. PICK f : f = [view[p] EXCEPT ![0] = "text"]
    OBVIOUS
  <2>3. f \in [Vpn -> Contents \cup {"none"}] /\ f[0] = "text"
    BY <2>1, <2>2, Update
  <2>4. view' = [view EXCEPT ![p] = f]
    BY <1>1, <2>2
  <2> QED  BY <2>3, <2>4
<1>5. ProcTypes' /\ (\A r \in Proc : r # p => SameProc(r)) /\ state'[p] = "run" /\ sz'[p] = PGSIZE /\ view'[p] = f
  <2>1. PGSIZE \in 0 .. KERNBASE - 1
    BY Geometry, SMT
  <2>2. state'[p] = "run" /\ sz'[p] = PGSIZE /\ view'[p] = f
    BY <1>1, <1>f, <1>m DEF ProcTypes
  <2> QED  BY <1>1, <1>f, <1>m, <2>1, <2>2, ProcGoes
<1>6. /\ LocalTypes' /\ (\A x \in Proc : x # p => SameLocals(x))
      /\ pc'[p] = "user" /\ op'[p] = "none" /\ at'[p] = 0 /\ new'[p] = 0
  <2>1. calls' \in Nat /\ 0 \in {0, -1}
    BY <1>1, <1>m DEF LocalTypes
  <2> QED  BY <1>1, <1>m, <2>1, Returned
<1>7. Builders'
  <2>1. ~Builds(p)' /\ state'[p] # "embryo"
    BY <1>5, <1>6 DEF Builds
  <2>2. \A x \in Proc : x # p => state'[x] = state[x]
    BY <1>5 DEF SameProc
  <2> QED  BY <1>2, <1>6, <2>1, <2>2, BuilderLeaves
<1>8. Control(p)' /\ Work(p)'
  <2>1. ptr'[Mem(p)] = NoPage
    BY <1>3, <1>4 DEF Still
  <2> QED  BY <1>6, <2>1, Idle
<1>9. Slot(p)'
  <2>1. Filled(s, 0, 1, f)
    <3>1. \A v \in Vpn : v < 1 => v = 0
      <4>1. \A v \in Vpn : v \in Nat
        BY VpnFacts
      <4> QED  BY <4>1, SMT
    <3>2. Texts[0] = "text" /\ 0 \in Vpn
      BY VpnFacts DEF Texts
    <3> QED  BY <1>3, <1>f, <3>1, <3>2 DEF Filled
  <2>2. HasTables(s)' /\ Upto(s, 1)' /\ Filled(s, 0, 1, f)' /\ Flags(s, 0, 1, -1)'
    BY <1>1, <1>3, <1>m, <2>1, SpaceSame
  <2>3. Blank(Other(p))'
    <3>1. Blank(Other(p))
      BY <1>1, <1>t DEF Slot
    <3> QED  BY <1>4, <1>s, <1>t, <3>1, SpaceKept
  <2>4. PICK n \in Nat, g \in Int : n = 1 /\ g = -1
    BY SMT
  <2>5. state'[p] \in {"run", "zombie"} /\ sz'[p] \in Nat /\ n = Pages(sz'[p]) /\ ptr'[Kstack(p)] # NoPage /\ g = guard'[p]
    BY <1>1, <1>2, <1>3, <1>4, <1>5, <2>4, Geometry DEF Still
  <2>6. HasTables(s)' /\ Upto(s, n)' /\ Filled(s, 0, n, f)' /\ Flags(s, 0, n, g)'
    BY <2>2, <2>4
  <2> QED  BY <1>5, <1>s, <2>3, <2>4, <2>5, <2>6, SlotIs
<1>10. \A b \in Place : Still(b)
  BY <1>4
<1> QED  BY <1>2, <1>4, <1>5, <1>6, <1>7, <1>8, <1>9, <1>10, StepInv

-----------------------------------------------------------------------------
(* The invariant.                                                          *)

LEMMA InitMemory ==
  ASSUME Init
  PROVE  MemOK /\ \A a \in Place : ptr[a] = NoPage
<1>1. /\ ptr = [a \in Place |-> NoPage] /\ user = {} /\ free \in Memory /\ lost = Page \ free /\ cont = [pg \in Page |-> "junk"]
  BY DEF Init
<1> USE <1>1
<1>2. \A a \in Place : ptr[a] = NoPage
  OBVIOUS
<1>3. free \subseteq Page
  BY VmAssumption
<1>4. MemTypes
  BY <1>3 DEF MemTypes, Contents
<1>5. OnePlace
  <2>1. NoPage \notin Page
    BY VmAssumption
  <2> QED  BY <1>2, <1>3, <2>1 DEF OnePlace
<1> QED  BY <1>2, <1>4, <1>5 DEF MemOK, UserPresent

LEMMA InitInv ==
  ASSUME Init
  PROVE  VmInv
<1>m. MemOK /\ \A a \in Place : ptr[a] = NoPage
  BY InitMemory
<1>i. initproc \in Proc
  BY VmAssumption
<1>1. /\ cur = [p \in Proc |-> 0] /\ sz = [p \in Proc |-> 0]
      /\ state = [p \in Proc |-> IF p = initproc THEN "embryo" ELSE "unused"]
      /\ view = [p \in Proc |-> [v \in Vpn |-> "none"]] /\ guard = [p \in Proc |-> -1]
      /\ pc = [p \in Proc |-> IF p = initproc THEN "userinit" ELSE "user"]
      /\ op = [p \in Proc |-> IF p = initproc THEN "boot" ELSE "none"]
      /\ dst = [p \in Proc |-> <<p, 0>>] /\ at = [p \in Proc |-> 0] /\ new = [p \in Proc |-> 0]
      /\ rest = [p \in Proc |-> <<>>] /\ ret = [p \in Proc |-> 0] /\ calls = 0
  BY DEF Init
<1>2. ProcTypes
  <2>1. 0 \in 0 .. KERNBASE - 1
    BY Geometry, SMT
  <2> QED  BY <1>1, <2>1, SMT DEF ProcTypes
<1>3. LocalTypes
  <2>1. <<>> \in Files
    BY SMT DEF Files
  <2>2. \A p \in Proc : <<p, 0>> \in Space
    BY DEF Space
  <2> QED  BY <1>1, <2>1, <2>2 DEF LocalTypes, PCs, Ops
<1>4. ASSUME NEW p \in Proc
      PROVE  /\ cur[p] = 0 /\ at[p] = 0 /\ new[p] = 0 /\ dst[p] = Cur(p) /\ np(p) = p /\ guard[p] = -1 /\ Cur(p) \in Space /\ Other(p) \in Space
             /\ p = initproc => op[p] = "boot" /\ pc[p] = "userinit" /\ state[p] = "embryo"
             /\ p # initproc => op[p] = "none" /\ pc[p] = "user" /\ state[p] = "unused"
  BY <1>1, SMT DEF Cur, Other, np, Space
<1>5. Builders
  <2>1. \A p \in Proc : np(p) = p /\ (state[p] = "embryo" => Builds(p))
    BY <1>4 DEF Builds
  <2> QED  BY <2>1 DEF Builders
<1>6. \A s \in Space : Blank(s)
  BY <1>m, TreePlaces DEF Blank
<1>7. ASSUME NEW p \in Proc PROVE Control(p) /\ Slot(p) /\ Work(p)
  <2>1. Control(p)
    BY <1>4 DEF Control
  <2>2. Blank(Cur(p)) /\ Blank(Other(p)) /\ Blank(dst[p]) /\ ptr[Kstack(p)] = NoPage /\ ptr[Mem(p)] = NoPage
    BY <1>4, <1>6, <1>m, ProcPlaces
  <2>3. Slot(p)
    <3>1. ~Live(p)
      BY <1>4 DEF Live
    <3> QED  BY <2>2, <3>1 DEF Slot
  <2>4. Directory(p)
    BY <1>4, <2>2 DEF Directory, Early, Middle, Builds
  <2>5. Boot(p) /\ Copy(p) /\ Grow(p) /\ Load(p)
    BY <1>4 DEF Boot, Copy, Grow, Growing, Load, Middle
  <2> QED  BY <2>1, <2>3, <2>4, <2>5 DEF Work
<1> QED  BY <1>2, <1>3, <1>5, <1>7, <1>m, InvParts

LEMMA Stutter ==
  ASSUME VmInv, vars' = vars
  PROVE  VmInv'
<1>m. MemOK /\ ProcTypes /\ LocalTypes /\ Builders
  BY InvParts
<1>1. /\ pages' = pages /\ procs' = procs /\ pc' = pc /\ op' = op /\ dst' = dst /\ at' = at /\ new' = new /\ rest' = rest /\ ret' = ret
      /\ calls' = calls
  BY DEF vars, locals
<1>2. MemOK' /\ (\A b : Still(b)) /\ \A t : StillTree(t)
  BY <1>1, <1>m, PagesKept DEF StillTree
<1>3. ProcTypes' /\ \A r \in Proc : SameProc(r)
  BY <1>1, <1>m, ProcsSame
<1>4. LocalTypes' /\ \A r \in Proc : SameLocals(r)
  BY <1>1, <1>m DEF LocalTypes, SameLocals
<1> USE <1>1, <1>2, <1>3, <1>4
<1>5. Builders'
  BY <1>m DEF Builders, Builds, np, procs
<1>6. ASSUME NEW r \in Proc PROVE Control(r)' /\ Slot(r)' /\ Work(r)'
  <2>1. /\ cur[r] \in {0, 1} /\ sz[r] \in Nat /\ dst[r] \in Space /\ at[r] \in Nat /\ new[r] \in Nat /\ np(r) \in Proc
        /\ Control(r) /\ Slot(r) /\ Work(r)
    BY ProcFacts
  <2> USE <2>1
  <2>2. (Growing(r) => Growing(r)') /\ (op[r] = "exec" => op'[r] = "exec")
    BY DEF Growing
  <2>3. Slot(r)'
    BY <2>2, SlotKept
  <2>4. Work(r)'
    BY WorkKept
  <2>5. Control(r)'
    BY ControlKept
  <2> QED  BY <2>3, <2>4, <2>5
<1> QED  BY <1>5, <1>6 DEF VmInv, MemOK, TypeOK, MemTypes, ProcTypes, LocalTypes, PCs, Ops, Files

LEMMA NextInv ==
  ASSUME VmInv, Next
  PROVE  VmInv'
<1>1. CASE userinit \/ inituvm \/ userinit_done
  BY <1>1, StepUserinit, StepInituvm, StepUserinitDone
<1>2. ASSUME NEW p \in Proc, setupkvm(p) \/ setupkvm_map(p) \/ walkpgdir(p) \/ mappages(p) \/ copyuvm(p) \/ allocuvm_page(p)
      PROVE  VmInv'
  BY <1>2, StepSetupkvm, StepSetupkvmMap, StepWalkpgdir, StepMappages, StepCopyuvm, StepAllocuvmPage
<1>3. ASSUME NEW p \in Proc, (\E q \in Proc : fork(p, q)) \/ allocproc_fails(p) \/ fork_bad(p) \/ fork_done(p)
      PROVE  VmInv'
  BY <1>3, StepFork, StepAllocprocFails, StepForkBad, StepForkDone
<1>4. ASSUME NEW p \in Proc, (\E n \in Steps : sbrk(p, n)) \/ growproc_shrink(p) \/ growproc_grow(p) \/ growproc_done(p)
                             \/ growproc_toobig(p) \/ growproc_bad(p)
      PROVE  VmInv'
  BY <1>4, StepSbrk, StepGrowprocShrink, StepGrowprocGrow, StepGrowprocDone, StepGrowprocToobig, StepGrowprocBad
<1>5. ASSUME NEW p \in Proc, (\E image \in Images : exec(p, image)) \/ exec_alloc(p) \/ exec_allocated(p) \/ loaduvm(p)
                             \/ exec_args(p) \/ exec_commit(p) \/ exec_bad(p)
      PROVE  VmInv'
  BY <1>5, StepExec, StepExecAlloc, StepExecAllocated, StepLoaduvm, StepExecArgs, StepExecCommit, StepExecBad
<1>6. ASSUME NEW p \in Proc, exit(p) \/ wait(p) \/ \E v \in Vpn : store(p, v)
      PROVE  VmInv'
  BY <1>6, StepExit, StepWait, StepStore
<1> QED  BY <1>1, <1>2, <1>3, <1>4, <1>5, <1>6 DEF Next

(* The invariant holds whatever calls the processes make, and wherever in  *)
(* them each of them is.                                                   *)
THEOREM VmInvariant == Spec => []VmInv
<1>1. Init => VmInv
  BY InitInv
<1>2. VmInv /\ [Next]_vars => VmInv'
  BY NextInv, Stutter
<1> QED  BY <1>1, <1>2, PTL DEF Spec

(* kalloc and kfree: each page has one place at any time.                  *)
THEOREM VmOnePlace == Spec => []OnePlace
<1>1. VmInv => OnePlace
  BY DEF VmInv
<1> QED  BY <1>1, VmInvariant, PTL

LEMMA SizesHold ==
  ASSUME VmInv
  PROVE  SizeIsMapped /\ PrivateMemory /\ GuardClosed
<1> SUFFICES ASSUME NEW p \in Proc, Live(p)
             PROVE  /\ HasTables(Cur(p)) /\ ptr[Kstack(p)] # NoPage
                    /\ Below(sz[p]) \subseteq Mapped(Cur(p))
                    /\ op[p] # "grow" => Mapped(Cur(p)) = Below(sz[p])
                    /\ \A v \in Below(sz[p]) : cont[ptr[Pte(Cur(p), v)]] = view[p][v]
                    /\ guard[p] \in Below(sz[p]) => view[p][guard[p]] = "zero"
                    /\ \A v \in Below(sz[p]) : Pte(Cur(p), v) \in user <=> v # guard[p]
  BY DEF SizeIsMapped, PrivateMemory, GuardClosed
<1>t. Slot(p) /\ sz[p] \in Nat
  BY ProcFacts
<1>1. /\ HasTables(Cur(p)) /\ ptr[Kstack(p)] # NoPage /\ Below(sz[p]) \subseteq Mapped(Cur(p))
      /\ ~Growing(p) => Upto(Cur(p), Pages(sz[p]))
      /\ Filled(Cur(p), 0, Pages(sz[p]), view[p]) /\ Flags(Cur(p), 0, Pages(sz[p]), guard[p])
      /\ guard[p] = -1 \/ view[p][guard[p]] = "zero"
  BY <1>t DEF Slot
<1>2. \A v \in Vpn : (v \in Below(sz[p]) <=> v < Pages(sz[p])) /\ 0 <= v /\ v # -1
  <2>1. \A v \in Vpn : (v \in Below(sz[p]) <=> v < Pages(sz[p])) /\ v \in Nat
    BY <1>t, VpnFacts
  <2> QED  BY <2>1, SMT
<1>3. \A v \in Below(sz[p]) : v \in Vpn
  BY DEF Below
<1>4. op[p] # "grow" => Mapped(Cur(p)) = Below(sz[p])
  <2>1. ASSUME op[p] # "grow" PROVE \A v \in Vpn : ptr[Pte(Cur(p), v)] # NoPage <=> v \in Below(sz[p])
    BY <1>1, <1>2, <2>1 DEF Growing, Upto
  <2> QED  BY <1>3, <2>1 DEF Mapped
<1>5. \A v \in Below(sz[p]) : cont[ptr[Pte(Cur(p), v)]] = view[p][v]
  BY <1>1, <1>2, <1>3 DEF Filled
<1>6. \A v \in Below(sz[p]) : Pte(Cur(p), v) \in user <=> v # guard[p]
  BY <1>1, <1>2, <1>3 DEF Flags
<1>7. guard[p] \in Below(sz[p]) => view[p][guard[p]] = "zero"
  BY <1>1, <1>2, <1>3
<1> QED  BY <1>1, <1>4, <1>5, <1>6, <1>7

LEMMA NoPanicHolds ==
  ASSUME VmInv
  PROVE  NoPanic
<1> SUFFICES ASSUME NEW p \in Proc
             PROVE  /\ pc[p] = "mappages" => at[p] \in Vpn \ Mapped(dst[p])
                    /\ pc[p] = "copyuvm" /\ at[p] < Pages(sz[p]) => at[p] \in Mapped(Cur(p))
                    /\ pc[p] = "loaduvm" => Below(Segment(p).vaddr + Segment(p).filesz) \subseteq Mapped(dst[p])
                    /\ pc[p] = "copyout" => {Pages(new[p]) - 2, Pages(new[p]) - 1} \subseteq Mapped(dst[p])
  BY DEF NoPanic
<1>t. /\ sz[p] \in Nat /\ sz[p] < KERNBASE /\ op[p] \in Ops /\ at[p] \in Nat /\ new[p] \in Nat /\ Control(p) /\ Slot(p) /\ Work(p)
  BY ProcFacts DEF Ops
<1>1. ASSUME pc[p] = "mappages" PROVE at[p] \in Vpn \ Mapped(dst[p])
  BY <1>1, MapFacts DEF Mapped
<1>2. ASSUME pc[p] = "copyuvm", at[p] < Pages(sz[p]) PROVE at[p] \in Mapped(Cur(p))
  <2>1. Live(p)
    BY <1>2, <1>t DEF Control, Ops, Live
  <2>2. at[p] \in Below(sz[p])
    BY <1>2, <1>t, VpnFacts
  <2> QED  BY <1>t, <2>1, <2>2 DEF Slot
<1>3. ASSUME pc[p] \in {"loaduvm", "copyout"}
      PROVE  /\ new[p] < KERNBASE /\ Upto(dst[p], Pages(new[p]))
             /\ pc[p] = "loaduvm" => Loading(p) /\ Fits(p)
             /\ pc[p] = "copyout" => Pages(new[p]) >= 2
  <2>1. op[p] = "exec" /\ Middle(p) /\ Done(p) = Pages(new[p])
    BY <1>3, <1>t DEF Control, Ops, Middle, Done
  <2>2. Upto(dst[p], Pages(new[p]))
    BY <1>t, <2>1 DEF Work, Directory
  <2>3. /\ new[p] < KERNBASE
        /\ pc[p] = "loaduvm" => Loading(p) /\ Fits(p)
        /\ pc[p] = "copyout" => Pages(new[p]) >= 2
    BY <1>t, <2>1 DEF Work, Load, Stacked
  <2> QED  BY <2>2, <2>3
<1>4. ASSUME pc[p] = "loaduvm" PROVE Below(Segment(p).vaddr + Segment(p).filesz) \subseteq Mapped(dst[p])
  <2>1. rest[p] \in Files /\ rest[p] # <<>>
    <3>1. LocalTypes /\ Loading(p)
      BY <1>3, <1>4, InvParts
    <3> QED  BY <3>1 DEF LocalTypes, Loading
  <2>2. Segment(p) \in [vaddr : 0 .. Word - 1, memsz : 0 .. Word - 1, filesz : 0 .. Word - 1, short : BOOLEAN]
    BY <2>1, HeadTail DEF Files, Segment
  <2>3. PICK a \in Nat : a = Segment(p).vaddr + Segment(p).filesz /\ a <= new[p]
    <3>1. Segment(p).vaddr \in Nat /\ Segment(p).filesz \in Nat
      BY <2>2, SMT
    <3>2. Segment(p).vaddr + Segment(p).filesz <= new[p]
      BY <1>3, <1>4 DEF Fits
    <3> QED  BY <3>1, <3>2, SMT
  <2>4. Pages(a) <= Pages(new[p]) /\ Pages(a) \in Nat /\ Pages(new[p]) \in Nat
    BY <1>t, <2>3, PagesMonotone, PagesBounds
  <2>5. \A v \in Below(a) : v \in Vpn /\ v < Pages(new[p])
    <3>1. \A v \in Below(a) : v \in Vpn /\ v < Pages(a) /\ v \in Nat
      BY VpnFacts DEF Below
    <3> QED  BY <2>4, <3>1, SMT
  <2> QED  BY <1>3, <1>4, <2>3, <2>5 DEF Upto, Mapped
<1>5. ASSUME pc[p] = "copyout" PROVE {Pages(new[p]) - 2, Pages(new[p]) - 1} \subseteq Mapped(dst[p])
  <2>1. PICK n \in Nat : n = Pages(new[p]) /\ n >= 2
    BY <1>3, <1>5, <1>t, PagesBounds
  <2>2. n - 2 \in Nat /\ n - 2 < n /\ n - 1 \in Nat /\ n - 1 < n
    BY <2>1, SMT
  <2>3. \A v \in Nat : v < n => v \in Mapped(dst[p])
    <3>1. \A v \in Nat : v < n => v \in Vpn
      BY <1>3, <1>5, <1>t, <2>1, VpnFacts
    <3> QED  BY <1>3, <1>5, <2>1, <3>1 DEF Upto, Mapped
  <2> QED  BY <2>1, <2>2, <2>3
<1> QED  BY <1>1, <1>2, <1>4, <1>5

LEMMA NothingLeftHolds ==
  ASSUME VmInv
  PROVE  NothingLeft
<1>1. ASSUME NEW p \in Proc
      PROVE  (state[p] = "unused" => ptr[Kstack(p)] = NoPage) /\ (pc[p] # "mappages" => ptr[Mem(p)] = NoPage)
  <2>1. Slot(p) /\ Work(p)
    BY ProcFacts
  <2> QED  BY <2>1 DEF Slot, Work, Directory
<1>2. ASSUME NEW s \in Space, ~Used(s) PROVE Blank(s)
  <2>1. PICK q \in Proc, i \in {0, 1} : s = <<q, i>> /\ s[1] = q
    BY SMT DEF Space
  <2>t. cur[q] \in {0, 1} /\ op[q] \in Ops /\ state[q] \in {"unused", "embryo", "run", "zombie"} /\ Slot(q) /\ Control(q)
    BY ProcFacts DEF Ops
  <2>2. s = Cur(q) \/ s = Other(q)
    BY <2>1, <2>t, SMT DEF Cur, Other
  <2>3. CASE s = Cur(q)
    <3>1. ~Live(q)
      BY <1>2, <2>1, <2>3 DEF Used
    <3>2. state[q] # "embryo"
      <4> SUFFICES ASSUME state[q] = "embryo" PROVE FALSE
        OBVIOUS
      <4>1. PICK r \in Proc : Builds(r) /\ np(r) = q
        <5>1. Builders
          BY InvParts
        <5> QED  BY <5>1 DEF Builders
      <4>2. Control(r)
        BY ProcFacts
      <4>3. dst[r] = Cur(q) /\ pc[r] # "user"
        BY <4>1, <4>2, SMT DEF Control, Builds, np, Cur
      <4> QED  BY <1>2, <2>3, <4>3 DEF Used
    <3>3. state[q] = "unused"
      BY <2>t, <3>1, <3>2 DEF Live
    <3> QED  BY <2>3, <2>t, <3>3 DEF Slot
  <2>4. CASE s = Other(q)
    <3>1. op[q] # "exec"
      <4> SUFFICES ASSUME op[q] = "exec" PROVE FALSE
        OBVIOUS
      <4>1. dst[q] = Other(q) /\ pc[q] # "user"
        BY <2>t DEF Control
      <4> QED  BY <1>2, <2>4, <4>1 DEF Used
    <3> QED  BY <2>4, <2>t, <3>1 DEF Slot
  <2> QED  BY <2>2, <2>3, <2>4
<1> QED  BY <1>1, <1>2 DEF NothingLeft, Blank

(* fork, sbrk, exec, exit and wait: a process always has the memory that   *)
(* its size says and nobody else's, with the guard page closed; the panics *)
(* of vm.c are out of reach, and no call leaves anything behind.           *)
THEOREM VmAddressSpace == Spec => []AddressSpace
<1>1. VmInv => AddressSpace
  BY SizesHold, NoPanicHolds, NothingLeftHolds DEF AddressSpace, VmInv
<1> QED  BY <1>1, VmInvariant, PTL

-----------------------------------------------------------------------------
(* A call that fails changes nothing.                                      *)

LEMMA ImageSame ==
  ASSUME NEW x, cur'[x] = cur[x], sz'[x] = sz[x],
         \A v \in Below(sz[x]) : /\ ptr'[Pte(Cur(x), v)] = ptr[Pte(Cur(x), v)]
                                 /\ Pte(Cur(x), v) \in user' <=> Pte(Cur(x), v) \in user
  PROVE  Image(x)' = Image(x)
<1>1. PICK s, k : s = Cur(x) /\ s = Cur(x)' /\ k = sz[x] /\ k = sz'[x]
  BY DEF Cur
<1>2. \A v \in Below(k) : <<ptr'[Pte(s, v)], Pte(s, v) \in user'>> = <<ptr[Pte(s, v)], Pte(s, v) \in user>>
  BY <1>1, SMT
<1>3. [v \in Below(k) |-> <<ptr'[Pte(s, v)], Pte(s, v) \in user'>>] = [v \in Below(k) |-> <<ptr[Pte(s, v)], Pte(s, v) \in user>>]
  BY <1>2
<1> QED  BY <1>1, <1>3 DEF Image

(* The page tables stay as they are. *)
LEMMA KeepsTables ==
  ASSUME NEW x, cur' = cur, sz' = sz, ptr' = ptr, user' = user
  PROVE  Keeps(x)
BY ImageSame DEF Keeps

(* A page is taken for something else than a PTE. *)
LEMMA KeepsAlloc ==
  ASSUME NEW x \in Proc, Cur(x) \in Space, NEW a, NEW c, kalloc(a, c), \A s, v : a # Pte(s, v), cur' = cur, sz' = sz
  PROVE  Keeps(x)
<1>1. \A b : b # a => ptr'[b] = ptr[b]
  BY SMT DEF kalloc
<1> QED  BY <1>1, ImageSame DEF Keeps, kalloc

(* The pages of x are not among those that are released. *)
LEMMA KeepsRelease ==
  ASSUME NEW x \in Proc, Cur(x) \in Space, NEW A, NEW L, Release(A, L), cur'[x] = cur[x], sz'[x] = sz[x],
         \A v \in Below(sz[x]) : Pte(Cur(x), v) \notin A /\ Pte(Cur(x), v) \notin L
  PROVE  Keeps(x)
<1>1. \A b \in Place : b \notin A /\ b \notin L => ptr'[b] = ptr[b] /\ (b \in user' <=> b \in user)
  BY DEF Release
<1>2. \A v \in Below(sz[x]) : Pte(Cur(x), v) \in Place
  BY TreePlaces DEF Below
<1> QED  BY <1>1, <1>2, ImageSame DEF Keeps

LEMMA AllocSteps ==
  ASSUME VmInv, NEW x \in Proc, NEW p \in Proc,
         setupkvm(p) \/ setupkvm_map(p) \/ walkpgdir(p) \/ copyuvm(p) \/ allocuvm_page(p) \/ (\E q \in Proc : fork(p, q)) \/ userinit \/ inituvm
  PROVE  Keeps(x)
<1>1. \A y, z, s, v : Dir(y) # Pte(s, v) /\ Table(y, z) # Pte(s, v) /\ Ktable(y, z) # Pte(s, v) /\ Mem(y) # Pte(s, v) /\ Kstack(y) # Pte(s, v)
  BY DEF Dir, Table, Ktable, Mem, Kstack, Pte
<1> USE <1>1
<1>2. PICK a, c : kalloc(a, c) /\ (\A s, v : a # Pte(s, v)) /\ cur' = cur /\ sz' = sz
  <2>1. CASE setupkvm(p) \/ setupkvm_map(p) \/ walkpgdir(p)
    <3>1. /\ \/ kalloc(Dir(dst[p]), "table") \/ kalloc(Ktable(dst[p], at[p]), "table") \/ kalloc(Table(dst[p], PDX(at[p])), "table")
          /\ cur' = cur /\ sz' = sz
      BY <2>1 DEF setupkvm, setupkvm_map, walkpgdir, procs
    <3> QED  BY <3>1
  <2>2. CASE copyuvm(p) \/ allocuvm_page(p)
    BY <2>2 DEF copyuvm, allocuvm_page, procs
  <2>3. CASE \E q \in Proc : fork(p, q)
    BY <2>3 DEF fork
  <2>4. CASE userinit \/ inituvm
    BY <2>4 DEF userinit, inituvm, procs
  <2> QED  BY <2>1, <2>2, <2>3, <2>4
<1>3. Cur(x) \in Space
  BY ProcFacts
<1> QED  BY <1>2, <1>3, KeepsAlloc

LEMMA QuietSteps ==
  ASSUME NEW x, NEW p \in Proc,
         \/ allocproc_fails(p) \/ (\E n \in Steps : sbrk(p, n)) \/ growproc_grow(p) \/ growproc_toobig(p)
         \/ (\E image \in Images : exec(p, image)) \/ exec_alloc(p) \/ exec_allocated(p) \/ loaduvm(p) \/ exit(p) \/ \E v \in Vpn : store(p, v)
  PROVE  Keeps(x)
<1>1. cur' = cur /\ sz' = sz /\ ptr' = ptr /\ user' = user
  BY DEF allocproc_fails, sbrk, growproc_grow, growproc_toobig, exec, exec_alloc, exec_allocated, loaduvm, exit, store, procs, pages
<1> QED  BY <1>1, KeepsTables

(* Two processes have different PTEs. *)
LEMMA OtherPtes ==
  ASSUME NEW x, NEW p, NEW s, x # p, s = Cur(p) \/ s = Other(p), NEW v
  PROVE  Cur(x) # s /\ Pte(Cur(x), v) \notin Tree(s)
<1>1. Cur(x) # s
  BY SMT DEF Cur, Other
<1>2. Pte(Cur(x), v) \in Tree(s) => Cur(x) = s
  BY DEF Tree, Dir, Table, Ktable, Pte
<1> QED  BY <1>1, <1>2

LEMMA MapSteps ==
  ASSUME VmInv, NEW x \in Proc, NEW p \in Proc, mappages(p)
  PROVE  Keeps(x)
<1>1. /\ pc[p] = "mappages" /\ cur' = cur /\ sz' = sz
      /\ ptr' = [ptr EXCEPT ![Pte(dst[p], at[p])] = ptr[Mem(p)], ![Mem(p)] = NoPage]
      /\ user' = user \/ user' = user \cup {Pte(dst[p], at[p])}
  BY DEF mappages, Goto, procs
<1> USE <1>1
<1> SUFFICES ASSUME Live(x), NEW v \in Below(sz[x])
             PROVE  ptr'[Pte(Cur(x), v)] = ptr[Pte(Cur(x), v)] /\ (Pte(Cur(x), v) \in user' <=> Pte(Cur(x), v) \in user)
  BY ImageSame DEF Keeps
<1>2. ptr[Pte(Cur(x), v)] # NoPage
  <2>1. Slot(x)
    BY ProcFacts
  <2> QED  BY <2>1 DEF Slot, Mapped
<1>3. Pte(Cur(x), v) # Pte(dst[p], at[p])
  BY <1>2, MapFacts
<1>4. Pte(Cur(x), v) # Mem(p)
  BY DEF Pte, Mem
<1>5. ptr'[Pte(Cur(x), v)] = ptr[Pte(Cur(x), v)]
  <2>1. PICK a, b, c : a = Pte(Cur(x), v) /\ b = Pte(dst[p], at[p]) /\ c = Mem(p)
    OBVIOUS
  <2> USE <2>1
  <2>2. a \in Place /\ ptr \in [Place -> Page \cup {NoPage}]
    <3>1. Cur(x) \in Space /\ v \in Vpn /\ MemTypes
      BY ProcFacts, InvParts DEF Below, MemOK
    <3> QED  BY <3>1, TreePlaces DEF MemTypes
  <2>3. ptr' = [ptr EXCEPT ![b] = ptr[c], ![c] = NoPage] /\ a # b /\ a # c
    BY <1>3, <1>4
  <2>4. ptr'[a] = ptr[a]
    BY <2>2, <2>3
  <2> QED  BY <2>4
<1>6. Pte(Cur(x), v) \in user' <=> Pte(Cur(x), v) \in user
  BY <1>3
<1> QED  BY <1>5, <1>6

LEMMA GrowSteps ==
  ASSUME VmInv, NEW x \in Proc, NEW p \in Proc, growproc_shrink(p) \/ growproc_done(p) \/ growproc_bad(p)
  PROVE  Keeps(x) \/ Succeeds(x)
<1>t. Cur(x) \in Space /\ Control(p) /\ sz[p] \in Nat /\ new[p] \in Nat
  BY ProcFacts
<1>m. LocalTypes /\ ProcTypes
  BY InvParts
<1>1. op[p] \in {"grow", "shrink"} /\ dst[p] = Cur(p) /\ pc[p] # "user"
  BY <1>t DEF growproc_shrink, growproc_done, growproc_bad, Control
<1> USE <1>t, <1>m, <1>1
<1>2. ASSUME NEW size, Resize(p, size), x # p PROVE cur'[x] = cur[x] /\ sz'[x] = sz[x]
  <2>1. cur' = cur /\ sz' = [sz EXCEPT ![p] = size]
    BY <1>2 DEF Resize
  <2> QED  BY <1>2, <2>1 DEF ProcTypes
<1>3. ASSUME NEW a, NEW b, NEW M, kfree(deallocuvm(Cur(p), a, b) \cup M), M \subseteq {Mem(p)}, x # p, cur'[x] = cur[x], sz'[x] = sz[x]
      PROVE  Keeps(x)
  <2> USE <1>3
  <2>1. PICK A : A = deallocuvm(Cur(p), a, b) \cup M
    OBVIOUS
  <2>2. ASSUME NEW v PROVE Pte(Cur(x), v) \notin A
    <3>1. Pte(Cur(x), v) \notin M
      BY DEF Pte, Mem
    <3>2. Pte(Cur(x), v) \notin deallocuvm(Cur(p), a, b)
      BY DEF Pte, deallocuvm, Cur
    <3> QED  BY <2>1, <3>1, <3>2
  <2>3. Release(A, {}) /\ \A y : y \notin {}
    BY <2>1 DEF kfree
  <2>4. PICK L : L = {}
    OBVIOUS
  <2> QED  BY <2>2, <2>3, <2>4, KeepsRelease
<1>4. CASE growproc_shrink(p)
  <2>m. PICK M \in SUBSET {Mem(p)} : M = {}
    OBVIOUS
  <2>1. /\ kfree(deallocuvm(Cur(p), sz[p], new[p]) \cup M) /\ (\E size : Resize(p, size)) /\ Return(p, 0) /\ calls' = calls
    <3>1. deallocuvm(Cur(p), sz[p], new[p]) \cup M = deallocuvm(Cur(p), sz[p], new[p])
      BY <2>m
    <3> QED  BY <1>4, <3>1 DEF growproc_shrink
  <2> USE <2>1
  <2>2. pc'[p] = "user" /\ ret'[p] = 0
    <3>1. 0 \in {0, -1} /\ calls' \in Nat
      BY DEF LocalTypes
    <3> QED  BY <3>1, Returned
  <2> QED  BY <1>2, <1>3, <2>2, <2>m DEF Succeeds
<1>5. CASE growproc_done(p)
  <2>1. (\E size : Resize(p, size)) /\ Return(p, 0) /\ calls' = calls /\ ptr' = ptr /\ user' = user
    BY <1>5 DEF growproc_done, pages
  <2> USE <2>1
  <2>2. pc'[p] = "user" /\ ret'[p] = 0
    <3>1. 0 \in {0, -1} /\ calls' \in Nat
      BY DEF LocalTypes
    <3> QED  BY <3>1, Returned
  <2> QED  BY <1>2, <2>2, ImageSame DEF Keeps, Succeeds
<1>6. CASE growproc_bad(p)
  <2>1. kfree(deallocuvm(Cur(p), new[p], sz[p]) \cup {Mem(p)}) /\ cur' = cur /\ sz' = sz
    BY <1>6 DEF growproc_bad, procs
  <2> USE <2>1
  <2>2. CASE x # p
    BY <1>3, <2>2
  <2>3. CASE x = p
    <3>1. PICK A, L : A = deallocuvm(Cur(p), new[p], sz[p]) \cup {Mem(p)} /\ L = {}
      OBVIOUS
    <3>2. ASSUME NEW v \in Below(sz[p]) PROVE Pte(Cur(p), v) \notin A
      <4>1. Pte(Cur(p), v) # Mem(p)
        BY DEF Pte, Mem
      <4>2. Pte(Cur(p), v) \notin deallocuvm(Cur(p), new[p], sz[p])
        BY <3>2 DEF Pte, deallocuvm
      <4> QED  BY <3>1, <4>1, <4>2
    <3>3. Release(A, L) /\ \A y : y \notin L
      BY <3>1 DEF kfree
    <3> QED  BY <2>3, <3>2, <3>3, KeepsRelease
  <2> QED  BY <2>2, <2>3
<1> QED  BY <1>4, <1>5, <1>6

LEMMA ExecSteps ==
  ASSUME VmInv, NEW x \in Proc, NEW p \in Proc, exec_args(p) \/ exec_commit(p) \/ exec_bad(p)
  PROVE  Keeps(x) \/ Succeeds(x)
<1>t. Cur(x) \in Space /\ Cur(p) \in Space /\ Other(p) \in Space /\ Cur(p) # Other(p) /\ Control(p) /\ op[p] \in Ops
  BY ProcFacts DEF Ops
<1>m. LocalTypes /\ ProcTypes
  BY InvParts
<1>1. op[p] = "exec" /\ dst[p] = Other(p) /\ pc[p] # "user"
  BY <1>t DEF exec_args, exec_commit, exec_bad, Goto, Control, Ops
<1>s. PICK s \in Space : s = Other(p) /\ \A v : Pte(Cur(x), v) \notin Tree(s)
  <2>1. PICK s \in Space : s = Other(p)
    BY <1>t
  <2>2. Cur(x) # s => \A v : Pte(Cur(x), v) \notin Tree(s)
    BY DEF Tree, Dir, Table, Ktable, Pte
  <2>3. Cur(x) # s
    BY <1>t, <2>1, OtherPtes
  <2> QED  BY <2>1, <2>2, <2>3
<1> USE <1>t, <1>m, <1>1, <1>s
<1>2. CASE exec_args(p)
  <2>1. cur' = cur /\ sz' = sz /\ ptr' = ptr /\ \E n : user' = user \ {Pte(s, n)}
    BY <1>2 DEF exec_args, procs
  <2>2. \A v, n : Pte(Cur(x), v) # Pte(s, n)
    <3>1. Cur(x) # s
      BY TreePlaces, VpnFacts
    <3> QED  BY <3>1 DEF Pte
  <2>3. \A v : Pte(Cur(x), v) \in user' <=> Pte(Cur(x), v) \in user
    BY <2>1, <2>2
  <2> QED  BY <2>1, <2>3, ImageSame DEF Keeps
<1>3. CASE exec_commit(p)
  <2>1. /\ Release(Tree(Cur(p)), {}) /\ cur' = [cur EXCEPT ![p] = 1 - cur[p]] /\ sz' = [sz EXCEPT ![p] = new[p]]
        /\ Return(p, 0) /\ calls' = calls
    BY <1>3 DEF exec_commit, kfree, freevm
  <2> USE <2>1
  <2>2. CASE x = p
    <3>1. pc'[p] = "user" /\ ret'[p] = 0
      <4>1. 0 \in {0, -1} /\ calls' \in Nat
        BY DEF LocalTypes
      <4> QED  BY <4>1, Returned
    <3> QED  BY <2>2, <3>1 DEF Succeeds
  <2>3. CASE x # p
    <3>1. cur'[x] = cur[x] /\ sz'[x] = sz[x]
      BY <2>3 DEF ProcTypes
    <3>2. PICK A, L : A = Tree(Cur(p)) /\ L = {}
      OBVIOUS
    <3>3. Release(A, L) /\ (\A y : y \notin L) /\ \A v : Pte(Cur(x), v) \notin A
      BY <2>3, <3>2, OtherPtes
    <3> QED  BY <3>1, <3>3, KeepsRelease
  <2> QED  BY <2>2, <2>3
<1>4. CASE exec_bad(p)
  <2>1. Release(Tree(s) \cup {Mem(p)}, {}) /\ cur' = cur /\ sz' = sz
    BY <1>4 DEF exec_bad, kfree, freevm, procs
  <2>2. PICK A, L : A = Tree(s) \cup {Mem(p)} /\ L = {}
    OBVIOUS
  <2>3. \A v : Pte(Cur(x), v) # Mem(p)
    BY DEF Pte, Mem
  <2>4. Release(A, L) /\ (\A y : y \notin L) /\ \A v : Pte(Cur(x), v) \notin A
    BY <2>1, <2>2, <2>3
  <2> QED  BY <2>1, <2>4, KeepsRelease
<1> QED  BY <1>2, <1>3, <1>4

LEMMA BuildSteps ==
  ASSUME VmInv, NEW x \in Proc, NEW p \in Proc, fork_bad(p) \/ fork_done(p) \/ wait(p) \/ userinit_done
  PROVE  Keeps(x)
<1>t. Cur(x) \in Space /\ Control(p) /\ op[p] \in Ops
  BY ProcFacts DEF Ops
<1>m. ProcTypes
  BY InvParts
<1>1. ASSUME fork_bad(p) \/ fork_done(p)
      PROVE  np(p) \in Proc /\ ~Live(np(p)) /\ dst[p] = Cur(np(p))
  <2>1. op[p] = "fork"
    BY <1>1, <1>t DEF fork_bad, fork_done, Control, Ops
  <2> QED  BY <2>1, BuiltIdle DEF Live
<1> USE <1>t, <1>m, <1>1
<1>2. CASE fork_bad(p)
  <2> USE <1>2
  <2>1. Release(Tree(dst[p]) \cup {Kstack(np(p))}, {Mem(p)}) /\ cur' = cur /\ sz' = sz
    BY DEF fork_bad, freevm
  <2>2. CASE x = np(p)
    BY <2>2 DEF Keeps
  <2>3. CASE x # np(p)
    <3>1. PICK A, L : A = Tree(dst[p]) \cup {Kstack(np(p))} /\ L = {Mem(p)}
      OBVIOUS
    <3>2. \A v, q : Pte(Cur(x), v) # Mem(q) /\ Pte(Cur(x), v) # Kstack(q)
      BY DEF Pte, Mem, Kstack
    <3>3. \A v : Pte(Cur(x), v) \notin Tree(dst[p])
      BY <2>3, OtherPtes
    <3>4. Release(A, L) /\ \A v : Pte(Cur(x), v) \notin A /\ Pte(Cur(x), v) \notin L
      BY <2>1, <3>1, <3>2, <3>3
    <3> QED  BY <2>1, <3>4, KeepsRelease
  <2> QED  BY <2>2, <2>3
<1>3. CASE fork_done(p)
  <2>1. sz' = [sz EXCEPT ![np(p)] = sz[p]] /\ cur' = cur /\ ptr' = ptr /\ user' = user
    BY <1>3 DEF fork_done, pages
  <2>2. CASE x = np(p)
    BY <1>3, <2>2 DEF Keeps
  <2>3. CASE x # np(p)
    <3>1. sz'[x] = sz[x]
      BY <2>1, <2>3 DEF ProcTypes
    <3> QED  BY <2>1, <3>1, ImageSame DEF Keeps
  <2> QED  BY <2>2, <2>3
<1>4. CASE wait(p)
  <2>1. Release(Tree(Cur(p)) \cup {Kstack(p)}, {}) /\ cur' = cur /\ sz' = sz /\ state' = [state EXCEPT ![p] = "unused"]
    BY <1>4 DEF wait, kfree, freevm
  <2> USE <2>1
  <2>2. CASE x = p
    BY <2>2 DEF Keeps, Live, ProcTypes
  <2>3. CASE x # p
    <3>1. PICK A, L : A = Tree(Cur(p)) \cup {Kstack(p)} /\ L = {}
      OBVIOUS
    <3>2. \A v : Pte(Cur(x), v) # Kstack(p)
      BY DEF Pte, Kstack
    <3>3. Release(A, L) /\ \A v : Pte(Cur(x), v) \notin A /\ Pte(Cur(x), v) \notin L
      BY <2>3, <3>1, <3>2, OtherPtes
    <3> QED  BY <3>3, KeepsRelease
  <2> QED  BY <2>2, <2>3
<1>5. CASE userinit_done
  <2>1. op[initproc] = "boot" /\ sz' = [sz EXCEPT ![initproc] = PGSIZE] /\ cur' = cur /\ ptr' = ptr /\ user' = user
    BY <1>5 DEF userinit_done, pages
  <2> USE <2>1
  <2>2. CASE x = initproc
    <3>1. Control(x)
      BY ProcFacts
    <3> QED  BY <2>2, <3>1 DEF Keeps, Live, Control
  <2>3. CASE x # initproc
    <3>1. sz'[x] = sz[x]
      BY <2>3 DEF ProcTypes
    <3> QED  BY <3>1, ImageSame DEF Keeps
  <2> QED  BY <2>2, <2>3
<1> QED  BY <1>2, <1>3, <1>4, <1>5

LEMMA ImageStep ==
  ASSUME VmInv, Next, NEW x \in Proc
  PROVE  Keeps(x) \/ Succeeds(x)
<1>i. initproc \in Proc
  BY VmAssumption
<1>1. CASE userinit \/ inituvm \/ userinit_done
  BY <1>1, <1>i, AllocSteps, BuildSteps
<1>2. ASSUME NEW p \in Proc, setupkvm(p) \/ setupkvm_map(p) \/ walkpgdir(p) \/ mappages(p) \/ copyuvm(p) \/ allocuvm_page(p)
      PROVE  Keeps(x)
  BY <1>2, AllocSteps, MapSteps
<1>3. ASSUME NEW p \in Proc, (\E q \in Proc : fork(p, q)) \/ allocproc_fails(p) \/ fork_bad(p) \/ fork_done(p)
      PROVE  Keeps(x)
  BY <1>3, AllocSteps, BuildSteps, QuietSteps
<1>4. ASSUME NEW p \in Proc, (\E n \in Steps : sbrk(p, n)) \/ growproc_shrink(p) \/ growproc_grow(p) \/ growproc_done(p)
                             \/ growproc_toobig(p) \/ growproc_bad(p)
      PROVE  Keeps(x) \/ Succeeds(x)
  BY <1>4, QuietSteps, GrowSteps
<1>5. ASSUME NEW p \in Proc, (\E image \in Images : exec(p, image)) \/ exec_alloc(p) \/ exec_allocated(p) \/ loaduvm(p)
                             \/ exec_args(p) \/ exec_commit(p) \/ exec_bad(p)
      PROVE  Keeps(x) \/ Succeeds(x)
  BY <1>5, QuietSteps, ExecSteps
<1>6. ASSUME NEW p \in Proc, exit(p) \/ wait(p) \/ \E v \in Vpn : store(p, v)
      PROVE  Keeps(x)
  BY <1>6, QuietSteps, BuildSteps
<1> QED  BY <1>1, <1>2, <1>3, <1>4, <1>5, <1>6 DEF Next

(* The memory of a process (its size, its pages, their PTE_U flags) is     *)
(* changed by a sbrk or an exec of its own that succeeds and by nothing    *)
(* else: the error paths of growproc, exec and fork undo what they did,    *)
(* and no call of another process reaches it.                              *)
THEOREM VmFailureUndone == Spec => FailureUndone
<1>1. VmInv /\ [Next]_vars
      => [\A p \in Proc : Live(p) /\ Live(p)' /\ Image(p)' # Image(p) => pc[p] # "user" /\ pc'[p] = "user" /\ ret'[p] = 0]_vars
  BY ImageStep DEF Keeps, Succeeds
<1> QED  BY <1>1, VmInvariant, PTL DEF Spec, FailureUndone

=============================================================================
