--------------------------------- MODULE Vm ---------------------------------
(***************************************************************************)
(* Physical pages (kalloc.c), page tables (vm.c), and the calls that       *)
(* build, copy, resize, replace and release address spaces: fork, sbrk,    *)
(* exec, exit and wait.  kmem.lock is taken once for each kalloc and each  *)
(* kfree; address spaces are private.  So a step takes at most one page,   *)
(* and the calls of several processes interleave and compete for pages.    *)
(* Releasing several pages is one step.  A page holds one value.           *)
(***************************************************************************)
EXTENDS Integers, Sequences

CONSTANTS
  Proc,
  initproc,
  Page, NoPage,
  PGSIZE,      \* bytes of a page
  PTN,         \* entries of a page table
  UPD,         \* page directory entries below KERNBASE
  KPD,         \* page directory entries that setupkvm fills above it
  Images,      \* program files: sequences of segments
  Steps,       \* the arguments of sbrk
  Memory,      \* the free lists that the kernel may boot with
  MaxCalls     \* bound of this model: the calls of a behaviour

KERNBASE == UPD * PTN * PGSIZE
Word == 2 * KERNBASE         \* addresses are unsigned, n is signed
Vpn == 0 .. UPD * PTN - 1    \* user pages
PDX(v) == v \div PTN

(* PGROUNDUP(a) / PGSIZE, and the pages that start below address a. *)
Pages(a) == (a + PGSIZE - 1) \div PGSIZE
Below(a) == {v \in Vpn : v < Pages(a)}

ASSUME VmAssumption ==
  /\ NoPage \notin Page /\ initproc \in Proc
  /\ PGSIZE \in Nat \ {0} /\ PTN \in Nat \ {0, 1} /\ UPD \in Nat \ {0} /\ KPD \in Nat \ {0}
  /\ Memory \subseteq SUBSET Page /\ Steps \subseteq -KERNBASE .. KERNBASE - 1
  /\ Images \subseteq Seq([vaddr : 0 .. Word - 1, memsz : 0 .. Word - 1, filesz : 0 .. Word - 1, short : BOOLEAN])

(***************************************************************************)
(* Where a pointer to a page is kept: a process's kernel stack and its     *)
(* local variable mem, and the directory, the directory's entries and the  *)
(* page tables' entries of an address space.  A process has two address    *)
(* spaces: its own, and in exec the new one.                               *)
(***************************************************************************)
Space == Proc \X {0, 1}
UserTable == {PDX(v) : v \in Vpn}
KernelTable == 1 .. KPD

Kstack(p)   == <<"kstack", p, 0>>
Mem(p)      == <<"mem", p, 0>>
Dir(s)      == <<"dir", s, 0>>
Table(s, x) == <<"table", s, x>>
Ktable(s, k) == <<"ktable", s, k>>
Pte(s, v)   == <<"pte", s, v>>

Tree(s) == {Dir(s)} \cup {Table(s, x) : x \in UserTable}
           \cup {Ktable(s, k) : k \in KernelTable} \cup {Pte(s, v) : v \in Vpn}
Place == {Kstack(p) : p \in Proc} \cup {Mem(p) : p \in Proc} \cup UNION {Tree(s) : s \in Space}

VARIABLES
  ptr,         \* place -> page
  user,        \* the places of the PTEs that have PTE_U
  free,        \* kmem.freelist, whose order is left open
  lost,        \* pages that the rest of the kernel keeps, or that nobody frees any more
  cont,        \* page -> its contents
  cur,         \* process -> which of its address spaces is proc->pgdir
  sz, state,
  view,        \* process -> page number -> what the program last saw there
  guard,       \* process -> the page below the stack that exec made
  pc, op,      \* the call of a process, and where it is in it
  dst,         \* the address space that the call builds or changes
  at,          \* the loop variable of setupkvm, copyuvm or allocuvm
  new,         \* newsz of allocuvm or deallocuvm, sz of exec
  rest,        \* the segments that exec has not loaded yet
  ret,         \* the result of a process's last call
  calls

pages == <<ptr, user, free, lost, cont>>
procs == <<cur, sz, state, view, guard>>
locals == <<op, dst, at, new, rest>>
vars == <<pages, procs, locals, pc, ret, calls>>

Cur(p) == <<p, cur[p]>>
Other(p) == <<p, 1 - cur[p]>>
np(p) == dst[p][1]      \* the child of fork

-----------------------------------------------------------------------------
freelist == CHOOSE pg \in free : TRUE

(* A page for the place a, filled with c. *)
kalloc(a, c) ==
  /\ free # {} /\ free' = free \ {freelist}
  /\ ptr' = [ptr EXCEPT ![a] = freelist] /\ cont' = [cont EXCEPT ![freelist] = c]
  /\ UNCHANGED <<user, lost>>

(* The pages at the places A are freed and filled with junk, the pointers  *)
(* cleared.  The pages at L are forgotten.                                 *)
Release(A, L) ==
  LET S == {ptr[a] : a \in A} \ {NoPage}
  IN  /\ ptr' = [a \in Place |-> IF a \in A \cup L THEN NoPage ELSE ptr[a]] /\ user' = user \ A
      /\ free' = free \cup S /\ cont' = [pg \in Page |-> IF pg \in S THEN "junk" ELSE cont[pg]]
      /\ lost' = lost \cup ({ptr[a] : a \in L} \ {NoPage})

kfree(A) == Release(A, {})

Goto(p, from, to) == pc[p] = from /\ pc' = [pc EXCEPT ![p] = to]

Call(p, name, to) ==
  /\ state[p] = "run" /\ Goto(p, "user", to) /\ op' = [op EXCEPT ![p] = name]
  /\ calls < MaxCalls /\ calls' = calls + 1

(* The local variables of a call end with it. *)
Return(p, r) ==
  /\ pc' = [pc EXCEPT ![p] = "user"] /\ ret' = [ret EXCEPT ![p] = r]
  /\ op' = [op EXCEPT ![p] = "none"] /\ dst' = [dst EXCEPT ![p] = <<p, 0>>]
  /\ at' = [at EXCEPT ![p] = 0] /\ new' = [new EXCEPT ![p] = 0] /\ rest' = [rest EXCEPT ![p] = <<>>]

-----------------------------------------------------------------------------
(* setupkvm, for fork and exec: the directory, then the kernel's tables. *)
setupkvm(p) ==
  /\ Goto(p, "setupkvm", "kmap") /\ kalloc(Dir(dst[p]), "table")
  /\ at' = [at EXCEPT ![p] = 1]
  /\ UNCHANGED <<procs, op, dst, new, rest, ret, calls>>

setupkvm_map(p) ==
  /\ pc[p] = "kmap" /\ kalloc(Ktable(dst[p], at[p]), "table")
  /\ at' = [at EXCEPT ![p] = IF @ < KPD THEN @ + 1 ELSE 0]
  /\ pc' = [pc EXCEPT ![p] = IF at[p] < KPD THEN "kmap" ELSE IF op[p] = "fork" THEN "copyuvm" ELSE "segment"]
  /\ UNCHANGED <<procs, op, dst, new, rest, ret, calls>>

NoTable(p) == ptr[Table(dst[p], PDX(at[p]))] = NoPage

walkpgdir(p) ==
  /\ pc[p] = "mappages" /\ NoTable(p) /\ kalloc(Table(dst[p], PDX(at[p])), "table")
  /\ UNCHANGED <<procs, locals, pc, ret, calls>>

(* The PTE, and the next turn of the loop that wanted it. *)
mappages(p) ==
  /\ Goto(p, "mappages", IF op[p] = "fork" THEN "copyuvm" ELSE "allocuvm") /\ ~NoTable(p)
  /\ ptr' = [ptr EXCEPT ![Pte(dst[p], at[p])] = ptr[Mem(p)], ![Mem(p)] = NoPage]
  /\ user' = IF op[p] = "fork" /\ Pte(Cur(p), at[p]) \notin user THEN user ELSE user \cup {Pte(dst[p], at[p])}
  /\ at' = [at EXCEPT ![p] = @ + 1]
  /\ UNCHANGED <<free, lost, cont, procs, op, dst, new, rest, ret, calls>>

copyuvm(p) ==
  /\ Goto(p, "copyuvm", "mappages") /\ at[p] < Pages(sz[p])
  /\ kalloc(Mem(p), cont[ptr[Pte(Cur(p), at[p])]])
  /\ UNCHANGED <<procs, locals, ret, calls>>

(* allocuvm to newsz from oldsz on; with newsz < oldsz it returns oldsz. *)
allocuvm(p, oldsz, newsz) ==
  /\ newsz < KERNBASE /\ pc' = [pc EXCEPT ![p] = "allocuvm"]
  /\ new' = [new EXCEPT ![p] = IF newsz < oldsz THEN oldsz ELSE newsz]
  /\ at' = [at EXCEPT ![p] = Pages(oldsz)]

allocuvm_page(p) ==
  /\ Goto(p, "allocuvm", "mappages") /\ at[p] < Pages(new[p]) /\ kalloc(Mem(p), "zero")
  /\ UNCHANGED <<procs, locals, ret, calls>>

(* The places of the pages that deallocuvm and freevm release. *)
deallocuvm_down(s, oldsz, newsz) == {Pte(s, v) : v \in {w \in Below(oldsz) : w >= newsz \div PGSIZE}}

deallocuvm(s, oldsz, newsz) == {Pte(s, v) : v \in Below(oldsz) \ Below(newsz)}

freevm(s) == Tree(s)

(* kalloc returns 0 to the call of p. *)
OutOfMemory(p) ==
  /\ free = {}
  /\ \/ pc[p] \in {"setupkvm", "kmap"}
     \/ pc[p] = "copyuvm" /\ at[p] < Pages(sz[p])
     \/ pc[p] = "allocuvm" /\ at[p] < Pages(new[p])
     \/ pc[p] = "mappages" /\ NoTable(p)

-----------------------------------------------------------------------------
(* fork: allocproc with the kernel stack, then copyuvm. *)
fork(p, q) ==
  /\ Call(p, "fork", "setupkvm") /\ state[q] = "unused" /\ kalloc(Kstack(q), "stack")
  /\ state' = [state EXCEPT ![q] = "embryo"] /\ dst' = [dst EXCEPT ![p] = Cur(q)]
  /\ UNCHANGED <<cur, sz, view, guard, at, new, rest, ret>>

allocproc_fails(p) ==
  /\ state[p] = "run" /\ pc[p] = "user" /\ calls < MaxCalls /\ calls' = calls + 1
  /\ free = {} \/ \A q \in Proc : state[q] # "unused"
  /\ Return(p, -1) /\ UNCHANGED <<pages, procs>>

(* The label bad of copyuvm, and fork's own undoing.  copyuvm does not free *)
(* a page that mappages could not map.                                      *)
fork_bad(p) ==
  /\ op[p] = "fork" /\ OutOfMemory(p)
  /\ Release(freevm(dst[p]) \cup {Kstack(np(p))}, {Mem(p)})
  /\ state' = [state EXCEPT ![np(p)] = "unused"] /\ Return(p, -1)
  /\ UNCHANGED <<cur, sz, view, guard, calls>>

fork_done(p) ==
  /\ pc[p] = "copyuvm" /\ at[p] >= Pages(sz[p])
  /\ sz' = [sz EXCEPT ![np(p)] = sz[p]] /\ state' = [state EXCEPT ![np(p)] = "run"]
  /\ view' = [view EXCEPT ![np(p)] = view[p]] /\ guard' = [guard EXCEPT ![np(p)] = guard[p]]
  /\ Return(p, 0) /\ UNCHANGED <<pages, cur, calls>>
-----------------------------------------------------------------------------
(* sbrk: growproc(n).  No program gives all of its memory back. *)
sbrk(p, n) ==
  /\ Call(p, IF n > 0 THEN "grow" ELSE "shrink", "growproc") /\ sz[p] + n # 0
  /\ new' = [new EXCEPT ![p] = (sz[p] + n) % Word] /\ dst' = [dst EXCEPT ![p] = Cur(p)]
  /\ UNCHANGED <<pages, procs, at, rest, ret>>

(* proc->sz = size.  The program finds zeros in pages that are new to it. *)
Resize(p, size) ==
  /\ sz' = [sz EXCEPT ![p] = size]
  /\ view' = [view EXCEPT ![p] = [v \in Vpn |-> IF v \notin Below(size) THEN "none"
                                                ELSE IF v \in Below(sz[p]) THEN @[v] ELSE "zero"]]
  /\ guard' = [guard EXCEPT ![p] = IF @ \in Below(size) THEN @ ELSE -1]
  /\ UNCHANGED <<cur, state>>

growproc_shrink(p) ==
  /\ pc[p] = "growproc" /\ op[p] = "shrink"
  /\ kfree(deallocuvm(dst[p], sz[p], new[p]))
  /\ Resize(p, IF new[p] >= sz[p] THEN sz[p] ELSE new[p]) /\ Return(p, 0) /\ UNCHANGED calls

growproc_grow(p) ==
  /\ pc[p] = "growproc" /\ op[p] = "grow" /\ allocuvm(p, sz[p], new[p])
  /\ UNCHANGED <<pages, procs, op, dst, rest, ret, calls>>

growproc_done(p) ==
  /\ pc[p] = "allocuvm" /\ op[p] = "grow" /\ at[p] >= Pages(new[p])
  /\ Resize(p, new[p]) /\ Return(p, 0) /\ UNCHANGED <<pages, calls>>

(* allocuvm returns 0: too large, or out of memory, (1) and (2). *)
growproc_toobig(p) ==
  /\ pc[p] = "growproc" /\ op[p] = "grow" /\ new[p] >= KERNBASE
  /\ Return(p, -1) /\ UNCHANGED <<pages, procs, calls>>

growproc_bad_leaks(p) ==
  /\ op[p] = "grow" /\ OutOfMemory(p)
  /\ ptr' = [a \in Place |-> IF a \in deallocuvm(dst[p], new[p], sz[p]) \cup {Mem(p)} THEN NoPage ELSE ptr[a]]
  /\ free' = free \cup ({ptr[a] : a \in deallocuvm(dst[p], new[p], sz[p])} \ {NoPage})
  /\ Return(p, -1) /\ UNCHANGED <<user, lost, cont, procs, calls>>

growproc_bad_keeps(p) ==
  /\ op[p] = "grow" /\ OutOfMemory(p)
  /\ kfree({Mem(p)}) /\ Resize(p, at[p] * PGSIZE)
  /\ Return(p, -1) /\ UNCHANGED calls

growproc_bad(p) ==
  /\ op[p] = "grow" /\ OutOfMemory(p)
  /\ kfree(deallocuvm(dst[p], new[p], sz[p]) \cup {Mem(p)})
  /\ Return(p, -1) /\ UNCHANGED <<procs, calls>>

-----------------------------------------------------------------------------
(* exec of a file whose header is good. *)
exec(p, image) ==
  /\ Call(p, "exec", "setupkvm") /\ dst' = [dst EXCEPT ![p] = Other(p)] /\ rest' = [rest EXCEPT ![p] = image]
  /\ UNCHANGED <<pages, procs, at, new, ret>>

Segment(p) == Head(rest[p])
Loading(p) == rest[p] # <<>>
End(g) == (g.vaddr + g.memsz) % Word

(* Room for the next segment; after the last one, for guard and stack. *)
exec_alloc(p) ==
  /\ pc[p] = "segment" /\ op[p] = "exec"
  /\ IF Loading(p)
     THEN Segment(p).memsz >= Segment(p).filesz /\ End(Segment(p)) >= Segment(p).vaddr
          /\ allocuvm(p, new[p], End(Segment(p)))
     ELSE allocuvm(p, Pages(new[p]) * PGSIZE, (Pages(new[p]) + 2) * PGSIZE)
  /\ UNCHANGED <<pages, procs, op, dst, rest, ret, calls>>

exec_allocated(p) ==
  /\ Goto(p, "allocuvm", IF Loading(p) THEN "loaduvm" ELSE "copyout") /\ op[p] = "exec" /\ at[p] >= Pages(new[p])
  /\ UNCHANGED <<pages, procs, locals, ret, calls>>

Loadable(p) == new[p] # 0 /\ Segment(p).vaddr % PGSIZE = 0 /\ ~Segment(p).short

loaduvm(p) ==
  /\ Goto(p, "loaduvm", "segment") /\ Loadable(p)
  /\ LET S == {ptr[Pte(dst[p], v)] : v \in {w \in Below(Segment(p).vaddr + Segment(p).filesz) : w * PGSIZE >= Segment(p).vaddr}}
     IN  cont' = [pg \in Page |-> IF pg \in S THEN "text" ELSE cont[pg]]
  /\ rest' = [rest EXCEPT ![p] = Tail(@)]
  /\ UNCHANGED <<ptr, user, free, lost, procs, op, dst, at, new, ret, calls>>

(* clearpteu on the guard page; the arguments fit into the stack page. *)
exec_args(p) ==
  /\ Goto(p, "copyout", "commit")
  /\ user' = user \ {Pte(dst[p], Pages(new[p]) - 2)}
  /\ cont' = [cont EXCEPT ![ptr[Pte(dst[p], Pages(new[p]) - 1)]] = "args"]
  /\ UNCHANGED <<ptr, free, lost, procs, locals, ret, calls>>

(* From "Commit to the user image" on. *)
exec_commit(p) ==
  /\ pc[p] = "commit" /\ kfree(freevm(Cur(p)))
  /\ cur' = [cur EXCEPT ![p] = 1 - @] /\ sz' = [sz EXCEPT ![p] = new[p]]
  /\ view' = [view EXCEPT ![p] = [v \in Vpn |-> IF v \in Below(new[p]) THEN cont[ptr[Pte(dst[p], v)]] ELSE "none"]]
  /\ guard' = [guard EXCEPT ![p] = Pages(new[p]) - 2]
  /\ Return(p, 0) /\ UNCHANGED <<state, calls>>

(* The label bad: no memory, a bad or too large segment, no room for the   *)
(* stack, a file that ends early, arguments that do not fit.               *)
exec_bad(p) ==
  /\ op[p] = "exec"
  /\ \/ OutOfMemory(p)
     \/ pc[p] = "segment" /\ Loading(p)
        /\ (Segment(p).memsz < Segment(p).filesz \/ End(Segment(p)) < Segment(p).vaddr \/ End(Segment(p)) >= KERNBASE)
     \/ pc[p] = "segment" /\ ~Loading(p) /\ (Pages(new[p]) + 2) * PGSIZE >= KERNBASE
     \/ pc[p] = "loaduvm" /\ ~Loadable(p)
     \/ pc[p] = "copyout"
  /\ kfree(freevm(dst[p]) \cup {Mem(p)}) /\ Return(p, -1) /\ UNCHANGED <<procs, calls>>

-----------------------------------------------------------------------------
exit(p) ==
  /\ state[p] = "run" /\ pc[p] = "user" /\ p # initproc
  /\ state' = [state EXCEPT ![p] = "zombie"]
  /\ UNCHANGED <<pages, cur, sz, view, guard, locals, pc, ret, calls>>

(* The parent's wait finds q. *)
wait(q) ==
  /\ state[q] = "zombie" /\ state' = [state EXCEPT ![q] = "unused"]
  /\ kfree(freevm(Cur(q)) \cup {Kstack(q)})
  /\ view' = [view EXCEPT ![q] = [v \in Vpn |-> "none"]] /\ guard' = [guard EXCEPT ![q] = -1]
  /\ UNCHANGED <<cur, sz, locals, pc, ret, calls>>

(* A store by the program, to a page that its PTE lets it use. *)
store(p, v) ==
  /\ state[p] = "run" /\ pc[p] = "user" /\ Pte(Cur(p), v) \in user
  /\ cont' = [cont EXCEPT ![ptr[Pte(Cur(p), v)]] = "data"] /\ view' = [view EXCEPT ![p][v] = "data"]
  /\ UNCHANGED <<ptr, user, free, lost, cur, sz, state, guard, locals, pc, ret, calls>>

(* userinit: kernel stack, setupkvm, and inituvm with one page. *)
userinit ==
  /\ Goto(initproc, "userinit", "setupkvm") /\ kalloc(Kstack(initproc), "stack")
  /\ UNCHANGED <<procs, locals, ret, calls>>

inituvm ==
  /\ op[initproc] = "boot" /\ Goto(initproc, "segment", "mappages") /\ kalloc(Mem(initproc), "text")
  /\ UNCHANGED <<procs, locals, ret, calls>>

userinit_done ==
  /\ op[initproc] = "boot" /\ pc[initproc] = "allocuvm"
  /\ sz' = [sz EXCEPT ![initproc] = PGSIZE] /\ state' = [state EXCEPT ![initproc] = "run"]
  /\ view' = [view EXCEPT ![initproc][0] = "text"]
  /\ Return(initproc, 0) /\ UNCHANGED <<pages, cur, guard, calls>>

(* After kinit, before userinit. *)
Init ==
  /\ ptr = [a \in Place |-> NoPage] /\ user = {} /\ free \in Memory /\ lost = Page \ free
  /\ cont = [pg \in Page |-> "junk"] /\ cur = [p \in Proc |-> 0] /\ sz = [p \in Proc |-> 0]
  /\ state = [p \in Proc |-> IF p = initproc THEN "embryo" ELSE "unused"]
  /\ view = [p \in Proc |-> [v \in Vpn |-> "none"]] /\ guard = [p \in Proc |-> -1]
  /\ pc = [p \in Proc |-> IF p = initproc THEN "userinit" ELSE "user"]
  /\ op = [p \in Proc |-> IF p = initproc THEN "boot" ELSE "none"]
  /\ dst = [p \in Proc |-> <<p, 0>>] /\ at = [p \in Proc |-> 0] /\ new = [p \in Proc |-> 0]
  /\ rest = [p \in Proc |-> <<>>] /\ ret = [p \in Proc |-> 0] /\ calls = 0

Next ==
  \/ userinit \/ inituvm \/ userinit_done
  \/ \E p \in Proc :
       \/ setupkvm(p) \/ setupkvm_map(p) \/ walkpgdir(p) \/ mappages(p) \/ copyuvm(p) \/ allocuvm_page(p)
       \/ (\E q \in Proc : fork(p, q)) \/ allocproc_fails(p) \/ fork_bad(p) \/ fork_done(p)
       \/ (\E n \in Steps : sbrk(p, n)) \/ growproc_shrink(p) \/ growproc_grow(p) \/ growproc_done(p)
       \/ growproc_toobig(p) \/ growproc_bad(p)
       \/ (\E image \in Images : exec(p, image)) \/ exec_alloc(p) \/ exec_allocated(p) \/ loaduvm(p)
       \/ exec_args(p) \/ exec_commit(p) \/ exec_bad(p)
       \/ exit(p) \/ wait(p) \/ (\E v \in Vpn : store(p, v))

Spec == Init /\ [][Next]_vars

(***************************************************************************)
(* Properties.                                                             *)
(***************************************************************************)
Contents == {"junk", "stack", "table", "zero", "text", "args", "data"}

TypeOK ==
  /\ ptr \in [Place -> Page \cup {NoPage}] /\ user \subseteq Place
  /\ free \subseteq Page /\ lost \subseteq Page /\ cont \in [Page -> Contents]
  /\ cur \in [Proc -> {0, 1}] /\ sz \in [Proc -> 0 .. KERNBASE - 1]
  /\ state \in [Proc -> {"unused", "embryo", "run", "zombie"}]
  /\ view \in [Proc -> [Vpn -> Contents \cup {"none"}]] /\ guard \in [Proc -> Int]
  /\ pc \in [Proc -> {"user", "userinit", "setupkvm", "kmap", "copyuvm", "mappages", "allocuvm", "growproc",
                      "segment", "loaduvm", "copyout", "commit"}]
  /\ op \in [Proc -> {"none", "boot", "fork", "grow", "shrink", "exec"}]
  /\ dst \in [Proc -> Space] /\ at \in [Proc -> Nat] /\ new \in [Proc -> Nat]
  /\ rest \in [Proc -> Seq([vaddr : 0 .. Word - 1, memsz : 0 .. Word - 1, filesz : 0 .. Word - 1, short : BOOLEAN])]
  /\ ret \in [Proc -> {0, -1}] /\ calls \in Nat

(* Every page has one place, whatever calls are in progress: the free list, *)
(* one pointer, or lost by a fork that could not map it.  So no page is     *)
(* shared, freed twice, or forgotten on any other path.                     *)
OnePlace ==
  /\ \A a, b \in Place : ptr[a] = ptr[b] /\ ptr[a] # NoPage => a = b
  /\ \A a \in Place : ptr[a] \notin free \cup lost
  /\ free \cap lost = {}
  /\ \A pg \in Page : pg \in free \cup lost \/ \E a \in Place : ptr[a] = pg

Live(p) == state[p] \in {"run", "zombie"}
Mapped(s) == {v \in Vpn : ptr[Pte(s, v)] # NoPage}
HasTables(s) ==
  /\ ptr[Dir(s)] # NoPage /\ \A k \in KernelTable : ptr[Ktable(s, k)] # NoPage
  /\ \A v \in Mapped(s) : ptr[Table(s, PDX(v))] # NoPage

(* Between its calls a process has exactly the pages below sz mapped, each  *)
(* through a page table, which copyuvm, uva2ka and loaduvm rely on; while   *)
(* it is in a call, all of these and the new ones.                          *)
SizeIsMapped ==
  \A p \in Proc : Live(p) => /\ HasTables(Cur(p)) /\ ptr[Kstack(p)] # NoPage
                             /\ Below(sz[p]) \subseteq Mapped(Cur(p))
                             /\ op[p] # "grow" => Mapped(Cur(p)) = Below(sz[p])

(* A process finds in its memory what it stored there, what exec loaded or  *)
(* its parent had at the fork, and zeros in pages new to it: never what     *)
(* another process stored and never a page that kfree has filled with junk. *)
PrivateMemory == \A p \in Proc : Live(p) => \A v \in Below(sz[p]) : cont[ptr[Pte(Cur(p), v)]] = view[p][v]

(* The page below the stack stays closed to the program, in its children    *)
(* too, as long as it exists; every other page is open.                     *)
GuardClosed ==
  \A p \in Proc : Live(p) => /\ guard[p] \in Below(sz[p]) => view[p][guard[p]] = "zero"
                             /\ \A v \in Below(sz[p]) : Pte(Cur(p), v) \in user <=> v # guard[p]

(* The panics of vm.c are out of reach: mappages finds no page where it     *)
(* maps one ("remap"), copyuvm finds every page of the parent ("pte should  *)
(* exist", "page not present"), loaduvm every page it reads into ("address  *)
(* should exist"), and clearpteu and copyout find guard and stack.          *)
NoPanic ==
  \A p \in Proc :
    /\ pc[p] = "mappages" => at[p] \in Vpn \ Mapped(dst[p])
    /\ pc[p] = "copyuvm" /\ at[p] < Pages(sz[p]) => at[p] \in Mapped(Cur(p))
    /\ pc[p] = "loaduvm" => Below(Segment(p).vaddr + Segment(p).filesz) \subseteq Mapped(dst[p])
    /\ pc[p] = "copyout" => {Pages(new[p]) - 2, Pages(new[p]) - 1} \subseteq Mapped(dst[p])

(* An address space that no process has and no call builds holds no page.   *)
Used(s) == (Live(s[1]) /\ s = Cur(s[1])) \/ \E p \in Proc : pc[p] # "user" /\ dst[p] = s
NothingLeft ==
  /\ \A s \in Space : ~Used(s) => \A a \in Tree(s) : ptr[a] = NoPage
  /\ \A p \in Proc : state[p] = "unused" => ptr[Kstack(p)] = NoPage
  /\ \A p \in Proc : pc[p] # "mappages" => ptr[Mem(p)] = NoPage

(* The address space of every process after any sequence of fork, sbrk,     *)
(* exec and exit and in the midst of them: all of it mapped, its own, the   *)
(* guard page closed, no panic, and nothing left of a call that failed or   *)
(* of a process that is gone.                                               *)
AddressSpace == TypeOK /\ SizeIsMapped /\ PrivateMemory /\ GuardClosed /\ NoPanic /\ NothingLeft

(* The image of a process (its size and the pages below it with their PTE   *)
(* flags) changes only when a call of its own succeeds.  Not when one       *)
(* fails, not in the midst of one, and not by a call of another process.    *)
Image(p) == <<sz[p], [v \in Below(sz[p]) |-> <<ptr[Pte(Cur(p), v)], Pte(Cur(p), v) \in user>>]>>
FailureUndone ==
  [][\A p \in Proc : Live(p) /\ Live(p)' /\ Image(p)' # Image(p) => pc[p] # "user" /\ pc'[p] = "user" /\ ret'[p] = 0]_vars
=============================================================================
