------------------------------ MODULE VmIndInv ------------------------------
(***************************************************************************)
(* The inductive invariant of Vm.  It says, for every point of every call, *)
(* how far the address space that the call builds has got; the processes   *)
(* are independent because no place belongs to two of them.                *)
(***************************************************************************)
EXTENDS Vm

-----------------------------------------------------------------------------
(* The inductive invariant.                                                *)

(* No page at the places of s; pages exactly at the first n of its PTEs.   *)
Blank(s) == \A a \in Tree(s) : ptr[a] = NoPage
Upto(s, n) == \A v \in Vpn : ptr[Pte(s, v)] # NoPage <=> v < n

(* From page m on and below page n: the contents, and the flag PTE_U.      *)
Filled(s, m, n, f) == \A v \in Vpn : m <= v /\ v < n => cont[ptr[Pte(s, v)]] = f[v]
Flags(s, m, n, g) == \A v \in Vpn : m <= v /\ v < n => (Pte(s, v) \in user <=> v # g)

Zeros == [v \in Vpn |-> "zero"]
Texts == [v \in Vpn |-> "text"]

(* p builds the address space of another process (of itself in userinit).  *)
Builds(p) == op[p] \in {"boot", "fork"}

(* Which call goes where, in which state, on which address space.          *)
Control(p) ==
  /\ op[p] = "none" <=> pc[p] = "user"
  /\ op[p] = "none" => at[p] = 0 /\ new[p] = 0
  /\ op[p] = "boot" => /\ p = initproc /\ state[p] = "embryo" /\ dst[p] = Cur(p) /\ guard[p] = -1
                       /\ pc[p] \in {"userinit", "setupkvm", "kmap", "segment", "mappages", "allocuvm"}
  /\ op[p] = "fork" => /\ state[p] = "run" /\ state[np(p)] = "embryo" /\ dst[p] = Cur(np(p))
                       /\ pc[p] \in {"setupkvm", "kmap", "copyuvm", "mappages"}
  /\ op[p] = "grow" => state[p] = "run" /\ dst[p] = Cur(p) /\ pc[p] \in {"growproc", "allocuvm", "mappages"}
  /\ op[p] = "shrink" => state[p] = "run" /\ dst[p] = Cur(p) /\ pc[p] = "growproc"
  /\ op[p] = "exec" => /\ state[p] = "run" /\ dst[p] = Other(p)
                       /\ pc[p] \in {"setupkvm", "kmap", "segment", "mappages", "allocuvm", "loaduvm", "copyout", "commit"}

(* An embryo has one builder. *)
Builders ==
  /\ \A p, r \in Proc : Builds(p) /\ Builds(r) /\ np(p) = np(r) => p = r
  /\ \A q \in Proc : state[q] = "embryo" => \E p \in Proc : Builds(p) /\ np(p) = q

(* The places of a process. *)
Growing(q) == op[q] = "grow" /\ pc[q] # "growproc"
Slot(q) ==
  /\ state[q] = "unused" => Blank(Cur(q)) /\ ptr[Kstack(q)] = NoPage
  /\ op[q] # "exec" => Blank(Other(q))
  /\ Live(q) => /\ ptr[Kstack(q)] # NoPage /\ HasTables(Cur(q))
                /\ Below(sz[q]) \subseteq Mapped(Cur(q))
                /\ ~Growing(q) => Upto(Cur(q), Pages(sz[q]))
                /\ Filled(Cur(q), 0, Pages(sz[q]), view[q]) /\ Flags(Cur(q), 0, Pages(sz[q]), guard[q])
                /\ guard[q] = -1 \/ (guard[q] \in Below(sz[q]) /\ view[q][guard[q]] = "zero")

(* How far the call of p has got. *)
Early(p) == pc[p] \in {"userinit", "setupkvm"}
Middle(p) == pc[p] \in {"copyuvm", "mappages", "allocuvm", "segment", "loaduvm", "copyout", "commit"}
Done(p) == IF pc[p] \in {"copyuvm", "mappages", "allocuvm"} THEN at[p] ELSE Pages(new[p])

Directory(p) ==
  /\ Early(p) => Blank(dst[p]) /\ new[p] = 0 /\ at[p] = 0
  /\ pc[p] = "kmap" => /\ at[p] \in KernelTable /\ new[p] = 0 /\ ptr[Dir(dst[p])] # NoPage /\ Upto(dst[p], 0)
                       /\ \A k \in KernelTable : ptr[Ktable(dst[p], k)] # NoPage <=> k < at[p]
  /\ Middle(p) => HasTables(dst[p]) /\ Upto(dst[p], Done(p))
  /\ pc[p] = "userinit" => ptr[Kstack(p)] = NoPage
  /\ Builds(p) /\ pc[p] # "userinit" => ptr[Kstack(np(p))] # NoPage
  /\ ptr[Mem(p)] # NoPage <=> pc[p] = "mappages"

Boot(p) ==
  op[p] = "boot" => /\ pc[p] \in {"segment", "mappages"} => at[p] = 0 /\ new[p] = 0
                    /\ pc[p] = "mappages" => cont[ptr[Mem(p)]] = "text"
                    /\ pc[p] = "allocuvm" => at[p] = 1 /\ new[p] = 0 /\ Filled(dst[p], 0, 1, Texts) /\ Flags(dst[p], 0, 1, -1)

Copy(p) ==
  op[p] = "fork" /\ Middle(p) =>
    /\ at[p] <= Pages(sz[p]) /\ Filled(dst[p], 0, at[p], view[p]) /\ Flags(dst[p], 0, at[p], guard[p])
    /\ pc[p] = "mappages" => at[p] < Pages(sz[p]) /\ cont[ptr[Mem(p)]] = view[p][at[p]]

Grow(p) ==
  Growing(p) =>
    /\ sz[p] <= new[p] /\ new[p] < KERNBASE /\ Pages(sz[p]) <= at[p] /\ at[p] <= Pages(new[p])
    /\ Filled(dst[p], Pages(sz[p]), at[p], Zeros) /\ Flags(dst[p], Pages(sz[p]), at[p], -1)
    /\ pc[p] = "mappages" => at[p] < Pages(new[p]) /\ cont[ptr[Mem(p)]] = "zero"

(* The stack pages are the last two. *)
Stacked(p) == pc[p] = "copyout" \/ (pc[p] \in {"allocuvm", "mappages"} /\ ~Loading(p))
Fits(p) == Segment(p).vaddr + Segment(p).filesz <= new[p]
Load(p) ==
  op[p] = "exec" /\ Middle(p) =>
    /\ new[p] < KERNBASE
    /\ pc[p] # "commit" => Flags(dst[p], 0, Done(p), -1)
    /\ pc[p] \in {"allocuvm", "mappages"} => at[p] <= Pages(new[p]) /\ (Loading(p) => Fits(p))
    /\ pc[p] = "mappages" => at[p] < Pages(new[p]) /\ cont[ptr[Mem(p)]] = "zero"
    /\ pc[p] = "loaduvm" => Loading(p) /\ Fits(p)
    /\ Stacked(p) => Pages(new[p]) >= 2 /\ Filled(dst[p], Pages(new[p]) - 2, Done(p), Zeros)
    /\ pc[p] = "commit" => /\ Pages(new[p]) >= 2 /\ Flags(dst[p], 0, Done(p), Pages(new[p]) - 2)
                           /\ Filled(dst[p], Pages(new[p]) - 2, Pages(new[p]) - 1, Zeros)

Work(p) == Directory(p) /\ Boot(p) /\ Copy(p) /\ Grow(p) /\ Load(p)

(* PTE_U is the flag of a PTE that is present. *)
UserPresent == \A a \in user : ptr[a] # NoPage /\ \A p \in Proc : a # Mem(p)

VmInv ==
  /\ TypeOK /\ OnePlace /\ UserPresent /\ Builders
  /\ \A p \in Proc : Control(p) /\ Slot(p) /\ Work(p)

-----------------------------------------------------------------------------
(* What the proofs say of a step.                                          *)

MemTypes ==
  /\ ptr \in [Place -> Page \cup {NoPage}] /\ user \subseteq Place
  /\ free \subseteq Page /\ lost \subseteq Page /\ cont \in [Page -> Contents]
MemOK == MemTypes /\ OnePlace /\ UserPresent

(* A step leaves the place b alone: its page, the flag, the contents. *)
Still(b) == /\ ptr'[b] = ptr[b] /\ (b \in user' <=> b \in user)
            /\ ptr[b] # NoPage => cont'[ptr[b]] = cont[ptr[b]]

StillTree(s) == \A a \in Tree(s) : Still(a)
SameLocals(r) == /\ pc'[r] = pc[r] /\ op'[r] = op[r] /\ dst'[r] = dst[r]
                 /\ at'[r] = at[r] /\ new'[r] = new[r] /\ rest'[r] = rest[r]
SameProc(r) == cur'[r] = cur[r] /\ sz'[r] = sz[r] /\ state'[r] = state[r] /\ view'[r] = view[r] /\ guard'[r] = guard[r]

ProcTypes ==
  /\ cur \in [Proc -> {0, 1}] /\ sz \in [Proc -> 0 .. KERNBASE - 1]
  /\ state \in [Proc -> {"unused", "embryo", "run", "zombie"}]
  /\ view \in [Proc -> [Vpn -> Contents \cup {"none"}]] /\ guard \in [Proc -> Int]
PCs == {"user", "userinit", "setupkvm", "kmap", "copyuvm", "mappages", "allocuvm", "growproc",
        "segment", "loaduvm", "copyout", "commit"}
Ops == {"none", "boot", "fork", "grow", "shrink", "exec"}
Files == Seq([vaddr : 0 .. Word - 1, memsz : 0 .. Word - 1, filesz : 0 .. Word - 1, short : BOOLEAN])
LocalTypes ==
  /\ pc \in [Proc -> PCs] /\ op \in [Proc -> Ops] /\ dst \in [Proc -> Space] /\ at \in [Proc -> Nat]
  /\ new \in [Proc -> Nat] /\ rest \in [Proc -> Files] /\ ret \in [Proc -> {0, -1}] /\ calls \in Nat

Mine(p, q) == {Mem(p), Kstack(p), Kstack(q)} \cup Tree(<<p, 0>>) \cup Tree(<<p, 1>>) \cup Tree(<<q, 0>>) \cup Tree(<<q, 1>>)

(* The image of x, if it is a process before and after the step. *)
Keeps(x) == Live(x) /\ Live(x)' => Image(x)' = Image(x)

Succeeds(x) == pc[x] # "user" /\ pc'[x] = "user" /\ ret'[x] = 0

=============================================================================
