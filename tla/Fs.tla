--------------------------------- MODULE Fs ---------------------------------
(* The file system calls of sysfile.c and the open files of file.c on top   *)
(* of the inode layer, executed by several processes step by step.  A step  *)
(* runs from one acquisition of a sleep lock to the next; iput() is two     *)
(* steps of its own, because its test of nlink and ref and its decrement of *)
(* ref are separate critical sections.                                      *)
(* Every process executes a program, a sequence of calls with the results   *)
(* the program expects, as the test programs of the repository do.          *)
EXTENDS Inode, Calls
CONSTANTS Proc,      \* processes; the first one starts, the others are forked
          NFILE,     \* entries of the file table
          NOFILE,    \* descriptors per process
          WriteMax,  \* bytes filewrite hands to one writei
          Code(_),   \* program name -> sequence of calls
          Main,      \* the programs process 1 may run
          Alone,     \* those that never fork
          Image      \* the files mkfs put into the root directory
VARIABLES ftable,    \* file -> [ref, type, ip, off, readable, writable]
          ofile,     \* process -> descriptor -> file, or NoFile
          cwd,       \* process -> inode number
          status,    \* process -> "unused", "run", "zombie"
          prog, at,  \* process -> its program and the position in it
          env,       \* process -> variable of the program -> descriptor
          th,        \* process -> the state of its system call
          failed     \* a call returned what its program does not expect

fdVars == <<ftable, ofile, cwd>>
callVars == <<status, prog, at, env, failed>>
vars == <<inodeVars, fdVars, th, callVars>>

File == 1 .. NFILE
NoFile == 0
Fd == 0 .. NOFILE - 1
Var == {"fd", "fd1"}

Idle == [pc |-> "user", path |-> <<>>, name |-> "", ip |-> NoInode, dp |-> NoInode,
         lp |-> NoInode, puts |-> <<>>, dropping |-> FALSE, files |-> <<>>, n |-> 0, ret |-> 0, got |-> <<>>]
NoOpen == [ref |-> 0, type |-> "none", ip |-> NoInode, off |-> 0, readable |-> FALSE, writable |-> FALSE]

Init ==
  /\ disk = [i \in Inum |-> IF i = ROOTINO THEN [type |-> "dir", nlink |-> 1]
                            ELSE IF i <= Len(Image) + 1 THEN [type |-> "file", nlink |-> 1]
                            ELSE [type |-> "free", nlink |-> 0]]
  /\ data = [i \in Inum |->
       IF i = ROOTINO THEN <<[name |-> ".", inum |-> ROOTINO], [name |-> "..", inum |-> ROOTINO]>>
                           \o [k \in 1 .. Len(Image) |-> [name |-> Image[k], inum |-> k + 1]]
       ELSE <<>>]
  /\ icache = [[i \in Inum |-> Unused] EXCEPT ![ROOTINO].ref = 1]
  /\ ilk = [i \in Inum |-> NoProc]
  /\ ftable = [f \in File |-> NoOpen]
  /\ ofile = [p \in Proc |-> [fd \in Fd |-> NoFile]]
  /\ cwd = [p \in Proc |-> IF p = 1 THEN ROOTINO ELSE NoInode]
  /\ status = [p \in Proc |-> IF p = 1 THEN "run" ELSE "unused"]
  /\ prog \in {[p \in Proc |-> m] : m \in Main}
  /\ at = [p \in Proc |-> 1] /\ env = [p \in Proc |-> [v \in Var |-> -1]]
  /\ th = [p \in Proc |-> Idle] /\ failed = FALSE

(***************************************************************************)
(* Files and descriptors.                                                  *)
(***************************************************************************)
filealloc == FirstIn({f \in File : ftable[f].ref = 0})
fdalloc(p) ==
  LET free == {fd \in Fd : ofile[p][fd] = NoFile}
  IN  IF free = {} THEN -1 ELSE CHOOSE fd \in free : \A e \in free : fd <= e
argfd(p, v) ==
  LET fd == env[p][v] IN IF fd \notin Fd \/ ofile[p][fd] = NoFile THEN NoFile ELSE ofile[p][fd]
filedup(t, f) == [t EXCEPT ![f].ref = @ + 1]

(* The table after fileclose, and the inode it puts.                       *)
fileclose(t, f) ==
  IF t[f].ref > 1 THEN [t EXCEPT ![f].ref = @ - 1] ELSE [t EXCEPT ![f].ref = 0, ![f].type = "none"]
ClosePuts(f) == IF ftable[f].ref = 1 /\ ftable[f].type = "inode" THEN <<ftable[f].ip>> ELSE <<>>

(***************************************************************************)
(* Steps.  Leave(t, v, s) ends a call with result v after putting s.       *)
(***************************************************************************)
(* The call a process is in, or makes next.                                *)
Running(p) == status[p] = "run" /\ at[p] <= Len(Code(prog[p]))
NextCall(p) == Code(prog[p])[at[p]]
Go(p, t) == th' = [th EXCEPT ![p] = t]
Leave(t, v, s) ==
  [t EXCEPT !.pc = "ret", !.ret = v, !.ip = NoInode, !.dp = NoInode, !.lp = NoInode, !.puts = s]

(* A pathname lookup that fails undoes the link count in link().           *)
NotFound(t, s) ==
  IF t.lp = NoInode THEN Leave(t, -1, s) ELSE [t EXCEPT !.pc = "link_bad", !.ip = NoInode, !.puts = s]
WantsParent(p) ==
  LET c == NextCall(p) IN
  c.op \in {"mkdir", "mknod", "unlink"} \/ (c.op = "open" /\ "O_CREATE" \in c.mode) \/ th[p].lp # NoInode
AfterNamex(p) ==
  LET c == NextCall(p) IN
  CASE th[p].lp # NoInode -> "link_dp"
    [] c.op = "link"      -> "link_ip"
    [] c.op = "unlink"    -> "unlink"
    [] c.op = "chdir"     -> "chdir"
    [] WantsParent(p)     -> "create"
    [] OTHER              -> "open_ip"

(* The first half of namex: a reference to the root or to cwd.             *)
Start(p, m, t, path) ==
  LET s == IF IsAbsolute(path) THEN ROOTINO ELSE cwd[p]
  IN  /\ icache' = IF IsAbsolute(path) THEN iget(m, ROOTINO) ELSE idup(m, cwd[p])
      /\ Go(p, [t EXCEPT !.pc = "namex", !.path = Elements(path), !.ip = s])

namex(p) ==
  LET t == th[p]
      i == t.ip
      m == ilock(icache, i)
      name == skipelem(t.path)
      k == dirlookup(i, name)
  IN  /\ t.pc = "namex"
      /\ \/ /\ t.path = <<>>
            /\ Go(p, IF WantsParent(p) THEN NotFound(t, <<i>>) ELSE [t EXCEPT !.pc = AfterNamex(p)])
            /\ UNCHANGED icache
         \/ /\ t.path # <<>> /\ ilk[i] = NoProc
            /\ \/ /\ m[i].type # "dir"
                  /\ icache' = m /\ Go(p, NotFound(t, <<i>>))
               \/ /\ m[i].type = "dir" /\ WantsParent(p) /\ Len(t.path) = 1
                  /\ icache' = m
                  /\ Go(p, [t EXCEPT !.pc = AfterNamex(p), !.name = name, !.ip = NoInode, !.dp = i])
               \/ /\ m[i].type = "dir" /\ ~(WantsParent(p) /\ Len(t.path) = 1)
                  /\ IF k = 0 THEN icache' = m /\ Go(p, NotFound(t, <<i>>))
                     ELSE LET next == data[i][k].inum IN
                          /\ icache' = iget(m, next)
                          /\ Go(p, [t EXCEPT !.path = Tail(@), !.ip = next, !.puts = <<i>>])
      /\ UNCHANGED <<disk, data, ilk, fdVars, callVars>>

Orphan_linked(i) == icache[i].valid
Orphan(i) == icache[i].valid /\ icache[i].nlink = 0
LastRef(i) == icache[i].ref = 1

(* iput(Head(puts)) up to the release of the sleep lock; an inode without  *)
(* links whose only reference this is gets truncated and freed.            *)
iput(p) ==
  LET t == th[p]
      i == Head(t.puts)
  IN  /\ t.puts # <<>> /\ ~t.dropping /\ ilk[i] = NoProc
      /\ IF Orphan(i) /\ LastRef(i)
         THEN /\ data' = [data EXCEPT ![i] = <<>>]
              /\ disk' = [disk EXCEPT ![i] = [type |-> "free", nlink |-> 0]]
              /\ icache' = [icache EXCEPT ![i].type = "free", ![i].valid = FALSE]
         ELSE UNCHANGED <<data, disk, icache>>
      /\ Go(p, [t EXCEPT !.dropping = TRUE])
      /\ UNCHANGED <<ilk, fdVars, callVars>>

(* The last lines of iput.                                                 *)
iput_drop(p) ==
  LET t == th[p] IN
  /\ t.dropping
  /\ icache' = [icache EXCEPT ![Head(t.puts)].ref = @ - 1]
  /\ Go(p, [t EXCEPT !.puts = Tail(@), !.dropping = FALSE])
  /\ UNCHANGED <<data, disk, ilk, fdVars, callVars>>

(* create: look the name up in the parent; the parent stays locked if the  *)
(* inode has to be made.                                                   *)
create(p) ==
  LET t == th[p]
      m == ilock(icache, t.dp)
      k == dirlookup(t.dp, t.name)
  IN  /\ t.pc = "create" /\ ilk[t.dp] = NoProc
      /\ IF k # 0
         THEN LET i == data[t.dp][k].inum IN
              /\ icache' = iget(m, i) /\ UNCHANGED ilk
              /\ Go(p, [t EXCEPT !.pc = "create_found", !.ip = i, !.dp = NoInode, !.puts = <<t.dp>>])
         ELSE /\ icache' = m /\ ilk' = [ilk EXCEPT ![t.dp] = p]
              /\ Go(p, [t EXCEPT !.pc = "create_alloc"])
      /\ UNCHANGED <<disk, data, fdVars, callVars>>

create_found(p) ==
  LET t == th[p]
      m == ilock(icache, t.ip)
  IN  /\ t.pc = "create_found" /\ ilk[t.ip] = NoProc
      /\ icache' = m
      /\ IF NextCall(p).op = "open" /\ m[t.ip].type = "file"
         THEN ilk' = [ilk EXCEPT ![t.ip] = p] /\ Go(p, [t EXCEPT !.pc = "made"])
         ELSE UNCHANGED ilk /\ Go(p, Leave(t, -1, <<t.ip>>))
      /\ UNCHANGED <<disk, data, fdVars, callVars>>

TypeOf(c) == CASE c.op = "mkdir" -> "dir" [] c.op = "mknod" -> "dev" [] OTHER -> "file"
create_alloc_unwritten(p) ==
  LET t == th[p] IN
  /\ t.pc = "create_alloc"
  /\ icache' = iget(icache, ialloc) /\ Go(p, [t EXCEPT !.pc = "create_ip", !.ip = ialloc])
  /\ UNCHANGED <<disk, data, ilk, fdVars, callVars>>
create_alloc(p) ==
  LET t == th[p] IN
  /\ t.pc = "create_alloc"
  /\ disk' = [disk EXCEPT ![ialloc] = [type |-> TypeOf(NextCall(p)), nlink |-> 0]]
  /\ icache' = iget(icache, ialloc)
  /\ Go(p, [t EXCEPT !.pc = "create_ip", !.ip = ialloc])
  /\ UNCHANGED <<data, ilk, fdVars, callVars>>

Dots(ip, dp) == dirlink(dirlink(<<>>, ".", ip), "..", dp)

(* The new inode gets its link and, as a directory, its dots; then it is   *)
(* entered in the parent.                                                  *)
create_ip(p) ==
  LET t == th[p]
      m == [ilock(icache, t.ip) EXCEPT ![t.ip].nlink = 1,
                                       ![t.dp].nlink = IF NextCall(p).op = "mkdir" THEN @ + 1 ELSE @]
  IN  /\ t.pc = "create_ip" /\ ilk[t.ip] = NoProc
      /\ icache' = m
      /\ disk' = iupdate(m, iupdate(m, disk, t.ip), t.dp)
      /\ data' = [data EXCEPT ![t.ip] = IF NextCall(p).op = "mkdir" THEN Dots(t.ip, t.dp) ELSE @,
                              ![t.dp] = dirlink(@, t.name, t.ip)]
      /\ ilk' = [ilk EXCEPT ![t.ip] = p, ![t.dp] = NoProc]
      /\ Go(p, [t EXCEPT !.pc = "made", !.dp = NoInode, !.puts = <<t.dp>>])
      /\ UNCHANGED <<fdVars, callVars>>

(* mkdir and mknod after create.                                           *)
sys_mkdir(p) ==
  LET t == th[p] IN
  /\ t.pc = "made" /\ NextCall(p).op # "open"
  /\ ilk' = [ilk EXCEPT ![t.ip] = NoProc]
  /\ Go(p, Leave(t, 0, <<t.ip>>))
  /\ UNCHANGED <<disk, data, icache, fdVars, callVars>>

(* open once it has an inode: locked already if create made it.            *)
sys_open(p) ==
  LET t == th[p]
      i == t.ip
      m == ilock(icache, i)
      f == filealloc
      fd == fdalloc(p)
      opened == [ref |-> 1, type |-> "inode", ip |-> i, off |-> 0, readable |-> "O_WRONLY" \notin NextCall(p).mode,
                 writable |-> NextCall(p).mode \cap {"O_WRONLY", "O_RDWR"} # {}]
  IN  /\ \/ t.pc = "open_ip" /\ ilk[i] = NoProc
         \/ t.pc = "made" /\ NextCall(p).op = "open"
      /\ icache' = m /\ ilk' = [ilk EXCEPT ![i] = NoProc]
      /\ IF \/ t.pc = "open_ip" /\ m[i].type = "dir" /\ NextCall(p).mode # {}
            \/ f = NoFile \/ fd = -1
         THEN Go(p, Leave(t, -1, <<i>>)) /\ UNCHANGED <<ftable, ofile>>
         ELSE /\ ftable' = [ftable EXCEPT ![f] = opened]
              /\ ofile' = [ofile EXCEPT ![p][fd] = f]
              /\ Go(p, Leave(t, fd, <<>>))
      /\ UNCHANGED <<disk, data, cwd, callVars>>

sys_chdir(p) ==
  LET t == th[p]
      m == ilock(icache, t.ip)
  IN  /\ t.pc = "chdir" /\ ilk[t.ip] = NoProc
      /\ icache' = m
      /\ IF m[t.ip].type # "dir" THEN Go(p, Leave(t, -1, <<t.ip>>)) /\ UNCHANGED cwd
         ELSE Go(p, Leave(t, 0, <<cwd[p]>>)) /\ cwd' = [cwd EXCEPT ![p] = t.ip]
      /\ UNCHANGED <<disk, data, ilk, ftable, ofile, callVars>>

(* link: count first, then enter the name, and undo the count if that      *)
(* fails.                                                                  *)
link_ip(p) ==
  LET t == th[p]
      i == t.ip
      m == ilock(icache, i)
      n == [m EXCEPT ![i].nlink = @ + 1]
  IN  /\ t.pc = "link_ip" /\ ilk[i] = NoProc
      /\ IF m[i].type = "dir" THEN icache' = m /\ Go(p, Leave(t, -1, <<i>>)) /\ UNCHANGED disk
         ELSE disk' = iupdate(n, disk, i) /\ Start(p, n, [t EXCEPT !.lp = i], NextCall(p).b)
      /\ UNCHANGED <<data, ilk, fdVars, callVars>>

link_dp(p) ==
  LET t == th[p]
      m == ilock(icache, t.dp)
      k == dirlookup(t.dp, t.name)
  IN  /\ t.pc = "link_dp" /\ ilk[t.dp] = NoProc
      /\ IF k # 0
         THEN LET i == data[t.dp][k].inum IN
              /\ icache' = iget(m, i) /\ ilk' = [ilk EXCEPT ![t.dp] = p] /\ UNCHANGED data
              /\ Go(p, [t EXCEPT !.pc = "link_exists", !.puts = <<i>>])
         ELSE /\ icache' = m /\ UNCHANGED ilk
              /\ data' = [data EXCEPT ![t.dp] = dirlink(@, t.name, t.lp)]
              /\ Go(p, Leave(t, 0, <<t.dp, t.lp>>))
      /\ UNCHANGED <<disk, fdVars, callVars>>

link_exists(p) ==
  LET t == th[p] IN
  /\ t.pc = "link_exists"
  /\ ilk' = [ilk EXCEPT ![t.dp] = NoProc]
  /\ Go(p, [t EXCEPT !.pc = "link_bad", !.dp = NoInode, !.puts = <<t.dp>>])
  /\ UNCHANGED <<disk, data, icache, fdVars, callVars>>

link_bad(p) ==
  LET t == th[p]
      m == [ilock(icache, t.lp) EXCEPT ![t.lp].nlink = @ - 1]
  IN  /\ t.pc = "link_bad" /\ ilk[t.lp] = NoProc
      /\ icache' = m /\ disk' = iupdate(m, disk, t.lp)
      /\ Go(p, Leave(t, -1, <<t.lp>>))
      /\ UNCHANGED <<data, ilk, fdVars, callVars>>

(* unlink: the parent is locked while the inode's lock is awaited.         *)
sys_unlink(p) ==
  LET t == th[p]
      m == ilock(icache, t.dp)
      k == IF t.name \in {".", ".."} THEN 0 ELSE dirlookup(t.dp, t.name)
  IN  /\ t.pc = "unlink" /\ ilk[t.dp] = NoProc
      /\ IF k = 0 THEN icache' = m /\ UNCHANGED ilk /\ Go(p, Leave(t, -1, <<t.dp>>))
         ELSE /\ icache' = iget(m, data[t.dp][k].inum) /\ ilk' = [ilk EXCEPT ![t.dp] = p]
              /\ Go(p, [t EXCEPT !.pc = "unlink_ip", !.ip = data[t.dp][k].inum, !.n = k])
      /\ UNCHANGED <<disk, data, fdVars, callVars>>

unlink_ip(p) ==
  LET t == th[p]
      m == ilock(icache, t.ip)
      isdir == m[t.ip].type = "dir"
      n == [m EXCEPT ![t.dp].nlink = IF isdir THEN @ - 1 ELSE @]
  IN  /\ t.pc = "unlink_ip" /\ ilk[t.ip] = NoProc
      /\ IF isdir /\ ~isdirempty(t.ip)
         THEN /\ icache' = m /\ UNCHANGED <<disk, data, ilk>>
              /\ Go(p, [t EXCEPT !.pc = "unlink_bad", !.ip = NoInode, !.puts = <<t.ip>>])
         ELSE /\ icache' = n /\ disk' = iupdate(n, disk, t.dp)
              /\ data' = [data EXCEPT ![t.dp][t.n] = NoEntry]
              /\ ilk' = [ilk EXCEPT ![t.dp] = NoProc, ![t.ip] = p]
              /\ Go(p, [t EXCEPT !.pc = "unlink_drop", !.dp = NoInode, !.puts = <<t.dp>>])
      /\ UNCHANGED <<fdVars, callVars>>

unlink_bad(p) ==
  LET t == th[p] IN
  /\ t.pc = "unlink_bad"
  /\ ilk' = [ilk EXCEPT ![t.dp] = NoProc]
  /\ Go(p, Leave(t, -1, <<t.dp>>))
  /\ UNCHANGED <<disk, data, icache, fdVars, callVars>>

unlink_drop(p) ==
  LET t == th[p]
      m == [icache EXCEPT ![t.ip].nlink = @ - 1]
  IN  /\ t.pc = "unlink_drop"
      /\ icache' = m /\ disk' = iupdate(m, disk, t.ip) /\ ilk' = [ilk EXCEPT ![t.ip] = NoProc]
      /\ Go(p, Leave(t, 0, <<t.ip>>))
      /\ UNCHANGED <<data, fdVars, callVars>>

(***************************************************************************)
(* Calls on descriptors.                                                   *)
(***************************************************************************)
sys_close(p, c) ==
  LET f == argfd(p, c.fd) IN
  /\ c.op = "close"
  /\ IF f = NoFile THEN Go(p, Leave(Idle, -1, <<>>)) /\ UNCHANGED <<ftable, ofile>>
     ELSE /\ ofile' = [ofile EXCEPT ![p][env[p][c.fd]] = NoFile]
          /\ ftable' = fileclose(ftable, f) /\ Go(p, Leave(Idle, 0, ClosePuts(f)))
  /\ UNCHANGED <<inodeVars, cwd>>

sys_dup(p, c) ==
  LET f == argfd(p, c.fd)
      fd == fdalloc(p)
  IN  /\ c.op = "dup"
      /\ IF f = NoFile \/ fd = -1 THEN Go(p, Leave(Idle, -1, <<>>)) /\ UNCHANGED <<ftable, ofile>>
         ELSE /\ ofile' = [ofile EXCEPT ![p][fd] = f] /\ ftable' = filedup(ftable, f)
              /\ Go(p, Leave(Idle, fd, <<>>))
      /\ UNCHANGED <<inodeVars, cwd>>

(* read and fstat hold the inode's lock throughout.                        *)
fileread(p, c) ==
  LET f == argfd(p, c.fd)
      i == ftable[f].ip
      got == readi(i, ftable[f].off, c.n)
  IN  /\ c.op \in {"read", "fstat"}
      /\ IF f = NoFile \/ ftable[f].type # "inode" \/ (c.op = "read" /\ ~ftable[f].readable)
         THEN Go(p, Leave(Idle, -1, <<>>)) /\ UNCHANGED <<ftable, icache>>
         ELSE /\ ilk[i] = NoProc /\ icache' = ilock(icache, i)
              /\ IF c.op = "fstat" THEN Go(p, Leave(Idle, icache'[i].nlink, <<>>)) /\ UNCHANGED ftable
                 ELSE /\ ftable' = [ftable EXCEPT ![f].off = @ + Len(got)]
                      /\ Go(p, [Leave(Idle, Len(got), <<>>) EXCEPT !.got = got])
      /\ UNCHANGED <<disk, data, ilk, ofile, cwd>>

(* Where a turn of the loop of filewrite ends that begins at n of len bytes.*)
TurnEnd_whole(n, len) == IF n + WriteMax > len THEN n ELSE n + WriteMax
TurnEnd(n, len) == IF n + WriteMax > len THEN len ELSE n + WriteMax

(* One turn of the loop of filewrite; the lock is given up between turns.  *)
filewrite(p, c, n) ==
  LET f == argfd(p, c.fd)
      i == ftable[f].ip
      end == TurnEnd(n, Len(c.d))
      part == SubSeq(c.d, n + 1, end)
  IN  /\ IF f = NoFile \/ ~ftable[f].writable THEN Go(p, Leave(Idle, -1, <<>>)) /\ UNCHANGED <<ftable, icache, data>>
         ELSE /\ ilk[i] = NoProc /\ icache' = ilock(icache, i)
              /\ data' = [data EXCEPT ![i] = writei(i, ftable[f].off, part)]
              /\ ftable' = [ftable EXCEPT ![f].off = @ + Len(part)]
              /\ Go(p, IF end = Len(c.d) THEN Leave(Idle, end, <<>>)
                       ELSE [Idle EXCEPT !.pc = "write", !.n = end])
      /\ UNCHANGED <<disk, ilk, ofile, cwd>>

(* pipe: pipealloc takes two files and a page, sys_pipe two descriptors;   *)
(* whatever is missing, everything taken so far is given back.             *)
sys_pipe(p, c) ==
  LET f == filealloc IN
  /\ c.op = "pipe"
  /\ IF f = NoFile THEN Go(p, Leave(Idle, -1, <<>>)) /\ UNCHANGED ftable
     ELSE ftable' = [ftable EXCEPT ![f].ref = 1] /\ Go(p, [Idle EXCEPT !.pc = "pipealloc", !.files = <<f>>])
  /\ UNCHANGED <<inodeVars, ofile, cwd>>

pipealloc(p) ==
  LET t == th[p]
      f0 == t.files[1]
      f1 == filealloc
      fds == {fd \in Fd : ofile[p][fd] = NoFile}
      fd0 == fdalloc(p)
      fd1 == CHOOSE fd \in fds \ {fd0} : \A e \in fds \ {fd0} : fd <= e
      end(w) == [NoOpen EXCEPT !.ref = 1, !.type = "pipe", !.readable = ~w, !.writable = w]
      full == [ftable EXCEPT ![f0] = end(FALSE), ![f1] = end(TRUE)]
  IN  /\ t.pc = "pipealloc"
      /\ \/ f1 = NoFile /\ Go(p, [t EXCEPT !.pc = "pipe_bad"]) /\ UNCHANGED <<ftable, ofile>>
         \/ /\ f1 # NoFile \* kalloc fails
            /\ ftable' = [ftable EXCEPT ![f1].ref = 1] /\ UNCHANGED ofile
            /\ Go(p, [t EXCEPT !.pc = "pipe_bad", !.files = <<f0, f1>>])
         \/ /\ f1 # NoFile /\ Cardinality(fds) < 2
            /\ ftable' = full /\ UNCHANGED ofile
            /\ Go(p, [t EXCEPT !.pc = "pipe_bad", !.files = <<f0, f1>>])
         \/ /\ f1 # NoFile /\ Cardinality(fds) >= 2
            /\ ftable' = full
            /\ ofile' = [ofile EXCEPT ![p][fd0] = f0, ![p][fd1] = f1]
            /\ Go(p, [Leave(Idle, fd0, <<>>) EXCEPT !.n = fd1])
      /\ UNCHANGED <<inodeVars, cwd, callVars>>

pipe_bad(p) ==
  LET t == th[p] IN
  /\ t.pc = "pipe_bad"
  /\ ftable' = fileclose(ftable, Head(t.files))
  /\ Go(p, IF Len(t.files) = 1 THEN Leave(Idle, -1, <<>>) ELSE [t EXCEPT !.files = Tail(@)])
  /\ UNCHANGED <<inodeVars, ofile, cwd, callVars>>

(***************************************************************************)
(* Processes: what fork, exit and wait do to files and inodes.             *)
(***************************************************************************)
RefsOf(p, f) == Cardinality({fd \in Fd : ofile[p][fd] = f})
sys_fork(p, c) ==
  /\ c.op = "fork" /\ status[c.q] = "unused"
  /\ ftable' = [f \in File |-> [ftable[f] EXCEPT !.ref = @ + RefsOf(p, f)]]
  /\ ofile' = [ofile EXCEPT ![c.q] = ofile[p]]
  /\ icache' = idup(icache, cwd[p]) /\ cwd' = [cwd EXCEPT ![c.q] = cwd[p]]
  /\ status' = [status EXCEPT ![c.q] = "run"]
  /\ prog' = [prog EXCEPT ![c.q] = c.run] /\ at' = [at EXCEPT ![c.q] = 1, ![p] = @ + 1]
  /\ env' = [env EXCEPT ![c.q] = env[p]]
  /\ UNCHANGED <<disk, data, ilk, th, failed>>

sys_wait(p, c) ==
  /\ c.op = "wait"
  /\ \E q \in Proc : status[q] = "zombie" /\ status' = [status EXCEPT ![q] = "unused"]
  /\ at' = [at EXCEPT ![p] = @ + 1]
  /\ UNCHANGED <<inodeVars, fdVars, th, prog, env, failed>>

(* exit closes the descriptors one by one, then puts cwd.                  *)
sys_exit(p, c) ==
  LET used == {fd \in Fd : ofile[p][fd] # NoFile}
      fd == CHOOSE e \in used : \A d \in used : e <= d
      f == ofile[p][fd]
  IN  /\ c.op = "exit"
      /\ \/ /\ used # {}
            /\ ftable' = fileclose(ftable, f) /\ ofile' = [ofile EXCEPT ![p][fd] = NoFile]
            /\ Go(p, [Idle EXCEPT !.puts = ClosePuts(f)]) /\ UNCHANGED <<cwd, status>>
         \/ /\ used = {} /\ cwd[p] # NoInode
            /\ Go(p, [Idle EXCEPT !.puts = <<cwd[p]>>]) /\ cwd' = [cwd EXCEPT ![p] = NoInode]
            /\ UNCHANGED <<ftable, ofile, status>>
         \/ /\ used = {} /\ cwd[p] = NoInode
            /\ status' = [status EXCEPT ![p] = "zombie"] /\ UNCHANGED <<th, fdVars>>
      /\ UNCHANGED <<inodeVars, prog, at, env, failed>>

(* The next call of the program.                                           *)
PathCalls == {"open", "link", "unlink", "mkdir", "mknod", "chdir"}
syscall(p) ==
  LET c == NextCall(p) IN
  /\ Running(p) /\ th[p].pc = "user"
  /\ \/ /\ c.op \in PathCalls /\ Start(p, icache, Idle, c.a)
        /\ UNCHANGED <<disk, data, ilk, fdVars, callVars>>
     \/ sys_close(p, c) /\ UNCHANGED callVars
     \/ sys_dup(p, c) /\ UNCHANGED callVars
     \/ fileread(p, c) /\ UNCHANGED callVars
     \/ c.op = "write" /\ filewrite(p, c, 0) /\ UNCHANGED callVars
     \/ sys_pipe(p, c) /\ UNCHANGED callVars
     \/ sys_fork(p, c) \/ sys_wait(p, c) \/ sys_exit(p, c)

(* The call returns to the program, which looks at the result.             *)
Count(s, x) == Cardinality({k \in DOMAIN s : s[k] = x})
Meets(w, t) ==
  CASE w.kind = "any"   -> TRUE
    [] w.kind = "ok"    -> t.ret >= 0
    [] w.kind = "fails" -> t.ret < 0
    [] w.kind = "returns" -> t.ret = w.n
    [] w.kind = "gets"  -> t.got = w.d
    [] w.kind = "mixed" -> Len(t.got) = w.n /\ \A x \in {w.d[k] : k \in 1 .. w.n} : Count(t.got, x) = Count(w.d, x)
    [] w.kind = "lists" -> \A k \in DOMAIN w.d :
                             Cardinality({j \in DOMAIN t.got : t.got[j].inum # 0 /\ t.got[j].name = w.d[k]}) = 1
Return(p) ==
  LET t == th[p]
      c == NextCall(p)
  IN  /\ t.pc = "ret"
      /\ Go(p, Idle) /\ at' = [at EXCEPT ![p] = @ + 1]
      /\ failed' = (failed \/ ~Meets(c.want, t))
      /\ env' = CASE c.op = "open" -> [env EXCEPT ![p][c.fd] = t.ret]
                  [] c.op = "dup"  -> [env EXCEPT ![p][c.run] = t.ret]
                  [] c.op = "pipe" -> [env EXCEPT ![p][c.fd] = t.ret, ![p][c.run] = IF t.ret < 0 THEN -1 ELSE t.n]
                  [] OTHER         -> env
      /\ UNCHANGED <<inodeVars, fdVars, status, prog>>

(***************************************************************************)
(* The panics of the calls: an inode to be locked that is free on the      *)
(* disk, an unlinked inode without links, no inode or cache entry left, a  *)
(* file closed once too often.                                             *)
(***************************************************************************)
LockTarget(t) ==
  CASE t.pc = "namex"                                                   -> IF t.path = <<>> THEN NoInode ELSE t.ip
    [] t.pc \in {"open_ip", "chdir", "link_ip", "create_found", "create_ip", "unlink_ip"} -> t.ip
    [] t.pc \in {"create", "unlink", "link_dp"}                         -> t.dp
    [] t.pc = "link_bad"                                                -> t.lp
    [] OTHER                                                            -> NoInode
Panics(p) ==
  LET t == th[p]
      i == LockTarget(t)
  IN  \/ t.puts = <<>> /\ i # NoInode /\ ilk[i] = NoProc /\ ilock(icache, i)[i].type = "free"
      \/ t.puts = <<>> /\ t.pc = "unlink_ip" /\ ilk[t.ip] = NoProc /\ ilock(icache, t.ip)[t.ip].nlink < 1
      \/ t.puts = <<>> /\ t.pc = "create_alloc" /\ (FreeInums = {} \/ IgetPanics(icache, ialloc))
      \/ \E f \in File : ftable[f].ref < 0

CallStep(p) ==
  \/ namex(p) \/ create(p) \/ create_found(p) \/ create_alloc(p) \/ create_ip(p)
  \/ sys_mkdir(p) \/ sys_open(p) \/ sys_chdir(p)
  \/ link_ip(p) \/ link_dp(p) \/ link_exists(p) \/ link_bad(p)
  \/ sys_unlink(p) \/ unlink_ip(p) \/ unlink_bad(p) \/ unlink_drop(p)
  \/ th[p].pc = "write" /\ filewrite(p, NextCall(p), th[p].n) /\ UNCHANGED callVars
  \/ pipealloc(p) \/ pipe_bad(p) \/ Return(p)

Step(p) ==
  /\ ~Panics(p)
  /\ \/ iput(p) \/ iput_drop(p)
     \/ th[p].puts = <<>> /\ (syscall(p) \/ CallStep(p))

(* The programs have ended.                                                *)
Quiet == status[1] = "run" /\ ~Running(1) /\ th[1] = Idle /\ \A p \in Proc \ {1} : status[p] # "run"
Finished == Quiet /\ UNCHANGED vars

Next == (\E p \in Proc : Step(p)) \/ Finished
Spec == Init /\ [][Next]_vars /\ \A p \in Proc : WF_vars(Step(p))

(***************************************************************************)
(* Properties.                                                             *)
(***************************************************************************)
TypeOK ==
  /\ disk \in [Inum -> [type : Types, nlink : Nat]]
  /\ icache \in [Inum -> [ref : Nat, valid : BOOLEAN, type : Types, nlink : Nat]]
  /\ ilk \in [Inum -> Proc \cup {NoProc}]
  /\ \A f \in File : ftable[f].ref \in Nat /\ ftable[f].ip \in Inum \cup {NoInode}
  /\ ofile \in [Proc -> [Fd -> File \cup {NoFile}]] /\ cwd \in [Proc -> Inum \cup {NoInode}]
  /\ status \in [Proc -> {"unused", "run", "zombie"}] /\ failed \in BOOLEAN

(* Every reference that iget and idup count is held by somebody: a current  *)
(* directory, an open file, or a system call under way, which will put it.  *)
Held(t, i) ==
  Cardinality({k \in DOMAIN t.puts : t.puts[k] = i}) + Cardinality({x \in {"ip", "dp", "lp"} : t[x] = i})
HeldBy[n \in 0 .. Cardinality(Proc)] ==
  [i \in Inum |-> IF n = 0 THEN 0 ELSE HeldBy[n - 1][i] + Held(th[n], i)]
RefCount ==
  \A i \in Inum :
    icache[i].ref = Cardinality({p \in Proc : cwd[p] = i})
                    + Cardinality({f \in File : ftable[f].type = "inode" /\ ftable[f].ip = i})
                    + HeldBy[Cardinality(Proc)][i]

(* A file's ref is the number of descriptors that name it, in all processes *)
(* together, and of the calls that are about to hand it out or close it.    *)
FileRefCount ==
  \A f \in File :
    ftable[f].ref = Cardinality({pf \in Proc \X Fd : ofile[pf[1]][pf[2]] = f})
                    + Cardinality({p \in Proc : \E k \in DOMAIN th[p].files : th[p].files[k] = f})

(* nlink counts the names of an inode in directories that are themselves    *)
(* linked, with the ".." of its subdirectories and one for the root.  The   *)
(* two calls that change name and count in separate steps are corrected     *)
(* for: link counts first, unlink erases the name first.                    *)
Unlinking(i) == \E p \in Proc : th[p].pc = "unlink_drop" /\ th[p].ip = i
LinkedDir(d) == disk[d].type = "dir" /\ disk[d].nlink > 0 /\ ~Unlinking(d)
NamesOf(i) ==
  {e \in {d \in Inum : LinkedDir(d)} \X (1 .. 2 * NInodes) :
     /\ e[2] \in DOMAIN data[e[1]] /\ data[e[1]][e[2]].inum = i
     /\ e[2] # 1 /\ (e[2] = 2 => e[1] # i)}
LinkCount ==
  \A i \in Inum :
    disk[i].nlink = Cardinality(NamesOf(i)) + (IF i = ROOTINO THEN 1 ELSE 0)
                    + Cardinality({p \in Proc : th[p].lp = i}) + (IF Unlinking(i) THEN 1 ELSE 0)

(* Nothing that can still be reached is freed: not an inode that has a      *)
(* name, not one that is open or a current directory.                       *)
NoDangling ==
  \A i \in Inum : disk[i].type = "free" =>
    /\ NamesOf(i) = {} /\ data[i] = <<>>
    /\ \A p \in Proc : cwd[p] # i
    /\ \A f \in File : ftable[f].type = "inode" => ftable[f].ip # i

(* The directories form a tree: a linked directory other than the root has  *)
(* one name, and its dots are itself and the directory that names it.       *)
DirectoryTree ==
  \A d \in Inum \ {ROOTINO} : LinkedDir(d) =>
    /\ data[d][1] = [name |-> ".", inum |-> d] /\ data[d][2].name = ".."
    /\ {e \in NamesOf(d) : e[2] > 2} # {}
    /\ \A e \in NamesOf(d) : e[2] > 2 => data[d][2].inum = e[1]

(* A directory never holds a name twice.                                    *)
NamesUnique ==
  \A d \in Inum : disk[d].type = "dir" =>
    \A k, l \in DOMAIN data[d] : data[d][k].inum # 0 /\ data[d][l].inum # 0 /\ data[d][k].name = data[d][l].name => k = l

(* The cached copy of an inode is the one on the disk.                      *)
CacheCoherent ==
  \A i \in Inum : icache[i].ref > 0 /\ icache[i].valid =>
    icache[i].type = disk[i].type /\ icache[i].nlink = disk[i].nlink

(* None of the panics is reached: no process is about to lock a free inode, *)
(* to unlink one without links, or to find no inode or cache entry left.    *)
NoPanic == \A p \in Proc : ~Panics(p)

(* Every call returns what the program that makes it accepts.               *)
TestsPass == ~failed

(* iput frees the inode it puts last: an allocated inode without links is   *)
(* still referenced.                                                        *)
UnlinkedIsFreed == \A i \in Inum : disk[i].type # "free" /\ disk[i].nlink = 0 => icache[i].ref > 0

(* With one process alone that is so whenever no call is under way.         *)
UnlinkedIsFreedAlone == prog[1] \in Alone => UnlinkedIsFreed

(* The counts behind iget/iput and filedup/fileclose are exact, and ilock   *)
(* finds in the cache what is on the disk.                                  *)
References == TypeOK /\ RefCount /\ FileRefCount /\ CacheCoherent

(* What create, link and unlink do to the names leaves a tree without       *)
(* double names, whose link counts are right.                               *)
NameSpace == DirectoryTree /\ NamesUnique /\ LinkCount

(* iput frees an inode neither too early nor, in one process, too late.     *)
FreedInTime == NoDangling /\ UnlinkedIsFreedAlone

(* No two processes wait for the inode lock that the other one holds: the   *)
(* deadlock that the linkunlink test of usertests.c looks for.              *)
WaitsFor(p) ==
  LET t == th[p] IN
  IF t.puts = <<>> THEN LockTarget(t) ELSE IF t.dropping THEN NoInode ELSE Head(t.puts)
Blocks(q, p) == WaitsFor(p) # NoInode /\ ilk[WaitsFor(p)] = q
NoCrossedLocks == \A p, q \in Proc : ~(Blocks(p, q) /\ Blocks(q, p))

(* No deadlock among inode locks and no lost step: all programs end.        *)
ProgramsEnd == <>Quiet

=============================================================================
