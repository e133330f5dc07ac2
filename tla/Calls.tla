------------------------------- MODULE Calls --------------------------------
(* System calls on files as the programs of the repository write them: the *)
(* arguments of a call, the variable of the program that takes or gives a  *)
(* descriptor, and the result that the program accepts.                    *)
EXTENDS Integers, Sequences

(* Calls, as a program writes them.  want says which result it expects.     *)
Anything == [kind |-> "any", n |-> 0, d |-> <<>>]
Ok == [Anything EXCEPT !.kind = "ok"]
Fails == [Anything EXCEPT !.kind = "fails"]
Gets(s) == [Anything EXCEPT !.kind = "gets", !.n = Len(s), !.d = s]
Mixed(s) == [Gets(s) EXCEPT !.kind = "mixed"]
Lists(names) == [Anything EXCEPT !.kind = "lists", !.d = names]
Returns(n) == [Anything EXCEPT !.kind = "returns", !.n = n]

NoCall == [op |-> "none", a |-> <<>>, b |-> <<>>, mode |-> {}, fd |-> "fd", d |-> <<>>, q |-> 0, n |-> 0,
           run |-> "none", want |-> Anything]
open(path, mode, v, want) == [NoCall EXCEPT !.op = "open", !.a = path, !.mode = mode, !.fd = v, !.want = want]
close(v) == [NoCall EXCEPT !.op = "close", !.fd = v]
dup(v, w) == [NoCall EXCEPT !.op = "dup", !.fd = v, !.run = w]
read(v, n, want) == [NoCall EXCEPT !.op = "read", !.fd = v, !.n = n, !.want = want]
write(v, s, want) == [NoCall EXCEPT !.op = "write", !.fd = v, !.d = s, !.want = want]
fstat(v, want) == [NoCall EXCEPT !.op = "fstat", !.fd = v, !.want = want]
link(old, new, want) == [NoCall EXCEPT !.op = "link", !.a = old, !.b = new, !.want = want]
unlink(path, want) == [NoCall EXCEPT !.op = "unlink", !.a = path, !.want = want]
mkdir(path, want) == [NoCall EXCEPT !.op = "mkdir", !.a = path, !.want = want]
mknod(path, want) == [NoCall EXCEPT !.op = "mknod", !.a = path, !.want = want]
chdir(path, want) == [NoCall EXCEPT !.op = "chdir", !.a = path, !.want = want]
pipe(v, w) == [NoCall EXCEPT !.op = "pipe", !.fd = v, !.run = w]
fork(q, program) == [NoCall EXCEPT !.op = "fork", !.q = q, !.run = program]
wait == [NoCall EXCEPT !.op = "wait"]
exit == [NoCall EXCEPT !.op = "exit"]
=============================================================================
