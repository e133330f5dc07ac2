---------------------------- MODULE UserPrograms ----------------------------
(* The commands of the user directory that call the file system, as         *)
(* programs for Fs.  Output to descriptor 1 is left out.                    *)
EXTENDS Calls, SequencesExt

(* for every argument: the loops of mkdir.c and rm.c                        *)
mkdir_main(args) == [k \in DOMAIN args |-> mkdir(args[k], Anything)]
rm_main(args) == [k \in DOMAIN args |-> unlink(args[k], Anything)]
ln_main(old, new) == <<link(old, new, Anything)>>

(* A file of one buffer: read until the result is 0.                        *)
cat_main(file) ==
  <<open(file, {}, "fd", Anything), read("fd", 2, Anything), read("fd", 2, Anything), close("fd")>>

(* stat of ulib.c, and ls of a directory with the entries names: every      *)
(* entry is read and then opened, when it may be gone.                      *)
stat(path) == <<open(path, {}, "fd1", Anything), fstat("fd1", Anything), close("fd1")>>
ls_main(path, names) ==
  <<open(path, {}, "fd", Ok), fstat("fd", Ok)>>
  \o FlattenSeq([k \in DOMAIN names |-> <<read("fd", 1, Returns(1))>> \o stat(path \o <<names[k]>>)])
  \o <<close("fd")>>

(* 2 processes instead of 5 and 2 writes instead of 20; the last process    *)
(* has no child to wait for.                                                *)
stressfs_each(path) ==
  <<open(path, {"O_CREATE", "O_RDWR"}, "fd", Ok), write("fd", <<"a">>, Returns(1)), write("fd", <<"a">>, Returns(1)), close("fd"),
    open(path, {}, "fd", Ok), read("fd", 1, Gets(<<"a">>)), read("fd", 1, Gets(<<"a">>)), close("fd")>>
stressfs_main(child) == <<fork(2, child)>> \o stressfs_each(<<"stressfs0">>) \o <<wait>>

(* The console is made if it is not there; one turn of the loop, with       *)
(* program sh as the shell.                                                 *)
init_main(sh) ==
  <<open(<<"console">>, {"O_RDWR"}, "fd", Fails), mknod(<<"console">>, Ok), open(<<"console">>, {"O_RDWR"}, "fd", Ok), dup("fd", "fd1"), dup("fd", "fd1"),
    fork(2, sh), wait>>
=============================================================================
