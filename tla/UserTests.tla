----------------------------- MODULE UserTests ------------------------------
(* The file system tests of usertests.c as programs for Fs: the calls of    *)
(* each test in its order, with the results the test accepts.  Loops are    *)
(* unrolled a few times (the bound is named beside each), data is a few     *)
(* bytes, and a child's part is a program of its own.                       *)
EXTENDS Calls, SequencesExt

C == {"O_CREATE"}
CRW == {"O_CREATE", "O_RDWR"}
RW == {"O_RDWR"}
Times(n, s) == FlattenSeq([k \in 1 .. n |-> s])

iputtest == <<mkdir(<<"iputdir">>, Ok), chdir(<<"iputdir">>, Ok), unlink(<<"..", "iputdir">>, Ok), chdir(<<"/">>, Ok)>>

exitiputtest == <<fork(2, "exitiputtest_child"), wait>>
exitiputtest_child ==
  <<mkdir(<<"iputdir">>, Ok), chdir(<<"iputdir">>, Ok), unlink(<<"..", "iputdir">>, Ok), exit>>

openiputtest == <<mkdir(<<"oidir">>, Ok), fork(2, "openiputtest_child"), unlink(<<"oidir">>, Ok), wait>>
openiputtest_child == <<open(<<"oidir">>, RW, "fd", Fails), exit>>

opentest == <<open(<<"echo">>, {}, "fd", Ok), close("fd"), open(<<"doesnotexist">>, {}, "fd", Fails)>>

(* 2 turns of the loop instead of 100.                                      *)
writetest ==
  <<open(<<"small">>, CRW, "fd", Ok)>>
  \o Times(2, <<write("fd", <<"a", "a">>, Returns(2)), write("fd", <<"b">>, Returns(1))>>)
  \o <<close("fd"), open(<<"small">>, {}, "fd", Ok), read("fd", 6, Gets(<<"a", "a", "b", "a", "a", "b">>)),
       close("fd"), unlink(<<"small">>, Ok)>>

(* A file of 3 blocks instead of MAXFILE, one block per read and write.     *)
writetest1 ==
  <<open(<<"big">>, CRW, "fd", Ok)>> \o [i \in 1 .. 3 |-> write("fd", <<i>>, Returns(1))]
  \o <<close("fd"), open(<<"big">>, {}, "fd", Ok)>> \o [i \in 1 .. 3 |-> read("fd", 1, Gets(<<i>>))]
  \o <<read("fd", 1, Returns(0)), close("fd"), unlink(<<"big">>, Ok)>>

(* 3 names instead of 52.                                                   *)
createtest ==
  LET names == <<"a0", "a1", "a2">>
  IN  FlattenSeq([i \in 1 .. 3 |-> <<open(<<names[i]>>, CRW, "fd", Anything), close("fd")>>])
      \o [i \in 1 .. 3 |-> unlink(<<names[i]>>, Anything)]

dirtest == <<mkdir(<<"dir0">>, Ok), chdir(<<"dir0">>, Ok), chdir(<<"..">>, Ok), unlink(<<"dir0">>, Ok)>>

(* 2 writes by each process instead of 1000; every byte must arrive.        *)
sharedfd ==
  <<unlink(<<"sharedfd">>, Anything), open(<<"sharedfd">>, CRW, "fd", Ok), fork(2, "sharedfd_child")>>
  \o Times(2, <<write("fd", <<"p", "p">>, Returns(2))>>)
  \o <<wait, close("fd"), open(<<"sharedfd">>, {}, "fd", Ok),
       read("fd", 9, Mixed(<<"p", "p", "p", "p", "c", "c", "c", "c">>)), close("fd"), unlink(<<"sharedfd">>, Anything)>>
sharedfd_child == Times(2, <<write("fd", <<"c", "c">>, Returns(2))>>) \o <<exit>>

(* Two files and processes instead of four, 2 writes instead of 12.         *)
fourfiles ==
  <<unlink(<<"f0">>, Anything), fork(2, "fourfiles_0"), unlink(<<"f1">>, Anything), fork(3, "fourfiles_1"), wait, wait,
    open(<<"f0">>, {}, "fd", Ok), read("fd", 9, Gets(<<"0", "0">>)), close("fd"), unlink(<<"f0">>, Anything),
    open(<<"f1">>, {}, "fd", Ok), read("fd", 9, Gets(<<"1", "1">>)), close("fd"), unlink(<<"f1">>, Anything)>>
fourfiles_child(name, x) ==
  <<open(<<name>>, CRW, "fd", Ok), write("fd", <<x>>, Returns(1)), write("fd", <<x>>, Returns(1)), exit>>

(* One child instead of four, N = 4 instead of 20: a file is unlinked again *)
(* when i is even and positive.  The parent then looks for all names; its   *)
(* last loop takes the letter of a name from i, as the code does.           *)
createdelete ==
  LET names == <<"p0", "p1", "p2", "p3">>
      look(i) == IF i = 2 THEN <<open(<<names[i]>>, {}, "fd", Fails)>>
                 ELSE <<open(<<names[i]>>, {}, "fd", Ok), close("fd")>>
  IN  <<fork(2, "createdelete_child"), wait>> \o FlattenSeq([i \in 1 .. 4 |-> look(i)])
      \o [i \in 1 .. 4 |-> unlink(<<(<<"p0", "q1", "r2", "s3">>)[i]>>, Anything)]
createdelete_child ==
  LET make(f) == <<open(<<f>>, CRW, "fd", Ok), close("fd")>>
  IN  make("p0") \o make("p1") \o make("p2") \o <<unlink(<<"p1">>, Ok)>> \o make("p3") \o <<exit>>

unlinkread ==
  LET f == <<"unlinkread">>
  IN  <<open(f, CRW, "fd", Ok), write("fd", <<"h", "e", "l", "l", "o">>, Anything), close("fd"),
        open(f, RW, "fd", Ok), unlink(f, Ok),
        open(f, CRW, "fd1", Anything), write("fd1", <<"y", "y", "y">>, Anything), close("fd1"),
        read("fd", 9, Gets(<<"h", "e", "l", "l", "o">>)), write("fd", <<"h", "e", "l">>, Returns(3)),
        close("fd"), unlink(f, Anything)>>

linktest ==
  LET lf1 == <<"lf1">>
      lf2 == <<"lf2">>
  IN  <<unlink(lf1, Anything), unlink(lf2, Anything), open(lf1, CRW, "fd", Ok),
        write("fd", <<"h", "e", "l", "l", "o">>, Returns(5)), close("fd"),
        link(lf1, lf2, Ok), unlink(lf1, Anything), open(lf1, {}, "fd1", Fails),
        open(lf2, {}, "fd", Ok), read("fd", 9, Returns(5)), close("fd"),
        link(lf2, lf2, Fails), unlink(lf2, Anything), link(lf2, lf1, Fails), link(<<".">>, lf1, Fails)>>

(* 3 files instead of 40, each call of the second part twice instead of     *)
(* four times.  i % 3 and i % 5 choose who links and who unlinks.           *)
concreate ==
  LET make(f) == <<open(<<f>>, CRW, "fd", Ok), close("fd")>>
      look(f) == Times(2, <<open(<<f>>, {}, "fd", Anything), close("fd")>>)
      drop(f) == Times(2, <<unlink(<<f>>, Anything)>>)
      both(child, mine) == <<fork(2, child)>> \o mine \o <<wait>>
  IN  <<unlink(<<"C0">>, Anything)>> \o both("make_C0", make("C0"))
      \o <<unlink(<<"C1">>, Anything)>> \o both("link_C1", <<link(<<"C0">>, <<"C1">>, Anything)>>)
      \o <<unlink(<<"C2">>, Anything)>> \o both("make_C2", make("C2"))
      \o <<open(<<".">>, {}, "fd", Anything), read("fd", 99, Lists(<<"C0", "C1", "C2">>)), close("fd")>>
      \o both("look_C0", drop("C0")) \o both("drop_C1", look("C1")) \o both("drop_C2", drop("C2"))
concreate_make(f) == <<open(<<f>>, CRW, "fd", Ok), close("fd"), exit>>
concreate_link == <<link(<<"C0">>, <<"C1">>, Anything), exit>>
concreate_look(f) == Times(2, <<open(<<f>>, {}, "fd", Anything), close("fd")>>) \o <<exit>>
concreate_drop(f) == Times(2, <<unlink(<<f>>, Anything)>>) \o <<exit>>

(* The first 4 of 100 turns; the values of x % 3 are those of the           *)
(* generator x = x * 1103515245 + 12345 started with 1 and with 97.         *)
linkunlink_turns(xs) ==
  FlattenSeq([k \in DOMAIN xs |-> CASE xs[k] = 0 -> <<open(<<"x">>, CRW, "fd", Anything), close("fd")>>
                                    [] xs[k] = 1 -> <<link(<<"cat">>, <<"x">>, Anything)>>
                                    [] OTHER     -> <<unlink(<<"x">>, Anything)>>])
linkunlink == <<unlink(<<"x">>, Anything), fork(2, "linkunlink_child")>> \o linkunlink_turns(<<0, 2, 1, 0>>) \o <<wait>>
linkunlink_child == linkunlink_turns(<<0, 1, 1, 0>>) \o <<exit>>

(* 3 names instead of 500.                                                  *)
bigdir ==
  LET names == <<"x00", "x01", "x02">>
  IN  <<unlink(<<"bd">>, Anything), open(<<"bd">>, C, "fd", Ok), close("fd")>>
      \o [i \in 1 .. 3 |-> link(<<"bd">>, <<names[i]>>, Ok)] \o <<unlink(<<"bd">>, Anything)>>
      \o [i \in 1 .. 3 |-> unlink(<<names[i]>>, Ok)]

subdir ==
  LET ff == <<"dd", "ff">>
      ddff == <<"dd", "dd", "ff">>
      ffff == <<"dd", "dd", "ffff">>
      ffff1 == <<"dd", "ff", "ff">>
      xx == <<"dd", "xx", "ff">>
      to == <<"dd", "dd", "xx">>
  IN  <<unlink(<<"ff">>, Anything), mkdir(<<"dd">>, Ok),
        open(ff, CRW, "fd", Ok), write("fd", <<"f", "f">>, Anything), close("fd"), unlink(<<"dd">>, Fails),
        mkdir(<<"/", "dd", "dd">>, Ok), open(ddff, CRW, "fd", Ok), write("fd", <<"F", "F">>, Anything), close("fd"),
        open(<<"dd", "dd", "..", "ff">>, {}, "fd", Ok), read("fd", 9, Gets(<<"f", "f">>)), close("fd"),
        link(ddff, ffff, Ok), unlink(ddff, Ok), open(ddff, {}, "fd1", Fails),
        chdir(<<"dd">>, Ok), chdir(<<"dd", "..", "..", "dd">>, Ok),
        chdir(<<"dd", "..", "..", "..", "dd">>, Ok), chdir(<<".", "..">>, Ok),
        open(ffff, {}, "fd", Ok), read("fd", 9, Returns(2)), close("fd"),
        open(ddff, {}, "fd1", Fails), open(ffff1, CRW, "fd1", Fails), open(xx, CRW, "fd1", Fails),
        open(<<"dd">>, C, "fd1", Fails), open(<<"dd">>, RW, "fd1", Fails), open(<<"dd">>, {"O_WRONLY"}, "fd1", Fails),
        link(ffff1, to, Fails), link(xx, to, Fails), link(ff, ffff, Fails),
        mkdir(ffff1, Fails), mkdir(xx, Fails), mkdir(ffff, Fails), unlink(xx, Fails), unlink(ffff1, Fails),
        chdir(ff, Fails), chdir(<<"dd", "xx">>, Fails),
        unlink(ffff, Ok), unlink(ff, Ok), unlink(<<"dd">>, Fails), unlink(<<"dd", "dd">>, Ok), unlink(<<"dd">>, Ok)>>

(* Sizes below, at and above what filewrite hands to one writei.            *)
bigwrite ==
  LET f == <<"bigwrite">>
      b(n) == [k \in 1 .. n |-> "b"]
      turn(n) == <<open(f, CRW, "fd", Ok), write("fd", b(n), Returns(n)), write("fd", b(n), Returns(n)), close("fd"),
                   unlink(f, Anything)>>
  IN  <<unlink(f, Anything)>> \o turn(1) \o turn(2) \o turn(3) \o turn(5)

(* 3 writes instead of 20; a read takes half of what a write wrote.         *)
bigfile ==
  LET f == <<"bigfile">>
  IN  <<unlink(f, Anything), open(f, CRW, "fd", Ok)>> \o [i \in 1 .. 3 |-> write("fd", <<i, i>>, Returns(2))]
      \o <<close("fd"), open(f, {}, "fd", Ok)>> \o [i \in 1 .. 6 |-> read("fd", 1, Gets(<<(i + 1) \div 2>>))]
      \o <<read("fd", 1, Returns(0)), close("fd"), unlink(f, Anything)>>

fourteen ==
  LET n14 == "12345678901234"
      n15 == "123456789012345"
  IN  <<mkdir(<<n14>>, Ok), mkdir(<<n14, n15>>, Ok), open(<<n15, n15, n15>>, C, "fd", Ok), close("fd"),
        open(<<n14, n14, n14>>, {}, "fd", Ok), close("fd"), mkdir(<<n14, n14>>, Fails), mkdir(<<n15, n14>>, Fails)>>

rmdot ==
  <<mkdir(<<"dots">>, Ok), chdir(<<"dots">>, Ok), unlink(<<".">>, Fails), unlink(<<"..">>, Fails), chdir(<<"/">>, Ok),
    unlink(<<"dots", ".">>, Fails), unlink(<<"dots", "..">>, Fails), unlink(<<"dots">>, Ok)>>

dirfile ==
  LET xx == <<"dirfile", "xx">>
  IN  <<open(<<"dirfile">>, C, "fd", Ok), close("fd"), chdir(<<"dirfile">>, Fails), open(xx, {}, "fd", Fails),
        open(xx, C, "fd", Fails), mkdir(xx, Fails), unlink(xx, Fails), link(<<"README">>, xx, Fails),
        unlink(<<"dirfile">>, Ok), open(<<".">>, RW, "fd", Fails), open(<<".">>, {}, "fd", Anything),
        write("fd", <<"x">>, Fails), close("fd")>>

(* One turn more than the inode cache has entries, as in the test (n is     *)
(* NINODE): a reference left behind by an empty name would exhaust it.      *)
iref(n) ==
  Times(n + 1, <<mkdir(<<"irefd">>, Ok), chdir(<<"irefd">>, Ok), mkdir(<<>>, Anything), link(<<"README">>, <<>>, Anything),
                 open(<<>>, C, "fd", Anything), close("fd"), open(<<"xx">>, C, "fd", Anything), close("fd"),
                 unlink(<<"xx">>, Anything)>>)
  \o <<chdir(<<"/">>, Anything)>>

(* The programs by name.                                                    *)
Tests == {"iputtest", "exitiputtest", "openiputtest", "opentest", "writetest", "writetest1", "createtest", "dirtest",
          "sharedfd", "fourfiles", "createdelete", "unlinkread", "linktest", "concreate", "linkunlink", "bigdir",
          "subdir", "bigwrite", "bigfile", "fourteen", "rmdot", "dirfile", "iref"}
TestCode(k, n) ==
  CASE k = "iputtest" -> iputtest
    [] k = "exitiputtest" -> exitiputtest
    [] k = "exitiputtest_child" -> exitiputtest_child
    [] k = "openiputtest" -> openiputtest
    [] k = "openiputtest_child" -> openiputtest_child
    [] k = "opentest" -> opentest
    [] k = "writetest" -> writetest
    [] k = "writetest1" -> writetest1
    [] k = "createtest" -> createtest
    [] k = "dirtest" -> dirtest
    [] k = "sharedfd" -> sharedfd
    [] k = "sharedfd_child" -> sharedfd_child
    [] k = "fourfiles" -> fourfiles
    [] k = "fourfiles_0" -> fourfiles_child("f0", "0")
    [] k = "fourfiles_1" -> fourfiles_child("f1", "1")
    [] k = "createdelete" -> createdelete
    [] k = "createdelete_child" -> createdelete_child
    [] k = "unlinkread" -> unlinkread
    [] k = "linktest" -> linktest
    [] k = "concreate" -> concreate
    [] k = "make_C0" -> concreate_make("C0")
    [] k = "make_C2" -> concreate_make("C2")
    [] k = "link_C1" -> concreate_link
    [] k = "look_C0" -> concreate_look("C0")
    [] k = "drop_C1" -> concreate_drop("C1")
    [] k = "drop_C2" -> concreate_drop("C2")
    [] k = "linkunlink" -> linkunlink
    [] k = "linkunlink_child" -> linkunlink_child
    [] k = "bigdir" -> bigdir
    [] k = "subdir" -> subdir
    [] k = "bigwrite" -> bigwrite
    [] k = "bigfile" -> bigfile
    [] k = "fourteen" -> fourteen
    [] k = "rmdot" -> rmdot
    [] k = "dirfile" -> dirfile
    [] k = "iref" -> iref(n)
====
