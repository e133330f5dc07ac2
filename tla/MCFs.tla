-------------------------------- MODULE MCFs --------------------------------
(* The file system under the tests of usertests.c and under the shorter     *)
(* programs below, which let two processes meet.                            *)
EXTENDS Fs, UserTests, UserPrograms, TLC

(* Two processes close the last descriptors of an unlinked file, opened     *)
(* twice, at the same time.                                                 *)
closers ==
  <<open(<<"f">>, CRW, "fd", Ok), open(<<"f">>, {}, "fd1", Ok), fstat("fd", Returns(1)), unlink(<<"f">>, Ok),
    fork(2, "closers_child"), close("fd1"), close("fd"), wait>>
closers_child == <<close("fd"), close("fd1"), exit>>

(* Files and pages run out in pipe() while the other process takes some.    *)
exhaust ==
  <<open(<<"cat">>, {}, "fd", Ok), dup("fd", "fd1"), fork(2, "exhaust_child"), pipe("fd", "fd1"), pipe("fd", "fd1"),
    close("fd"), close("fd1"), wait>>
exhaust_child == <<pipe("fd", "fd1"), close("fd"), exit>>

(* Descriptors run out in dup(), open() and pipe(); calls on a descriptor   *)
(* that is closed or not open for writing.                                  *)
limits ==
  <<mknod(<<"console">>, Ok), open(<<"console">>, {}, "fd", Ok), write("fd", <<"x">>, Fails), dup("fd", "fd1"), dup("fd", "fd1"),
    dup("fd", "fd1"), dup("fd", "fd"), open(<<"cat">>, {}, "fd", Fails), close("fd1"), pipe("fd", "fd1"),
    read("fd", 1, Fails), fstat("fd", Fails), write("fd", <<"x">>, Fails), close("fd")>>

(* init starts a shell that removes files and makes a directory.  In the    *)
(* session the directory is listed and a file copied meanwhile.             *)
sh == rm_main(<<<<"README">>, <<"echo">>>>) \o mkdir_main(<<<<"d">>>>) \o <<exit>>
session == <<fork(2, "sh")>> \o ls_main(<<".">>, <<"README", "echo">>) \o ln_main(<<"echo">>, <<"e">>) \o cat_main(<<"e">>) \o <<wait>>

Program(k) ==
  CASE k = "closers" -> closers [] k = "closers_child" -> closers_child
    [] k = "exhaust" -> exhaust [] k = "exhaust_child" -> exhaust_child
    [] k = "limits" -> limits
    [] k = "init" -> init_main("sh") [] k = "sh" -> sh [] k = "session" -> session
    [] k = "stressfs" -> stressfs_main("stressfs_child")
    [] k = "stressfs_child" -> stressfs_each(<<"stressfs1">>) \o <<exit>>
    [] OTHER -> TestCode(k, NINODE)
MCMain == (Tests \ {"linkunlink"}) \cup {"closers", "exhaust", "limits", "init", "session", "stressfs"}
MCChildren == {"closers_child", "exhaust_child", "sh", "stressfs_child", "exitiputtest_child", "openiputtest_child", "sharedfd_child",
               "fourfiles_0", "fourfiles_1", "createdelete_child", "make_C0", "make_C2", "link_C1", "look_C0", "drop_C1", "drop_C2",
               "linkunlink_child"}
MCPrograms == [k \in MCMain \cup Tests \cup MCChildren |-> Program(k)]
MCCode(k) == MCPrograms[k]
MCAlone == {m \in MCMain : \A k \in DOMAIN MCCode(m) : MCCode(m)[k].op # "fork"}
MCLinkUnlink == {"linkunlink"}
MCImage == <<"README", "echo", "cat">>
=============================================================================
