------------------------------ MODULE MCParts -------------------------------
(***************************************************************************)
(* Five parts of the system that share no state with each other, side by   *)
(* side in one run: console input and timed sleeping (module Devices),     *)
(* file contents (module Files), the user allocator and the shell.  A      *)
(* behaviour runs one of them, the one part says; the variables of the     *)
(* others keep their initial values.                                       *)
(***************************************************************************)
EXTENDS Devices, Files

CONSTANTS ShChars

VARIABLES
    part,
    m_ptr, m_size, m_freep, m_brk, m_live, m_own, m_asked,
    s_buf, s_typed, s_parse, s_running

cvars == <<c_buf, c_r, c_w, c_e, c_pc, c_n, c_dst, c_killed, c_line, c_queue>>
tvars == <<t_ticks, t_pc, t_ticks0, t_n, t_killed, t_passed, t_late>>
dvars == <<d_disk, d_used, d_addrs, d_size, d_call, d_file>>
mvars == <<m_ptr, m_size, m_freep, m_brk, m_live, m_own, m_asked>>
svars == <<s_buf, s_typed, s_parse, s_running>>
vars == <<part, cvars, tvars, dvars, mvars, svars>>

M == INSTANCE Malloc WITH
        MaxBrk <- 11, MinCore <- 4, Units <- {2, 3, 5}, Steps <- {1},
        ptr <- m_ptr, size <- m_size, freep <- m_freep, brk <- m_brk,
        live <- m_live, own <- m_own, asked <- m_asked

(* All lines of four characters, and four more characters after the        *)
(* beginnings  x|(x  and  (x>y  and  x <y  (y does not exist).             *)
S == INSTANCE Sh WITH
        Chars <- ShChars, MaxTyped <- 4, MAXARGS <- 3, Missing <- {<<"y">>},
        Seeds <- {<<>>, <<"x", "|", "(", "x">>, <<"(", "x", ">", "y">>,
                  <<"x", " ", "<", "y">>},
        buf <- s_buf, typed <- s_typed, parse <- s_parse, running <- s_running

Init ==
    /\ part \in {"console", "ticks", "data", "malloc", "sh"}
    /\ C!Init /\ T!Init /\ D!Init /\ M!Init
    /\ S!Init
    /\ part # "sh" => s_buf = <<>>

Next ==
    /\ UNCHANGED part
    /\ \/ part = "console" /\ C!Next /\ UNCHANGED <<tvars, dvars, mvars, svars>>
       \/ part = "ticks" /\ T!Next /\ UNCHANGED <<cvars, dvars, mvars, svars>>
       \/ part = "data" /\ D!Next /\ UNCHANGED <<cvars, tvars, mvars, svars>>
       \/ part = "malloc" /\ M!Next /\ UNCHANGED <<cvars, tvars, dvars, svars>>
       \/ part = "sh" /\ S!Next /\ UNCHANGED <<cvars, tvars, dvars, mvars>>

Spec == Init /\ [][Next]_vars

-----------------------------------------------------------------------------
(* umalloc: every cell of the heap is in exactly one block, the free list  *)
(* is in address order without neighbours, and malloc returns 0 only when  *)
(* there is no memory.                                                     *)
Heap == part = "malloc" => M!EveryCellOnce /\ M!JoinedInOrder /\ M!FailsOnlyWhenFull

(* Shell: the parser accepts exactly the lines of the grammar, and the     *)
(* tree has every word of the line, in order.                              *)
ShellParses == part = "sh" => S!AcceptsGrammar /\ S!WordsKept

(* Shell: every program gets the input and output the tree asks for, and   *)
(* pipe ends are open only on their side of the pipe.                      *)
ShellPlumbs == part = "sh" => S!Plumbing /\ S!EndsWhereTheyBelong
=============================================================================
