-------------------------------- MODULE Fifo --------------------------------
(***************************************************************************)
(* What a pipe promises about its bytes: they come out in the order in     *)
(* which they went in, none is lost, repeated or made up, and at most      *)
(* PIPESIZE of them are inside.                                            *)
(***************************************************************************)
EXTENDS Naturals, Sequences

CONSTANTS Byte, PIPESIZE

VARIABLES
  queue,    \* the bytes inside
  addr      \* the byte that came out last

Init == queue = <<>> /\ addr \in Byte

Put == \E b \in Byte : Len(queue) < PIPESIZE /\ queue' = Append(queue, b) /\ UNCHANGED addr

Get == queue # <<>> /\ addr' = Head(queue) /\ queue' = Tail(queue)

Spec == Init /\ [][Put \/ Get]_<<queue, addr>>
=============================================================================
