------------------------------ MODULE Console -------------------------------
(***************************************************************************)
(* Console input (console.c): the keyboard interrupt edits a line in the   *)
(* ring input.buf and processes read whole lines out of it.  input.r,      *)
(* input.w and input.e only ever count up (apart from editing) and wrap    *)
(* around at WRAP, which stands for 2^32.                                  *)
(*                                                                         *)
(* A step is what runs under one hold of cons.lock.  The only other place  *)
(* a reader can be interrupted is between its test of killed and its going *)
(* to sleep, where kill, which takes ptable.lock only, may come in: there  *)
(* the reader holds cons.lock (pc = "sleep").                              *)
(***************************************************************************)
EXTENDS Naturals, Sequences, FiniteSetsExt

CONSTANTS
    Reader,     \* the processes
    INPUT_BUF,  \* the size of the ring
    WRAP,       \* where the indices wrap around, a multiple of INPUT_BUF
    Keys,       \* the characters typed, the control characters apart
    Counts      \* the numbers of bytes a read may ask for

VARIABLES
    buf, r, w, e,   \* the ring and its indices
    pc,             \* where each process is in consoleread
    n,              \* the bytes it still wants
    dst,            \* the bytes it has been given
    killed,
    line,           \* ghost: the line being edited
    queue           \* ghost: the finished input not yet read

vars == <<buf, r, w, e, pc, n, dst, killed, line, queue>>

Newline == "n"
EOF == "D"

Plus(a, b) == (a + b) % WRAP
Minus(a, b) == (a + WRAP - b) % WRAP
Cell(i) == i % INPUT_BUF

(* Nobody holds cons.lock.                                                 *)
Free == \A p \in Reader : pc[p] # "sleep"

(* Mutant: a finished line wakes nobody.                                   *)
Awake_none == pc

(* wakeup(&input.r)                                                        *)
Awake == [p \in Reader |-> IF pc[p] = "asleep" THEN "runnable" ELSE pc[p]]

Room == Minus(e, r) < INPUT_BUF

EndsLine(c) == c \in {Newline, EOF} \/ Plus(e, 1) = Plus(r, INPUT_BUF)

Key(c) ==
    /\ Free
    /\ IF ~Room THEN UNCHANGED vars
       ELSE /\ buf' = [buf EXCEPT ![Cell(e)] = c]
            /\ e' = Plus(e, 1)
            /\ IF EndsLine(c)
               THEN /\ w' = e'
                    /\ pc' = Awake
                    /\ queue' = queue \o line \o <<c>>
                    /\ line' = <<>>
               ELSE /\ line' = Append(line, c)
                    /\ UNCHANGED <<w, pc, queue>>
            /\ UNCHANGED <<r, n, dst, killed>>

Backspace ==
    /\ Free
    /\ e # w
    /\ e' = Minus(e, 1)
    /\ line' = SubSeq(line, 1, Len(line) - 1)
    /\ UNCHANGED <<buf, r, w, pc, n, dst, killed, queue>>

(* Where the loop of control-U stops: at w or behind a newline.            *)
LineStart ==
    LET back == {k \in 0..Minus(e, w) :
                    \A j \in 1..k : buf[Cell(Minus(e, j))] # Newline}
    IN  Minus(e, Max(back))

KillLine ==
    /\ Free
    /\ e' = LineStart
    /\ line' = <<>>
    /\ UNCHANGED <<buf, r, w, pc, n, dst, killed, queue>>

consoleintr == Backspace \/ KillLine \/ \E c \in Keys \union {Newline, EOF} : Key(c)

-----------------------------------------------------------------------------
Unread == [i \in 1..Minus(w, r) |-> buf[Cell(Plus(r, i - 1))]]

(* How many characters one pass of the loop of consoleread takes: up to    *)
(* the first newline or control-D, but no more than are wanted or there.   *)
Stop(p) ==
    LET ends == {i \in 1..Len(Unread) : Unread[i] \in {Newline, EOF}}
    IN  Min({n[p], Len(Unread)} \union ends)

(* Mutant: a control-D behind data is used up by the read of the data.     *)
Saved_never(p, k) == FALSE

(* The read has data and has come to a control-D, which it puts back.      *)
Saved(p, k) == Unread[k] = EOF /\ (k > 1 \/ dst[p] # <<>>)

(* The loop of consoleread, from taking the lock to sleeping or returning. *)
Loop(p) ==
    LET k     == Stop(p)
        last  == IF k = 0 THEN "" ELSE Unread[k]
        eof   == last = EOF
        data  == SubSeq(Unread, 1, IF eof THEN k - 1 ELSE k)
        used  == IF eof /\ Saved(p, k) THEN k - 1 ELSE k
        done  == eof \/ last = Newline \/ k = n[p]
    IN  /\ dst' = [dst EXCEPT ![p] = @ \o data]
        /\ r' = Plus(r, used)
        /\ queue' = SubSeq(queue, used + 1, Len(queue))
        /\ n' = [n EXCEPT ![p] = @ - Len(data)]
        /\ pc' = [pc EXCEPT ![p] = IF done \/ killed[p] THEN "idle" ELSE "sleep"]
        /\ UNCHANGED <<buf, w, e, killed, line>>

enter(p) == \E c \in Counts :
    /\ pc[p] = "idle" /\ ~killed[p]
    /\ pc' = [pc EXCEPT ![p] = "runnable"]
    /\ n' = [n EXCEPT ![p] = c]
    /\ dst' = [dst EXCEPT ![p] = <<>>]
    /\ UNCHANGED <<buf, r, w, e, killed, line, queue>>

consoleread(p) == pc[p] = "runnable" /\ Free /\ Loop(p)

sleep(p) ==
    /\ pc[p] = "sleep"
    /\ pc' = [pc EXCEPT ![p] = "asleep"]
    /\ UNCHANGED <<buf, r, w, e, n, dst, killed, line, queue>>

kill(p) ==
    /\ ~killed[p] /\ pc[p] # "idle"
    /\ killed' = [killed EXCEPT ![p] = TRUE]
    /\ pc' = [pc EXCEPT ![p] = IF @ = "asleep" THEN "runnable" ELSE @]
    /\ UNCHANGED <<buf, r, w, e, n, dst, line, queue>>

(* A killed process exits on its way out of the system call; another one   *)
(* takes its place.                                                        *)
exit(p) ==
    /\ killed[p] /\ pc[p] = "idle"
    /\ killed' = [killed EXCEPT ![p] = FALSE]
    /\ UNCHANGED <<buf, r, w, e, pc, n, dst, line, queue>>

Init ==
    /\ buf = [i \in 0..INPUT_BUF - 1 |-> ""]
    /\ r = 0 /\ w = 0 /\ e = 0
    /\ pc = [p \in Reader |-> "idle"]
    /\ n = [p \in Reader |-> 0]
    /\ dst = [p \in Reader |-> <<>>]
    /\ killed = [p \in Reader |-> FALSE]
    /\ line = <<>> /\ queue = <<>>

Next == \/ consoleintr
        \/ \E p \in Reader :
              enter(p) \/ consoleread(p) \/ sleep(p) \/ kill(p) \/ exit(p)

Spec == Init /\ [][Next]_vars

-----------------------------------------------------------------------------
(* The ring holds the finished input between r and w and the line being    *)
(* edited between w and e, in order, also when the indices have wrapped    *)
(* around: no key overwrites what has not been read, and editing stays     *)
(* inside the current line.                                                *)
RingIsQueue ==
    /\ Unread = queue
    /\ [i \in 1..Minus(e, w) |-> buf[Cell(Plus(w, i - 1))]] = line

(* Keys are refused only while there is finished input to read: a line     *)
(* longer than the ring cannot lock the keyboard.                          *)
FullRingReadable == ~Room => queue # <<>>

(* No reader sleeps, or is about to, while there is finished input, with   *)
(* several readers that take it from each other.                           *)
NoForgottenInput == \A p \in Reader : pc[p] \in {"sleep", "asleep"} => r = w

(* A read that comes to a control-D returns the data before it and leaves  *)
(* the control-D to the next read, which returns no data and uses it up:   *)
(* end of file is seen exactly once.  Otherwise a read ends at a newline   *)
(* or when it has all it wants.                                            *)
EofStep ==
    \A p \in Reader :
        pc[p] = "runnable" /\ pc'[p] = "idle" /\ ~killed[p] =>
            \/ n'[p] = 0
            \/ dst'[p] # <<>> /\ dst'[p][Len(dst'[p])] = Newline
            \/ dst'[p] # <<>> /\ queue' # <<>> /\ Head(queue') = EOF
            \/ dst'[p] = <<>> /\ queue = <<EOF>> \o queue'
=============================================================================
