------------------------------ MODULE Devices -------------------------------
(***************************************************************************)
(* The two interrupts that wake processes by themselves, side by side: the *)
(* keyboard with the readers of the console, and the timer with the        *)
(* processes in sys_sleep.  They share no state, but both count in         *)
(* unsigned numbers that wrap around at UINT (2^32).                       *)
(***************************************************************************)
EXTENDS Naturals

CONSTANTS
    UINT,
    Reader, INPUT_BUF, Keys, Counts,    \* see Console
    Sleeper, Times, MaxLate             \* see Ticks

(* The ring is smaller than the range of its indices, which it divides.    *)
(* A process that is woken runs before ticks is back where it was.         *)
ASSUME DevicesAssumption ==
    /\ UINT \in Nat /\ INPUT_BUF \in Nat \ {0}
    /\ UINT > INPUT_BUF /\ UINT % INPUT_BUF = 0
    /\ Counts \subseteq Nat /\ Keys \cap {"n", "D"} = {}
    /\ MaxLate \in Nat /\ Times \subseteq Nat /\ \A t \in Times : t + MaxLate < UINT

VARIABLES
    c_buf, c_r, c_w, c_e, c_pc, c_n, c_dst, c_killed, c_line, c_queue,
    t_ticks, t_pc, t_ticks0, t_n, t_killed, t_passed, t_late

C == INSTANCE Console WITH
        WRAP <- UINT,
        buf <- c_buf, r <- c_r, w <- c_w, e <- c_e, pc <- c_pc, n <- c_n,
        dst <- c_dst, killed <- c_killed, line <- c_line, queue <- c_queue

T == INSTANCE Ticks WITH
        WRAP <- UINT,
        ticks <- t_ticks, pc <- t_pc, ticks0 <- t_ticks0, n <- t_n,
        killed <- t_killed, passed <- t_passed, late <- t_late

-----------------------------------------------------------------------------
(* Console: the ring holds the unread input and the line being edited, in  *)
(* order; keys are refused only while there is input to read; and no       *)
(* reader sleeps while there is finished input.                            *)
ConsoleInput == C!RingIsQueue /\ C!FullRingReadable /\ C!NoForgottenInput

(* Console: every control-D ends exactly one read with no data.            *)
EofSeenOnce == [][C!EofStep]_C!vars

(* sys_sleep: a process that has slept has slept n ticks, and no process   *)
(* is asleep when its time has come, also where ticks wraps around.        *)
TimedSleep == T!SleptLongEnough /\ T!NobodyOversleeps
=============================================================================
