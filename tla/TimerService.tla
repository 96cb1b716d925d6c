---------------------------- MODULE TimerService ----------------------------
(***************************************************************************)
(* What a timer is for its users, in real time: a countdown.  `left' goes  *)
(* down with each tick; a timer whose countdown has ended fires in that    *)
(* tick's check, and the check does not end before all of them have fired. *)
(* RtTimer implements this with a wrapping tick counter and a sorted list. *)
(***************************************************************************)
EXTENDS Integers

CONSTANTS
  Timer,
  Times   \* the countdowns one can start, in ticks

VARIABLES
  left,    \* timer -> ticks to go, -1 when it is not running
  phase    \* "app", or in the tick interrupt: "check", or "call" in a callback

Init == left = [t \in Timer |-> -1] /\ phase = "app"

Set(t, n) == left' = [left EXCEPT ![t] = n]

(* Threads, and a callback, start and stop timers.                         *)
Start(t) == phase # "check" /\ (\E n \in Times : Set(t, n)) /\ UNCHANGED phase
Stop(t) == phase # "check" /\ Set(t, -1) /\ UNCHANGED phase

Tick ==
  /\ phase = "app" /\ phase' = "check"
  /\ left' = [t \in Timer |-> IF left[t] > 0 THEN left[t] - 1 ELSE left[t]]

Fire(t) ==
  /\ phase = "check" /\ phase' = "call"
  /\ left[t] = 0
  /\ Set(t, -1)

(* The callback returns; a periodic timer starts again.                    *)
Return ==
  /\ phase = "call" /\ phase' = "check"
  /\ UNCHANGED left \/ \E t \in Timer, n \in Times : left[t] = -1 /\ Set(t, n)

Done ==
  /\ phase = "check" /\ phase' = "app"
  /\ \A t \in Timer : left[t] # 0
  /\ UNCHANGED left

Next == (\E t \in Timer : Start(t) \/ Stop(t) \/ Fire(t)) \/ Tick \/ Return \/ Done

Spec == Init /\ [][Next]_<<left, phase>>
=============================================================================
