------------------------------ MODULE MCMutex ------------------------------
(* Instances of RtMutex: three threads of three priorities, with one mutex *)
(* or with two in a lock order.                                            *)
EXTENDS RtMutex, TLC

CONSTANTS hi, mid, lo, m1, m2

MCThread == {hi, mid, lo}
MCBasePrio == (hi :> 1) @@ (mid :> 2) @@ (lo :> 3)
One == {m1}
Two == {m1, m2}
RankOfOne == (m1 :> 1)
RankOfTwo == (m1 :> 1) @@ (m2 :> 2)

(* error and at are read only between a wait and its return.               *)
View ==
  <<stat, prio, cur, armed, pc, value, owner, hold, original, waiters, alive, depth,
    [t \in Thread |-> IF pc[t] \in {"wait", "woken"} THEN <<error[t], at[t]>> ELSE <<>>]>>
=============================================================================
