------------------------------ MODULE MCSched ------------------------------
(* Instance of RtSched: tidle, a managing thread, and two workers of one   *)
(* priority.                                                               *)
EXTENDS RtSched, TLC

CONSTANTS boss, w1, w2

MCThread == {Idle, boss, w1, w2}
MCInitPrio == (Idle :> 2) @@ (boss :> 0) @@ (w1 :> 1) @@ (w2 :> 1)
MCInitTick == (Idle :> 1) @@ (boss :> 1) @@ (w1 :> 2) @@ (w2 :> 1)
MCManagers == {boss}
MCNewPrio == {0, 1}
=============================================================================
