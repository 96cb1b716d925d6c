------------------------------ MODULE MCTimer -------------------------------
(* Instance of RtTimer: ticks of a few bits, so that they wrap.            *)
EXTENDS RtTimer, TLC

CONSTANTS t1, t2, t3

(* The timeout_tick of a timer that is not linked, and the settings of one *)
(* that is not initialised, are written before they are read.  Of two      *)
(* timers, the order of starting matters while they are due together.      *)
StartedFirst ==
  {p \in (1 .. Len(list)) \X (1 .. Len(list)) :
     /\ timeout[list[p[1]]] = timeout[list[p[2]]]
     /\ Position(order, list[p[1]]) < Position(order, list[p[2]])}

View ==
  <<tick, list, periodic \intersect known, active, known, stopping, check, StartedFirst,
    [t \in Timer |-> IF Occurs(list, t) THEN timeout[t] ELSE 0],
    [t \in Timer |-> IF t \in known THEN initTick[t] ELSE 0]>>

MCTimes == (t1 :> {1}) @@ (t2 :> {1}) @@ (t3 :> {0, 2})
=============================================================================
