------------------------------- MODULE MCSem -------------------------------
(* Instance of RtSem: three threads, two of them of one priority.          *)
EXTENDS RtSem, TLC

CONSTANTS hi, lo1, lo2

MCThread == {hi, lo1, lo2}
MCBasePrio == (hi :> 1) @@ (lo1 :> 2) @@ (lo2 :> 2)
MCResetValues == {0, 1}
=============================================================================
