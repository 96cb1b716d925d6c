---------------------------- MODULE ThreadContexts ---------------------------
(***************************************************************************)
(* What the CPU port promises: every thread has registers of its own.      *)
(* Only the running thread changes them, whatever interrupts and switches  *)
(* happen in between; a thread that is set up anew starts blank.           *)
(***************************************************************************)
CONSTANTS Owner, Nobody, Context, Blank

VARIABLES
  running,   \* the thread that executes, or Nobody before the first switch
  context    \* thread -> its registers

Init == running = Nobody /\ context = [t \in Owner |-> Blank]

Compute(c) ==
  /\ running \in Owner
  /\ context' = [context EXCEPT ![running] = c]
  /\ UNCHANGED running

SwitchTo(t) == running' = t /\ UNCHANGED context

SetUp(t) ==
  /\ t # running
  /\ context' = [context EXCEPT ![t] = Blank]
  /\ UNCHANGED running

Next ==
  \/ \E t \in Owner : SetUp(t) \/ SwitchTo(t)
  \/ \E c \in Context : Compute(c)

Spec == Init /\ [][Next]_<<running, context>>
=============================================================================
