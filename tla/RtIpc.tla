------------------------------- MODULE RtIpc -------------------------------
(***************************************************************************)
(* What the semaphore, the mutex and the mailbox of ipc.c share: the state *)
(* of the threads as those calls see it, the wait list of an IPC object,   *)
(* rt_schedule(), the timer of a thread and the end of its time slice.     *)
(*                                                                         *)
(* The ready lists are not repeated here: RtSched shows that a thread is   *)
(* linked in them exactly while it is READY and that rt_schedule() gives   *)
(* the CPU to a READY thread below no other, so `stat' and `prio' stand    *)
(* for them and a dispatch takes any READY thread of the top priority.     *)
(* The timer of a thread is in the timer list or not (`armed'); when it is *)
(* due is RtTimer's matter, so it may fire at any tick.                    *)
(***************************************************************************)
EXTENDS RtList, FiniteSets

CONSTANTS
  Thread,      \* the threads that use the object
  Idle,        \* tidle: it runs when none of them is READY
  BasePrio,    \* thread -> the priority it was started with; 0 is the highest
  ByPriority   \* the object's flag: RT_IPC_FLAG_PRIO, else RT_IPC_FLAG_FIFO

ASSUME IpcAssumption ==
  /\ IsFiniteSet(Thread) /\ Idle \notin Thread
  /\ BasePrio \in [Thread -> Nat]
  /\ ByPriority \in BOOLEAN

VARIABLES
  stat,     \* thread -> "ready" or "suspend" (READY covers the running one)
  prio,     \* thread -> current_priority
  cur,      \* rt_current_thread
  armed,    \* threads whose thread_timer is in the timer list
  error,    \* thread -> thread->error
  pc        \* thread -> how far its call has got; "run" is application code

threadVars == <<stat, prio, cur, armed, error, pc>>

Errors == {"RT_EOK", "RT_ERROR", "RT_ETIMEOUT"}

ThreadTypeOK(places) ==
  /\ stat \in [Thread -> {"ready", "suspend"}]
  /\ prio \in [Thread -> Nat]
  /\ cur \in Thread \union {Idle}
  /\ armed \subseteq Thread
  /\ error \in [Thread -> Errors]
  /\ pc \in [Thread -> places]

ThreadInit ==
  /\ stat = [t \in Thread |-> "ready"]
  /\ prio = BasePrio
  /\ cur \in {t \in Thread : \A u \in Thread : BasePrio[t] <= BasePrio[u]}
  /\ armed = {}
  /\ error = [t \in Thread |-> "RT_EOK"]
  /\ pc = [t \in Thread |-> "run"]

Running(t) == cur = t /\ pc[t] = "run"
At(t, place) == cur = t /\ pc[t] = place
Goto(t, place) == pc' = [pc EXCEPT ![t] = place]

(* The threads rt_schedule() may leave in rt_current_thread.               *)
ReadyIn(st) == {t \in Thread : st[t] = "ready"}
Highest(st, pr) ==
  IF ReadyIn(st) = {} THEN {Idle}
  ELSE {t \in ReadyIn(st) : \A u \in ReadyIn(st) : pr[t] <= pr[u]}

Dispatch == cur' \in Highest(stat', prio')
----------------------------------------------------------------------------
(* Wait lists                                                              *)

(* The place before the first waiter of lower priority, or the end.        *)
PlaceByPriority(q, t, pr) ==
  LET lower == {i \in 1 .. Len(q) : pr[t] < pr[q[i]]} IN
  IF lower = {} THEN Len(q) + 1 ELSE CHOOSE i \in lower : \A j \in lower : i <= j

(* rt_ipc_list_suspend, on the list q.                                     *)
Enqueued(q, t) ==
  IF ByPriority THEN ListInsertBefore(q, PlaceByPriority(q, t, prio), t)
  ELSE ListAddTail(q, t)

(* The thread blocks: rt_thread_suspend, the error number reset, its timer *)
(* started when it has waiting time.                                       *)
Block(t, timed, place) ==
  /\ error' = [error EXCEPT ![t] = "RT_EOK"]
  /\ stat' = [stat EXCEPT ![t] = "suspend"]
  /\ armed' = IF timed THEN armed \union {t} ELSE armed \ {t}
  /\ Goto(t, place)

(* rt_ipc_list_resume: rt_thread_resume(u) takes u off the wait list,      *)
(* stops its timer and makes it READY.                                     *)
Wake(u) ==
  /\ stat' = [stat EXCEPT ![u] = "ready"]
  /\ armed' = armed \ {u}

(* rt_ipc_list_resume_all: all of a list, each with error -RT_ERROR.       *)
WakeAll(q) ==
  /\ stat' = [t \in Thread |-> IF Occurs(q, t) THEN "ready" ELSE stat[t]]
  /\ armed' = {t \in armed : ~ Occurs(q, t)}
  /\ error' = [t \in Thread |-> IF Occurs(q, t) THEN "RT_ERROR" ELSE error[t]]
----------------------------------------------------------------------------
(* Steps that touch no object                                              *)

(* rt_schedule() at the end of a call, interrupts enabled before it: the   *)
(* thread may have been woken already.                                     *)
Reschedule(t, from, to) ==
  /\ At(t, from)
  /\ Goto(t, to)
  /\ UNCHANGED <<stat, prio, armed, error>>
  /\ Dispatch

(* The tick ends a time slice: rt_thread_yield among equals.               *)
SliceEnd ==
  /\ UNCHANGED <<stat, prio, armed, error, pc>>
  /\ Dispatch

(* rt_thread_sleep, and its last statement, which clears a timeout.        *)
Sleep(t) ==
  /\ Running(t)
  /\ stat' = [stat EXCEPT ![t] = "suspend"]
  /\ armed' = armed \union {t}
  /\ Goto(t, "sleep")
  /\ UNCHANGED <<prio, cur, error>>

SleepSchedule(t) == Reschedule(t, "sleep", "slept")

SleepReturn(t) ==
  /\ At(t, "slept")
  /\ Goto(t, "run")
  /\ error' = [error EXCEPT ![t] = IF @ = "RT_ETIMEOUT" THEN "RT_EOK" ELSE @]
  /\ UNCHANGED <<stat, prio, cur, armed>>

(* rt_thread_timeout, from the tick interrupt: the thread is made READY    *)
(* with -RT_ETIMEOUT and rt_schedule() runs.  The module of the object     *)
(* says which wait list it leaves.                                         *)
TimeoutOf(u) ==
  /\ u \in armed
  /\ error' = [error EXCEPT ![u] = "RT_ETIMEOUT"]
  /\ stat' = [stat EXCEPT ![u] = "ready"]
  /\ armed' = armed \ {u}
  /\ UNCHANGED <<prio, pc>>
  /\ Dispatch
----------------------------------------------------------------------------
(* Wait lists and thread states agree: the list holds a thread once and    *)
(* only while it is suspended there.                                       *)
SortedByPriority(q) ==
  ByPriority => \A i, j \in 1 .. Len(q) : i < j => prio[q[i]] <= prio[q[j]]
=============================================================================
