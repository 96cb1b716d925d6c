------------------------------- MODULE RtSem -------------------------------
(***************************************************************************)
(* A counting semaphore of ipc.c: rt_sem_take, rt_sem_trytake,             *)
(* rt_sem_release from a thread and from an interrupt, RT_IPC_CMD_RESET    *)
(* and rt_sem_detach.                                                      *)
(***************************************************************************)
EXTENDS RtIpc

CONSTANTS
  MaxValue,      \* RT_SEM_VALUE_MAX
  InitValue,     \* the value given to rt_sem_init
  ResetValues,   \* values given to RT_IPC_CMD_RESET
  QuietDetach    \* TRUE: the semaphore is detached only when none of its
                 \* waiters is timed

ASSUME SemAssumption ==
  /\ MaxValue \in Nat /\ InitValue \in 0 .. MaxValue
  /\ ResetValues \subseteq 0 .. MaxValue
  /\ QuietDetach \in BOOLEAN

VARIABLES
  value,     \* sem->value
  waiters,   \* sem->parent.suspend_thread
  alive,     \* the object is still in the object container
  credit     \* tokens released (or put in by init and reset) and not yet
             \* returned by an rt_sem_take

semVars == <<value, waiters, alive, credit>>
vars == <<threadVars, semVars>>

Places == {"run", "sleep", "slept", "wait", "woken", "post", "drain", "drain_one"}

Init ==
  /\ ThreadInit
  /\ value = InitValue
  /\ waiters = <<>>
  /\ alive = TRUE
  /\ credit = InitValue

Draining == \E t \in Thread : pc[t] \in {"drain", "drain_one"}
(* Nobody begins a call on a semaphore that is being detached.             *)
Usable == alive /\ ~ Draining
----------------------------------------------------------------------------
(* rt_sem_take with a token to take; rt_sem_trytake is this or nothing.    *)
TakeNow(t) ==
  /\ Running(t) /\ Usable /\ value > 0
  /\ value' = value - 1
  /\ credit' = credit - 1
  /\ UNCHANGED <<threadVars, waiters, alive>>

(* rt_sem_take that has to wait, forever or for a time.                    *)
TakeWait(t, timed) ==
  /\ Running(t) /\ Usable /\ value = 0
  /\ Block(t, timed, "wait")
  /\ waiters' = Enqueued(waiters, t)
  /\ UNCHANGED <<prio, cur, value, alive, credit>>

TakeSchedule(t) == Reschedule(t, "wait", "woken") /\ UNCHANGED semVars

(* Back from rt_schedule(): thread->error says whether the token was given.*)
TakeReturn(t) ==
  /\ At(t, "woken")
  /\ Goto(t, "run")
  /\ credit' = IF error[t] = "RT_EOK" THEN credit - 1 ELSE credit
  /\ UNCHANGED <<stat, prio, cur, armed, error, value, waiters, alive>>

(* Mutants: a woken waiter's token is counted as well; the waiter's timer  *)
(* is stopped and the thread is not made READY.                            *)
GiveTwice ==
  /\ value < MaxValue /\ value' = value + 1 /\ credit' = credit + 1
  /\ IF waiters # <<>>
       THEN Wake(Head(waiters)) /\ waiters' = Tail(waiters)
       ELSE UNCHANGED <<stat, armed, waiters>>

GiveStopsTimerOnly ==
  /\ credit' = credit + 1
  /\ IF waiters # <<>>
       THEN /\ armed' = armed \ {Head(waiters)}
            /\ waiters' = Tail(waiters)
            /\ UNCHANGED <<stat, value>>
       ELSE /\ value < MaxValue
            /\ value' = value + 1
            /\ UNCHANGED <<stat, armed, waiters>>

(* rt_sem_release inside its critical section: the first waiter is woken   *)
(* and the token is its own, or the value goes up, or -RT_EFULL.           *)
Give ==
  IF waiters # <<>>
    THEN /\ Wake(Head(waiters))
         /\ waiters' = Tail(waiters)
         /\ credit' = credit + 1
         /\ UNCHANGED value
    ELSE /\ value < MaxValue
         /\ value' = value + 1
         /\ credit' = credit + 1
         /\ UNCHANGED <<stat, armed, waiters>>

(* Mutant: the release that wakes a thread does not call rt_schedule().    *)
ReleaseSilently(t) ==
  /\ Running(t) /\ Usable
  /\ Give
  /\ UNCHANGED <<prio, cur, error, pc, alive>>

Release(t) ==
  /\ Running(t) /\ Usable
  /\ Give
  /\ Goto(t, IF waiters # <<>> THEN "post" ELSE "run")
  /\ UNCHANGED <<prio, cur, error, alive>>

PostSchedule(t) == Reschedule(t, "post", "run") /\ UNCHANGED semVars

(* rt_sem_release in an interrupt handler: rt_schedule() is part of it.    *)
ReleaseFromIsr ==
  /\ Usable
  /\ Give
  /\ UNCHANGED <<prio, error, pc, alive>>
  /\ IF waiters # <<>> THEN Dispatch ELSE UNCHANGED cur

(* Mutant: a reset that leaves the waiters where they are.                 *)
ResetValueOnly(t, v) ==
  /\ Running(t) /\ Usable
  /\ value' = v
  /\ credit' = (credit - value) + v
  /\ Goto(t, "post")
  /\ UNCHANGED <<stat, armed, error, waiters, prio, cur, alive>>

(* RT_IPC_CMD_RESET: all waiters out with -RT_ERROR, a new value.          *)
Reset(t, v) ==
  /\ Running(t) /\ Usable
  /\ WakeAll(waiters)
  /\ waiters' = <<>>
  /\ value' = v
  /\ credit' = (credit - value) + v
  /\ Goto(t, "post")
  /\ UNCHANGED <<prio, cur, alive>>

(* rt_sem_detach: rt_ipc_list_resume_all tests the list with interrupts    *)
(* enabled and takes its first thread in a critical section of its own;    *)
(* when the list is empty the object is detached.  No rt_schedule().       *)
Detach(t) ==
  /\ Running(t) /\ Usable
  /\ QuietDetach => \A u \in armed : ~ Occurs(waiters, u)
  /\ Goto(t, "drain")
  /\ UNCHANGED <<stat, prio, cur, armed, error, semVars>>

DrainTest(t) ==
  /\ At(t, "drain")
  /\ IF waiters # <<>> THEN Goto(t, "drain_one") /\ UNCHANGED alive
                       ELSE Goto(t, "run") /\ alive' = FALSE
  /\ UNCHANGED <<stat, prio, cur, armed, error, value, waiters, credit>>

DrainOne(t) ==
  /\ At(t, "drain_one") /\ waiters # <<>>
  /\ Wake(Head(waiters))
  /\ error' = [error EXCEPT ![Head(waiters)] = "RT_ERROR"]
  /\ waiters' = Tail(waiters)
  /\ Goto(t, "drain")
  /\ UNCHANGED <<prio, cur, value, alive, credit>>

(* Mutant: the thread that timed out stays in the wait list.               *)
TimeoutStaysLinked(u) == TimeoutOf(u) /\ UNCHANGED semVars

Timeout(u) ==
  /\ TimeoutOf(u)
  /\ waiters' = ListRemove(waiters, u)
  /\ UNCHANGED <<value, alive, credit>>
----------------------------------------------------------------------------
InCall(t) ==
  \/ (SleepSchedule(t) \/ SleepReturn(t)) /\ UNCHANGED semVars
  \/ TakeSchedule(t) \/ TakeReturn(t) \/ PostSchedule(t)
  \/ DrainTest(t) \/ DrainOne(t)

Call(t) ==
  \/ Sleep(t) /\ UNCHANGED semVars
  \/ TakeNow(t) \/ Release(t) \/ Detach(t)
  \/ \E timed \in BOOLEAN : TakeWait(t, timed)
  \/ \E v \in ResetValues : Reset(t, v)

Next ==
  \/ \E t \in Thread : InCall(t) \/ Call(t) \/ Timeout(t)
  \/ ReleaseFromIsr
  \/ SliceEnd /\ UNCHANGED semVars

Spec == Init /\ [][Next]_vars

(* A current thread gets on with its call, and the tick fires timers that  *)
(* are due.                                                                *)
FairSpec ==
  Spec /\ \A t \in Thread : WF_vars(InCall(t)) /\ WF_vars(Timeout(t))
----------------------------------------------------------------------------
TypeOK ==
  /\ ThreadTypeOK(Places)
  /\ value \in 0 .. MaxValue
  /\ waiters \in Seq(Thread)
  /\ alive \in BOOLEAN
  /\ credit \in Nat

(* The wait list is exactly the set of threads blocked in rt_sem_take,     *)
(* each once, and in priority order under RT_IPC_FLAG_PRIO, whatever mix   *)
(* of releases, timeouts, resets and detach ran (ipc.c:83-191).            *)
WaitersAreBlocked ==
  /\ NoDuplicates(waiters)
  /\ SortedByPriority(waiters)
  /\ \A t \in Thread :
       Occurs(waiters, t) <=> stat[t] = "suspend" /\ pc[t] \in {"wait", "woken"}

(* No lost wakeup: nobody waits while a token is there to be taken.        *)
NoWaiterBesideToken == waiters # <<>> => value = 0

(* Tokens are conserved: each one put in is in the value, or on its way to *)
(* the one woken thread whose rt_sem_take will return RT_EOK with it.  A   *)
(* timeout, reset or detach that races the release neither loses a token   *)
(* nor hands it out twice.                                                 *)
OnTheirWay ==
  {t \in Thread : pc[t] \in {"wait", "woken"} /\ stat[t] = "ready" /\ error[t] = "RT_EOK"}

TokensConserved == credit = value + Cardinality(OnTheirWay)

(* rt_ipc_list_resume_all (ipc.c:175), "get next suspended thread": when   *)
(* it takes the first entry of the list, there is one.                     *)
DrainFindsThread == \A t \in Thread : pc[t] = "drain_one" => waiters # <<>>

(* Application code never runs on a thread below a READY one, because      *)
(* every call that wakes a thread reschedules, all but one: rt_sem_detach  *)
(* (ipc.c:245) leaves the threads it woke with -RT_ERROR READY, and only   *)
(* those, until anything reschedules.                                      *)
LeftByDetach(u) == ~ alive /\ pc[u] \in {"wait", "woken"} /\ error[u] = "RT_ERROR"

RunsHighest ==
  cur \in Thread /\ pc[cur] = "run"
    => \A u \in Thread : stat[u] = "ready" /\ prio[u] < prio[cur] => LeftByDetach(u)

(* The timed take of the most urgent thread always returns, whether the    *)
(* release, the timeout or the reset comes first.                          *)
UrgentTakeReturns ==
  \A t \in Thread :
    (\A u \in Thread \ {t} : BasePrio[t] < BasePrio[u])
      => (pc[t] = "wait" /\ t \in armed ~> pc[t] = "run")
=============================================================================
