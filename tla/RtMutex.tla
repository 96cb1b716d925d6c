------------------------------ MODULE RtMutex ------------------------------
(***************************************************************************)
(* The mutexes of ipc.c: rt_mutex_take, recursive and with priority        *)
(* inheritance, rt_mutex_release with direct hand-over to the first        *)
(* waiter, rt_mutex_detach, and what timeouts and the scheduler do between *)
(* their critical sections.                                                *)
(***************************************************************************)
EXTENDS RtIpc

CONSTANTS
  Mutex,         \* the mutexes of the application
  NoThread,      \* RT_NULL as mutex->owner
  NoPriority,    \* 0xff as mutex->original_priority
  MaxHold,       \* RT_MUTEX_HOLD_MAX
  Rank,          \* mutex -> its place in the application's lock order
  Ordered,       \* TRUE: mutexes are taken in increasing rank and released
                 \* in the reverse order
  Detachable,    \* the mutexes the application may detach
  Sleepers       \* the threads that also sleep between their calls

ASSUME MutexAssumption ==
  /\ Mutex # {} /\ NoThread \notin Thread
  /\ NoPriority \in Nat /\ \A t \in Thread : BasePrio[t] # NoPriority
  /\ MaxHold \in Nat \ {0}
  /\ Rank \in [Mutex -> Nat]
  /\ Ordered \in BOOLEAN
  /\ Detachable \subseteq Mutex
  /\ Sleepers \subseteq Thread

VARIABLES
  value,      \* mutex -> value
  owner,      \* mutex -> owner
  hold,       \* mutex -> hold
  original,   \* mutex -> original_priority
  waiters,    \* mutex -> parent.suspend_thread
  alive,      \* the mutexes still in the object container
  at,         \* thread -> the mutex its pending call is about
  depth       \* thread -> mutex -> takes that returned RT_EOK to the thread
              \* and that it has not released

mutexVars == <<value, owner, hold, original, waiters, alive, at, depth>>
vars == <<threadVars, mutexVars>>

Places == {"run", "sleep", "slept", "wait", "woken", "post", "drain", "drain_one"}

Init ==
  /\ ThreadInit
  /\ value = [m \in Mutex |-> 1]
  /\ owner = [m \in Mutex |-> NoThread]
  /\ hold = [m \in Mutex |-> 0]
  /\ original = [m \in Mutex |-> NoPriority]
  /\ waiters = [m \in Mutex |-> <<>>]
  /\ alive = Mutex
  /\ at \in [Thread -> {CHOOSE m \in Mutex : TRUE}]
  /\ depth = [t \in Thread |-> [m \in Mutex |-> 0]]

(* The mutexes t has taken, and the discipline of the application.         *)
Holds(t) == {m \in Mutex : depth[t][m] > 0}
MayTake(t, m) == Ordered => \A k \in Holds(t) : Rank[k] < Rank[m]
MayLetGo(t, m) == Ordered => \A k \in Holds(t) : Rank[k] <= Rank[m]

(* The application starts no call on a mutex that is being, or has been,   *)
(* detached; calls that were already waiting go on.                        *)
Draining(m) == \E t \in Thread : pc[t] \in {"drain", "drain_one"} /\ at[t] = m
Usable(m) == m \in alive /\ ~ Draining(m)
----------------------------------------------------------------------------
(* rt_mutex_take                                                           *)

ResetError(t, e) == error' = [error EXCEPT ![t] = e]

TakeAgain(t, m) ==
  /\ Running(t) /\ Usable(m) /\ owner[m] = t /\ hold[m] < MaxHold
  /\ ResetError(t, "RT_EOK")
  /\ hold' = [hold EXCEPT ![m] = @ + 1]
  /\ depth' = [depth EXCEPT ![t][m] = @ + 1]
  /\ UNCHANGED <<stat, prio, cur, armed, pc, value, owner, original, waiters, alive, at>>

(* ... -RT_EFULL when the nesting counter is full.                         *)
TakeFull(t, m) ==
  /\ Running(t) /\ Usable(m) /\ owner[m] = t /\ hold[m] >= MaxHold
  /\ ResetError(t, "RT_EOK")
  /\ UNCHANGED <<stat, prio, cur, armed, pc, mutexVars>>

(* The mutex is free.  The code tests hold again after it has set the      *)
(* owner; that test always passes when a free mutex has hold 0.            *)
TakeFree(t, m) ==
  /\ Running(t) /\ Usable(m) /\ owner[m] # t /\ value[m] > 0 /\ MayTake(t, m)
  /\ ResetError(t, "RT_EOK")
  /\ value' = [value EXCEPT ![m] = @ - 1]
  /\ owner' = [owner EXCEPT ![m] = t]
  /\ original' = [original EXCEPT ![m] = prio[t]]
  /\ IF hold[m] < MaxHold
       THEN /\ hold' = [hold EXCEPT ![m] = @ + 1]
            /\ depth' = [depth EXCEPT ![t][m] = @ + 1]
       ELSE UNCHANGED <<hold, depth>>
  /\ UNCHANGED <<stat, prio, cur, armed, pc, waiters, alive, at>>

TakeBusy(t, m) ==
  /\ Running(t) /\ Usable(m) /\ owner[m] # t /\ value[m] = 0
  /\ ResetError(t, "RT_ETIMEOUT")
  /\ UNCHANGED <<stat, prio, cur, armed, pc, mutexVars>>

(* Mutant: no priority inheritance.                                        *)
NotBoosted(t, m) == prio

(* RT_THREAD_CTRL_CHANGE_PRIORITY of the owner to that of the new waiter.  *)
Boosted(t, m) ==
  IF prio[t] < prio[owner[m]] THEN [prio EXCEPT ![owner[m]] = prio[t]] ELSE prio

TakeWait(t, m, timed) ==
  /\ Running(t) /\ Usable(m) /\ owner[m] # t /\ value[m] = 0 /\ MayTake(t, m)
  /\ prio' = Boosted(t, m)
  /\ waiters' = [waiters EXCEPT ![m] = Enqueued(@, t)]
  /\ Block(t, timed, "wait")
  /\ at' = [at EXCEPT ![t] = m]
  /\ UNCHANGED <<cur, value, owner, hold, original, alive, depth>>

TakeSchedule(t) == Reschedule(t, "wait", "woken") /\ UNCHANGED mutexVars

(* Mutant: rt_mutex_take returns RT_EOK without looking at thread->error.  *)
TakeReturnBlindly(t) ==
  /\ At(t, "woken")
  /\ Goto(t, "run")
  /\ depth' = [depth EXCEPT ![t][at[t]] = @ + 1]
  /\ UNCHANGED <<stat, prio, cur, armed, error, value, owner, hold, original,
                 waiters, alive, at>>

TakeReturn(t) ==
  /\ At(t, "woken")
  /\ Goto(t, "run")
  /\ depth' = IF error[t] = "RT_EOK" THEN [depth EXCEPT ![t][at[t]] = @ + 1] ELSE depth
  /\ UNCHANGED <<stat, prio, cur, armed, error, value, owner, hold, original,
                 waiters, alive, at>>
----------------------------------------------------------------------------
(* rt_mutex_release                                                        *)

ReleaseNotOwner(t, m) ==
  /\ Running(t) /\ Usable(m) /\ owner[m] # t
  /\ ResetError(t, "RT_ERROR")
  /\ UNCHANGED <<stat, prio, cur, armed, pc, mutexVars>>

ReleaseNested(t, m) ==
  /\ Running(t) /\ Usable(m) /\ owner[m] = t /\ hold[m] > 1
  /\ hold' = [hold EXCEPT ![m] = @ - 1]
  /\ depth' = [depth EXCEPT ![t][m] = @ - 1]
  /\ UNCHANGED <<threadVars, value, owner, original, waiters, alive, at>>

(* Mutant: the releasing thread keeps the priority it was raised to.       *)
NotRestored(t, m) == prio

(* The last release: the priority goes back to what it was when the mutex  *)
(* was taken, then the mutex goes to the first waiter or becomes free.     *)
Restored(t, m) == [prio EXCEPT ![t] = original[m]]

ReleaseTo(t, m) ==
  LET u == Head(waiters[m]) IN
  /\ Running(t) /\ Usable(m) /\ owner[m] = t /\ hold[m] = 1 /\ MayLetGo(t, m)
  /\ waiters[m] # <<>>
  /\ prio' = Restored(t, m)
  /\ owner' = [owner EXCEPT ![m] = u]
  /\ original' = [original EXCEPT ![m] = prio'[u]]
  /\ Wake(u)
  /\ waiters' = [waiters EXCEPT ![m] = Tail(@)]
  /\ depth' = [depth EXCEPT ![t][m] = @ - 1]
  /\ Goto(t, "post")
  /\ UNCHANGED <<cur, error, value, hold, alive, at>>

ReleaseFree(t, m) ==
  /\ Running(t) /\ Usable(m) /\ owner[m] = t /\ hold[m] = 1 /\ MayLetGo(t, m)
  /\ waiters[m] = <<>>
  /\ prio' = Restored(t, m)
  /\ hold' = [hold EXCEPT ![m] = 0]
  /\ value' = [value EXCEPT ![m] = @ + 1]
  /\ owner' = [owner EXCEPT ![m] = NoThread]
  /\ original' = [original EXCEPT ![m] = NoPriority]
  /\ depth' = [depth EXCEPT ![t][m] = @ - 1]
  /\ UNCHANGED <<stat, cur, armed, error, pc, waiters, alive, at>>

PostSchedule(t) == Reschedule(t, "post", "run") /\ UNCHANGED mutexVars
----------------------------------------------------------------------------
(* rt_mutex_detach: rt_ipc_list_resume_all, thread by thread, then the     *)
(* object leaves its container.  RtSem shows the race of this loop with a  *)
(* waiter's timeout; here a mutex is detached by its owner and with no     *)
(* timed waiter, so that nothing else can change the wait list meanwhile.  *)
Detach(t, m) ==
  /\ Running(t) /\ Usable(m) /\ m \in Detachable /\ owner[m] = t
  /\ \A u \in armed : ~ Occurs(waiters[m], u)
  /\ Goto(t, "drain")
  /\ at' = [at EXCEPT ![t] = m]
  /\ UNCHANGED <<stat, prio, cur, armed, error, value, owner, hold, original,
                 waiters, alive, depth>>

DrainTest(t) ==
  /\ At(t, "drain")
  /\ IF waiters[at[t]] # <<>>
       THEN Goto(t, "drain_one") /\ UNCHANGED alive
       ELSE Goto(t, "run") /\ alive' = alive \ {at[t]}
  /\ UNCHANGED <<stat, prio, cur, armed, error, value, owner, hold, original,
                 waiters, at, depth>>

DrainOne(t) ==
  LET u == Head(waiters[at[t]]) IN
  /\ At(t, "drain_one") /\ waiters[at[t]] # <<>>
  /\ Wake(u)
  /\ ResetError(u, "RT_ERROR")
  /\ waiters' = [waiters EXCEPT ![at[t]] = Tail(@)]
  /\ Goto(t, "drain")
  /\ UNCHANGED <<prio, cur, value, owner, hold, original, alive, at, depth>>

(* Mutant: the thread that timed out stays in the wait list.               *)
TimeoutStaysLinked(u) == TimeoutOf(u) /\ UNCHANGED mutexVars

Timeout(u) ==
  /\ TimeoutOf(u)
  /\ waiters' = [m \in Mutex |-> ListRemove(waiters[m], u)]
  /\ UNCHANGED <<value, owner, hold, original, alive, at, depth>>
----------------------------------------------------------------------------
InCall(t) ==
  \/ (SleepSchedule(t) \/ SleepReturn(t)) /\ UNCHANGED mutexVars
  \/ TakeSchedule(t) \/ TakeReturn(t) \/ PostSchedule(t)
  \/ DrainTest(t) \/ DrainOne(t)

Take(t, m) ==
  \/ TakeAgain(t, m) \/ TakeFull(t, m) \/ TakeFree(t, m) \/ TakeBusy(t, m)
  \/ \E timed \in BOOLEAN : TakeWait(t, m, timed)

LetGo(t, m) == ReleaseTo(t, m) \/ ReleaseFree(t, m)

Release(t, m) == ReleaseNotOwner(t, m) \/ ReleaseNested(t, m) \/ LetGo(t, m)

Next ==
  \/ \E t \in Thread :
       \/ InCall(t) \/ Timeout(t)
       \/ t \in Sleepers /\ Sleep(t) /\ UNCHANGED mutexVars
       \/ \E m \in Mutex : Take(t, m) \/ Release(t, m) \/ Detach(t, m)
  \/ SliceEnd /\ UNCHANGED mutexVars

Spec == Init /\ [][Next]_vars

(* A thread that keeps getting the CPU gets on with its call and does not  *)
(* keep a mutex for ever, and due timers fire.                             *)
FairSpec ==
  /\ Spec
  /\ \A t \in Thread : SF_vars(InCall(t)) /\ WF_vars(Timeout(t))
  /\ \A t \in Thread, m \in Mutex :
       SF_vars(LetGo(t, m)) /\ SF_vars(ReleaseNested(t, m))
----------------------------------------------------------------------------
TypeOK ==
  /\ ThreadTypeOK(Places)
  /\ value \in [Mutex -> 0 .. 1]
  /\ owner \in [Mutex -> Thread \union {NoThread}]
  /\ hold \in [Mutex -> 0 .. MaxHold]
  /\ original \in [Mutex -> Nat]
  /\ waiters \in [Mutex -> Seq(Thread)]
  /\ alive \subseteq Mutex
  /\ at \in [Thread -> Mutex]
  /\ depth \in [Thread -> [Mutex -> 0 .. MaxHold]]

(* The four words of a mutex tell one story: it is free (value 1, no       *)
(* owner, hold 0, nobody waits) or owned (value 0, hold at least 1), so    *)
(* the half-done -RT_EFULL exits of take and release are never taken.      *)
FreeOrOwned ==
  \A m \in Mutex :
    \/ value[m] = 1 /\ owner[m] = NoThread /\ hold[m] = 0 /\ waiters[m] = <<>>
    \/ value[m] = 0 /\ owner[m] \in Thread /\ hold[m] > 0

(* Mutual exclusion as the callers see it: a thread that was told RT_EOK   *)
(* is the owner, and the nesting counter is what it was told, also when a  *)
(* hand-over races the waiter's timeout or the waiter has not run yet.     *)
Granted(t, m) ==
  /\ pc[t] \in {"wait", "woken"} /\ at[t] = m
  /\ stat[t] = "ready" /\ error[t] = "RT_EOK"

MutualExclusion ==
  \A t \in Thread, m \in Mutex :
    /\ depth[t][m] > 0 => owner[m] = t /\ hold[m] = depth[t][m]
    /\ Granted(t, m) => owner[m] = t /\ hold[m] = 1 /\ depth[t][m] = 0
    /\ owner[m] = t => depth[t][m] > 0 \/ Granted(t, m)

(* A thread is in the wait list of the mutex it asked for, once, exactly   *)
(* while it is suspended there.                                            *)
WaitersAreBlocked ==
  \A m \in Mutex :
    /\ NoDuplicates(waiters[m])
    /\ \A t \in Thread :
         Occurs(waiters[m], t)
           <=> stat[t] = "suspend" /\ pc[t] \in {"wait", "woken"} /\ at[t] = m

(* Priority inheritance: no thread waits for a mutex whose owner has a     *)
(* lower priority than its own, and the most urgent waiter is first        *)
(* (ipc.c:740 "change the owner thread priority of mutex").                *)
OwnerInherits ==
  \A m \in Mutex :
    /\ SortedByPriority(waiters[m])
    /\ owner[m] # NoThread =>
         \A i \in 1 .. Len(waiters[m]) : prio[owner[m]] <= prio[waiters[m][i]]

(* A boost ends with the mutex: a thread that owns no live mutex runs at   *)
(* the priority it was started with (ipc.c:848 "change the owner thread to *)
(* original priority").                                                    *)
BoostEnds ==
  \A t \in Thread : (\A m \in alive : owner[m] # t) => prio[t] = BasePrio[t]

(* The promise of priority inheritance: the most urgent thread gets the    *)
(* mutex it waits for without limit, or -RT_ERROR if it is detached, even  *)
(* if threads of middle priority never stop computing, provided owners let *)
(* go of their mutexes.                                                    *)
UrgentGetsMutex ==
  \A t \in Thread, m \in Mutex :
    (\A u \in Thread \ {t} : BasePrio[t] < BasePrio[u])
      => (Occurs(waiters[m], t) /\ t \notin armed
            ~> owner[m] = t \/ error[t] = "RT_ERROR")
=============================================================================
