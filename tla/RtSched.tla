------------------------------ MODULE RtSched ------------------------------
(***************************************************************************)
(* The thread layer of RT-Thread Nano as this firmware builds it:          *)
(* scheduler.c (ready lists, priority bitmap, rt_schedule, scheduler       *)
(* lock), thread.c (startup, sleep, suspend, resume, yield, change of      *)
(* priority, exit, detach) and the tick interrupt of clock.c (time slice   *)
(* and thread timers).                                                     *)
(*                                                                         *)
(* There is one core.  A region between rt_hw_interrupt_disable() and      *)
(* rt_hw_interrupt_enable() is one action; wherever the code has           *)
(* interrupts enabled the tick may come, so a call that opens such a       *)
(* window is split there and `pc' says how far its thread has got.  A      *)
(* thread takes a step only while it is `cur'.                             *)
(***************************************************************************)
EXTENDS RtList, FiniteSets

CONSTANTS
  Thread,      \* the statically allocated threads, Idle among them
  Idle,        \* tidle, the thread rt_thread_idle_init starts
  NoThread,    \* RT_NULL as rt_current_thread
  MaxPrio,     \* RT_THREAD_PRIORITY_MAX; 0 is the highest priority
  InitPrio,    \* thread -> init_priority
  InitTick,    \* thread -> init_tick, its time slice
  MaxNest,     \* bound on rt_scheduler_lock_nest
  Managers,    \* threads that suspend, resume, detach or re-prioritise others
  NewPrio,     \* priorities handed to RT_THREAD_CTRL_CHANGE_PRIORITY
  Serialised   \* TRUE: a thread is managed by one thread at a time, and never
               \* while its own timer runs

ASSUME SchedAssumption ==
  /\ Idle \in Thread /\ NoThread \notin Thread
  /\ MaxPrio \in Nat \ {0}
  /\ InitPrio \in [Thread -> 0 .. MaxPrio - 1]
  /\ InitTick \in [Thread -> Nat \ {0}]
  /\ MaxNest \in Nat
  /\ Managers \subseteq Thread
  /\ NewPrio \subseteq 0 .. MaxPrio - 1
  /\ Serialised \in BOOLEAN

Prio == 0 .. MaxPrio - 1

VARIABLES
  ready,    \* rt_thread_priority_table: priority -> list of threads
  group,    \* rt_thread_ready_priority_group: the priorities whose bit is set
  stat,     \* thread -> stat & RT_THREAD_STAT_MASK
  prio,     \* thread -> current_priority
  cur,      \* rt_current_thread
  nest,     \* rt_scheduler_lock_nest
  remain,   \* thread -> remaining_tick
  armed,    \* threads whose thread_timer is in the timer list
  pc,       \* thread -> where its call stands; "run" is application code
  arg,      \* thread -> the thread its call is about, itself between calls
  owed      \* some list change is not followed by rt_schedule() in the call
            \* that made it, and none has run since

vars == <<ready, group, stat, prio, cur, nest, remain, armed, pc, arg, owed>>

Stats == {"init", "ready", "suspend", "close"}
Places == {"run", "schedule", "suspend", "resume", "insert", "startup",
           "start", "detach", "gone"}
----------------------------------------------------------------------------
(* Helpers: scheduler.c                                                    *)

(* __rt_ffs(group) - 1                                                     *)
Top(g) == CHOOSE p \in g : \A q \in g : p <= q

(* rt_list_entry(table[highest].next): the head of the list, or no thread  *)
(* at all when the bitmap points at an empty list.                         *)
Pick(r, g) ==
  IF g = {} THEN NoThread
  ELSE IF r[Top(g)] = <<>> THEN NoThread ELSE Head(r[Top(g)])

(* rt_list_remove(&thread->tlist), whatever list the node is in.           *)
Unlinked(r, t) == [p \in Prio |-> ListRemove(r[p], t)]

(* rt_schedule_remove_thread: the bit is cleared when the list of the      *)
(* thread's current priority is found empty.                               *)
RemovedGroup(r, g, p) == IF r[p] = <<>> THEN g \ {p} ELSE g

(* rt_schedule_insert_thread: to the tail of its list, bit set.            *)
Inserted(r, t, p) == [r EXCEPT ![p] = ListAddTail(@, t)]

(* rt_thread_yield has something to do: READY and not alone in its list.   *)
CanYield(t) ==
  stat[t] = "ready" /\ Occurs(ready[prio[t]], t) /\ Len(ready[prio[t]]) > 1

(* Mutant: a yielding thread goes back to the head of its list.            *)
RotatedToHead(t) == [Unlinked(ready, t) EXCEPT ![prio[t]] = <<t>> \o @]

Rotated(t) == Inserted(Unlinked(ready, t), t, prio[t])

(* Mutant: rt_schedule() does not look at rt_scheduler_lock_nest.          *)
ScheduledWhenLocked(r, g) == Pick(r, g)

(* What rt_schedule() leaves in rt_current_thread.                         *)
Scheduled(r, g) == IF nest = 0 THEN Pick(r, g) ELSE cur

AfterSchedule == nest # 0 /\ owed
----------------------------------------------------------------------------
(* Start of the system: components.c starts main and tidle with interrupts *)
(* disabled and rt_current_thread still RT_NULL, then the scheduler.       *)

Init ==
  /\ ready = [p \in Prio |-> <<>>]
  /\ group = {}
  /\ stat = [t \in Thread |-> "init"]
  /\ prio = InitPrio
  /\ cur = NoThread
  /\ nest = 0
  /\ remain = InitTick
  /\ armed = {}
  /\ pc = [t \in Thread |-> "run"]
  /\ arg = [t \in Thread |-> t]
  /\ owed = FALSE

(* rt_thread_startup before the scheduler runs: no window, no rt_schedule. *)
BootStartup(u) ==
  /\ cur = NoThread /\ stat[u] = "init"
  /\ prio' = [prio EXCEPT ![u] = InitPrio[u]]
  /\ stat' = [stat EXCEPT ![u] = "ready"]
  /\ ready' = Inserted(ready, u, InitPrio[u])
  /\ group' = group \union {InitPrio[u]}
  /\ UNCHANGED <<cur, nest, remain, armed, pc, arg, owed>>

(* rt_system_scheduler_start, called once tidle has been started.          *)
SchedulerStart ==
  /\ cur = NoThread /\ stat[Idle] = "ready"
  /\ cur' = Pick(ready, group)
  /\ UNCHANGED <<ready, group, stat, prio, nest, remain, armed, pc, arg, owed>>
----------------------------------------------------------------------------
(* Calls of the running thread                                             *)

(* A thread that has detached itself only computes or calls rt_schedule(). *)
Running(t) == cur = t /\ pc[t] = "run" /\ stat[t] # "close"

(* What an application must respect for its calls about another thread to  *)
(* be free of races; Serialised = FALSE drops it.                          *)
MayManage(t, u) ==
  /\ t \in Managers /\ u # Idle
  /\ Serialised => /\ u \notin armed
                   /\ \A v \in Thread \ {t} :
                        arg[v] = u => pc[v] \in {"run", "schedule", "gone"}

(* A thread ends itself only while the scheduler is not locked.  It may    *)
(* block while it is locked, and then goes on as a SUSPEND thread.         *)
MayBlock(t) == t # Idle
MayEnd(t) == t # Idle /\ nest = 0

Schedule(t) ==
  /\ cur = t /\ pc[t] = "schedule"
  /\ cur' = Scheduled(ready, group)
  /\ pc' = [pc EXCEPT ![t] = "run"]
  /\ owed' = AfterSchedule
  /\ UNCHANGED <<ready, group, stat, prio, nest, remain, armed, arg>>

(* An application may call rt_schedule() itself.                           *)
CallSchedule(t) ==
  /\ cur = t /\ pc[t] = "run" /\ owed
  /\ pc' = [pc EXCEPT ![t] = "schedule"]
  /\ UNCHANGED <<ready, group, stat, prio, cur, nest, remain, armed, arg, owed>>

Yield(t) ==
  /\ Running(t) /\ CanYield(t)
  /\ ready' = Rotated(t)
  /\ pc' = [pc EXCEPT ![t] = "schedule"]
  /\ UNCHANGED <<group, stat, prio, cur, nest, remain, armed, arg, owed>>

(* rt_thread_sleep: suspend itself (refused if it is not READY, and the    *)
(* refusal is ignored), then start its timer, all in one critical section. *)
Sleep(t) ==
  /\ Running(t) /\ MayBlock(t) /\ stat[t] \in {"ready", "suspend"}
  /\ armed' = armed \union {t}
  /\ pc' = [pc EXCEPT ![t] = "schedule"]
  /\ IF stat[t] = "ready"
       THEN /\ stat' = [stat EXCEPT ![t] = "suspend"]
            /\ ready' = Unlinked(ready, t)
            /\ group' = RemovedGroup(ready', group, prio[t])
       ELSE UNCHANGED <<stat, ready, group>>
  /\ UNCHANGED <<prio, cur, nest, remain, arg, owed>>

(* rt_thread_suspend: the READY check is made with interrupts enabled ...  *)
Suspend(t, u) ==
  /\ Running(t) /\ MayManage(t, u) /\ stat[u] = "ready"
  /\ t = u => MayBlock(t)
  /\ pc' = [pc EXCEPT ![t] = "suspend"]
  /\ arg' = [arg EXCEPT ![t] = u]
  /\ UNCHANGED <<ready, group, stat, prio, cur, nest, remain, armed, owed>>

(* ... and the work is done in a critical section after it.  A thread that *)
(* suspends itself must call rt_schedule() next.                           *)
SuspendBody(t) ==
  LET u == arg[t] IN
  /\ cur = t /\ pc[t] = "suspend"
  /\ ready' = Unlinked(ready, u)
  /\ group' = RemovedGroup(ready', group, prio[u])
  /\ stat' = [stat EXCEPT ![u] = "suspend"]
  /\ armed' = armed \ {u}
  /\ pc' = [pc EXCEPT ![t] = IF u = t THEN "schedule" ELSE "run"]
  /\ arg' = [arg EXCEPT ![t] = t]
  /\ UNCHANGED <<prio, cur, nest, remain, owed>>

(* rt_thread_resume in its three steps: the SUSPEND check, the critical    *)
(* section that unlinks the thread and stops its timer, and                *)
(* rt_schedule_insert_thread in a critical section of its own.  No         *)
(* rt_schedule() follows: that is left to the caller.                      *)
Resume(t, u) ==
  /\ Running(t) /\ MayManage(t, u) /\ stat[u] = "suspend" /\ u # t
  /\ pc' = [pc EXCEPT ![t] = "resume"]
  /\ arg' = [arg EXCEPT ![t] = u]
  /\ UNCHANGED <<ready, group, stat, prio, cur, nest, remain, armed, owed>>

(* rt_thread_startup: the thread is set SUSPEND, resumed, and rt_schedule  *)
(* follows.                                                                *)
Startup(t, u) ==
  /\ Running(t) /\ MayManage(t, u) /\ stat[u] = "init"
  /\ prio' = [prio EXCEPT ![u] = InitPrio[u]]
  /\ stat' = [stat EXCEPT ![u] = "suspend"]
  /\ pc' = [pc EXCEPT ![t] = "startup"]
  /\ arg' = [arg EXCEPT ![t] = u]
  /\ UNCHANGED <<ready, group, cur, nest, remain, armed, owed>>

ResumeUnlink(t) ==
  /\ cur = t /\ pc[t] \in {"resume", "startup"}
  /\ ready' = Unlinked(ready, arg[t])
  /\ armed' = armed \ {arg[t]}
  /\ pc' = [pc EXCEPT ![t] = IF pc[t] = "resume" THEN "insert" ELSE "start"]
  /\ UNCHANGED <<group, stat, prio, cur, nest, remain, arg, owed>>

ResumeInsert(t) ==
  LET u == arg[t] IN
  /\ cur = t /\ pc[t] \in {"insert", "start"}
  /\ stat' = [stat EXCEPT ![u] = "ready"]
  /\ ready' = Inserted(ready, u, prio[u])
  /\ group' = group \union {prio[u]}
  /\ pc' = [pc EXCEPT ![t] = IF pc[t] = "insert" THEN "run" ELSE "schedule"]
  /\ owed' = (owed \/ pc[t] = "insert")
  /\ arg' = [arg EXCEPT ![t] = t]
  /\ UNCHANGED <<prio, cur, nest, remain, armed>>

(* Mutant: a READY thread stays in the list of its old priority.           *)
ChangePriorityInPlace(t, u, p) ==
  /\ Running(t) /\ MayManage(t, u) /\ stat[u] # "close"
  /\ prio' = [prio EXCEPT ![u] = p]
  /\ owed' = (owed \/ stat[u] = "ready")
  /\ UNCHANGED <<ready, group, stat, cur, nest, remain, armed, pc, arg>>

(* RT_THREAD_CTRL_CHANGE_PRIORITY: one critical section, no rt_schedule(). *)
ChangePriority(t, u, p) ==
  /\ Running(t) /\ MayManage(t, u) /\ stat[u] # "close"
  /\ prio' = [prio EXCEPT ![u] = p]
  /\ IF stat[u] = "ready"
       THEN LET r == Unlinked(ready, u) IN
            /\ ready' = Inserted(r, u, p)
            /\ group' = RemovedGroup(r, group, prio[u]) \union {p}
            /\ owed' = TRUE
       ELSE UNCHANGED <<ready, group, owed>>
  /\ UNCHANGED <<stat, cur, nest, remain, armed, pc, arg>>

EnterCritical(t) ==
  /\ Running(t) /\ nest < MaxNest
  /\ nest' = nest + 1
  /\ UNCHANGED <<ready, group, stat, prio, cur, remain, armed, pc, arg, owed>>

(* Mutant: the outermost rt_exit_critical does not schedule.               *)
ExitCriticalSilently(t) ==
  /\ Running(t) /\ nest > 0
  /\ nest' = nest - 1
  /\ UNCHANGED <<ready, group, stat, prio, cur, remain, armed, pc, arg, owed>>

(* rt_exit_critical: the outermost one schedules.                          *)
ExitCritical(t) ==
  /\ Running(t) /\ nest > 0
  /\ nest' = nest - 1
  /\ pc' = [pc EXCEPT ![t] = IF nest = 1 THEN "schedule" ELSE "run"]
  /\ UNCHANGED <<ready, group, stat, prio, cur, remain, armed, arg, owed>>

(* rt_thread_exit, which the entry function returns into: one critical     *)
(* section with the rt_schedule() inside it.                               *)
Exit(t) ==
  /\ Running(t) /\ MayEnd(t)
  /\ ready' = Unlinked(ready, t)
  /\ group' = RemovedGroup(ready', group, prio[t])
  /\ stat' = [stat EXCEPT ![t] = "close"]
  /\ armed' = armed \ {t}
  /\ pc' = [pc EXCEPT ![t] = "gone"]
  /\ cur' = Scheduled(ready', group')
  /\ owed' = AfterSchedule
  /\ UNCHANGED <<prio, nest, remain, arg>>

(* rt_thread_detach of a thread, itself perhaps: taken off the ready list  *)
(* in one critical section, its timer stopped and its state set after it.  *)
Detach(t, u) ==
  /\ Running(t) /\ (IF u = t THEN MayEnd(t) ELSE MayManage(t, u)) /\ stat[u] # "close"
  /\ pc' = [pc EXCEPT ![t] = "detach"]
  /\ arg' = [arg EXCEPT ![t] = u]
  /\ IF stat[u] = "init"
       THEN UNCHANGED <<ready, group>>
       ELSE /\ ready' = Unlinked(ready, u)
            /\ group' = RemovedGroup(ready', group, prio[u])
  /\ owed' = (owed \/ u = t)
  /\ UNCHANGED <<stat, prio, cur, nest, remain, armed>>

DetachClose(t) ==
  /\ cur = t /\ pc[t] = "detach"
  /\ armed' = armed \ {arg[t]}
  /\ stat' = [stat EXCEPT ![arg[t]] = "close"]
  /\ pc' = [pc EXCEPT ![t] = "run"]
  /\ arg' = [arg EXCEPT ![t] = t]
  /\ UNCHANGED <<ready, group, prio, cur, nest, remain, owed>>
----------------------------------------------------------------------------
(* The tick interrupt: rt_tick_increase runs the slice of the current      *)
(* thread down and yields it at zero, then rt_timer_check fires the timer  *)
(* of at most one thread (two in one tick are two ticks in a row here).    *)

SliceOver == remain[cur] = 1

Woken(r, U) ==
  [p \in Prio |->
     IF \E u \in U : prio[u] = p
       THEN ListAddTail(ListRemove(r[p], CHOOSE u \in U : TRUE),
                        CHOOSE u \in U : TRUE)
       ELSE IF U = {} THEN r[p] ELSE ListRemove(r[p], CHOOSE u \in U : TRUE)]

(* Mutant: the thread's timer stays in the timer list after it has fired.  *)
TickKeepsTimer(U) ==
  LET rotates == SliceOver /\ CanYield(cur) IN
  /\ cur # NoThread
  /\ remain' = [remain EXCEPT ![cur] = IF SliceOver THEN InitTick[cur] ELSE @ - 1]
  /\ ready' = Woken(IF rotates THEN Rotated(cur) ELSE ready, U)
  /\ group' = group \union {prio[u] : u \in U}
  /\ stat' = [t \in Thread |-> IF t \in U THEN "ready" ELSE stat[t]]
  /\ IF rotates \/ U # {}
       THEN cur' = Scheduled(ready', group') /\ owed' = AfterSchedule
       ELSE UNCHANGED <<cur, owed>>
  /\ UNCHANGED <<prio, nest, armed, pc, arg>>

Tick(U) ==
  LET rotates == SliceOver /\ CanYield(cur) IN
  /\ cur # NoThread
  /\ remain' = [remain EXCEPT ![cur] = IF SliceOver THEN InitTick[cur] ELSE @ - 1]
  /\ ready' = Woken(IF rotates THEN Rotated(cur) ELSE ready, U)
  /\ group' = group \union {prio[u] : u \in U}
  /\ stat' = [t \in Thread |-> IF t \in U THEN "ready" ELSE stat[t]]
  /\ armed' = armed \ U
  /\ IF rotates \/ U # {}
       THEN cur' = Scheduled(ready', group') /\ owed' = AfterSchedule
       ELSE UNCHANGED <<cur, owed>>
  /\ UNCHANGED <<prio, nest, pc, arg>>

PlainTick == Tick({})

Timeout(u) == u \in armed /\ Tick({u})
----------------------------------------------------------------------------
Step(t) ==
  \/ Schedule(t) \/ CallSchedule(t) \/ Yield(t) \/ Sleep(t)
  \/ SuspendBody(t) \/ ResumeUnlink(t) \/ ResumeInsert(t) \/ DetachClose(t)
  \/ EnterCritical(t) \/ ExitCritical(t) \/ Exit(t)
  \/ \E u \in Thread :
       \/ Suspend(t, u) \/ Resume(t, u) \/ Startup(t, u) \/ Detach(t, u)
       \/ \E p \in NewPrio : ChangePriority(t, u, p)

Next ==
  \/ SchedulerStart
  \/ \E u \in Thread : BootStartup(u) \/ Step(u) \/ Timeout(u)
  \/ PlainTick

(* SysTick keeps coming, and a thread that is current gets on with the     *)
(* kernel call it is in.                                                   *)
InCall(t) ==
  Schedule(t) \/ SuspendBody(t) \/ ResumeUnlink(t) \/ ResumeInsert(t) \/ DetachClose(t)

Spec == Init /\ [][Next]_vars

FairSpec ==
  /\ Spec
  /\ WF_vars(\E u \in Thread : BootStartup(u)) /\ WF_vars(SchedulerStart)
  /\ WF_vars(PlainTick \/ \E u \in Thread : Timeout(u))
  /\ \A t \in Thread : WF_vars(InCall(t)) /\ WF_vars(ExitCritical(t))
----------------------------------------------------------------------------
(* Properties                                                              *)

TypeOK ==
  /\ ready \in [Prio -> Seq(Thread)]
  /\ group \subseteq Prio
  /\ stat \in [Thread -> Stats]
  /\ prio \in [Thread -> Prio]
  /\ cur \in Thread \union {NoThread}
  /\ nest \in Nat
  /\ remain \in [Thread -> Nat]
  /\ armed \subseteq Thread
  /\ pc \in [Thread -> Places]
  /\ arg \in [Thread -> Thread]
  /\ owed \in BOOLEAN

(* The bitmap, the lists and the states agree, through the windows of      *)
(* resume, suspend and detach: a bit is set exactly when the list of that  *)
(* priority holds a thread, so rt_schedule() never takes a list head for   *)
(* one (scheduler.c:275-361); a thread is linked once, at its current      *)
(* priority, and only while its state is READY, so that a closed thread is *)
(* gone ("removed from thread queue"); and a READY thread that nobody is   *)
(* detaching is linked (its node is shared with the wait lists: a second   *)
(* insertion would corrupt both).  TypeOK, checked with it, says what the  *)
(* variables range over.                                                   *)
BeingDetached(u) == \E t \in Thread : pc[t] = "detach" /\ arg[t] = u

ListsMatchStates ==
  /\ TypeOK
  /\ \A p \in Prio : p \in group <=> ready[p] # <<>>
  /\ \A p \in Prio :
       /\ NoDuplicates(ready[p])
       /\ \A u \in Thread : Occurs(ready[p], u) => stat[u] = "ready" /\ prio[u] = p
  /\ \A u \in Thread :
       stat[u] = "ready" /\ ~ BeingDetached(u) => Occurs(ready[prio[u]], u)

(* Preemption is never lost: with the scheduler unlocked and no            *)
(* rt_schedule() pending in the running call, the CPU belongs to the head  *)
(* of the highest-priority list, unless the application still owes the     *)
(* rt_schedule() that resume and change-priority leave to their caller.    *)
RunsHighest ==
  cur # NoThread /\ nest = 0 /\ ~ owed /\ pc[cur] # "schedule"
    => cur = Pick(ready, group)

(* rt_thread_timeout asserts that the thread it wakes is SUSPEND           *)
(* (thread.c:804): a thread timer runs only for a suspended thread.        *)
TimeoutFindsSuspended == \A u \in armed : stat[u] = "suspend"

(* The CPU is given only to a READY thread, to none below another READY    *)
(* one, to none that is being detached, and never while the scheduler is   *)
(* locked.                                                                 *)
Eligible == {u \in Thread : stat[u] = "ready" /\ ~ BeingDetached(u)}

DispatchesHighest ==
  [][cur' # cur =>
       /\ nest = 0
       /\ cur' \in Eligible'
       /\ \A u \in Eligible' : prio'[cur'] <= prio'[u]]_vars

(* Round robin: a thread that stays READY at the top priority with the     *)
(* scheduler unlocked gets the CPU, however long its equals compute.       *)
AtTop(u) == u \in Eligible /\ \A v \in Eligible : prio[u] <= prio[v]

EqualsShare == \A u \in Thread : <>[](AtTop(u) /\ nest = 0 /\ ~ owed) => []<>(cur = u)
=============================================================================
