------------------------------ MODULE RtTimer -------------------------------
(***************************************************************************)
(* The hard timers of timer.c and the tick of clock.c: an unsigned tick    *)
(* counter that wraps, one list of active timers sorted by timeout_tick    *)
(* (RT_TIMER_SKIP_LIST_LEVEL is 1), and rt_timer_check in the tick         *)
(* interrupt, whose callbacks start and stop timers themselves.            *)
(*                                                                         *)
(* rt_timer_check keeps interrupts disabled from its first test to its     *)
(* last, so while `phase' is not "app" only the interrupt takes steps.     *)
(***************************************************************************)
EXTENDS RtList, Integers

CONSTANTS
  Timer,
  NoTimer,
  RT_TICK_MAX,   \* the greatest rt_tick_t
  Times,     \* timer -> the values its init_tick is given
  Detachable,      \* the timers the application detaches
  Controlled,      \* the timers it changes with rt_timer_control
  ModeInCallback   \* TRUE: a callback may make its own timer one-shot

Modulus == RT_TICK_MAX + 1
Half == RT_TICK_MAX \div 2

(* rt_timer_start asserts init_tick < RT_TICK_MAX / 2.                     *)
ASSUME TimerAssumption ==
  /\ NoTimer \notin Timer
  /\ RT_TICK_MAX \in Nat /\ RT_TICK_MAX >= 4
  /\ Times \in [Timer -> SUBSET (0 .. Half - 1)]
  /\ Detachable \subseteq Timer /\ Controlled \subseteq Timer
  /\ ModeInCallback \in BOOLEAN

VARIABLES
  tick,       \* rt_tick
  list,       \* rt_timer_list
  timeout,    \* timer -> timeout_tick
  initTick,   \* timer -> init_tick
  periodic,   \* the timers with RT_TIMER_FLAG_PERIODIC
  active,     \* the timers with RT_TIMER_FLAG_ACTIVATED
  known,      \* the timers in the object container
  stopping,   \* the timers that a rt_timer_stop has found ACTIVATED and not
              \* yet unlinked
  phase,      \* "app", "check" or "call"
  fired,      \* the timer whose callback runs
  held,       \* rt_timer_check's temporary list: it still holds that timer
  order       \* the active timers in the order of their rt_timer_start

settings == <<timeout, initTick, periodic, known>>
check == <<phase, fired, held>>
vars == <<tick, list, settings, active, stopping, check, order>>

Init ==
  /\ tick = 0
  /\ list = <<>>
  /\ timeout = [t \in Timer |-> 0]
  /\ initTick = [t \in Timer |-> 0]
  /\ periodic = {}
  /\ active = {}
  /\ known = {}
  /\ stopping = {}
  /\ phase = "app" /\ fired = NoTimer /\ held = FALSE
  /\ order = <<>>

(* Unsigned subtraction of ticks.                                          *)
Minus(a, b) == (a - b) % Modulus

(* Mutant: in front of the timers of the same timeout_tick.                *)
PlaceBeforeEquals(q, deadline, due) ==
  LET notSooner == {i \in 1 .. Len(q) : Minus(due[q[i]], deadline) < Half} IN
  IF notSooner = {} THEN Len(q) + 1
  ELSE CHOOSE i \in notSooner : \A j \in notSooner : i <= j

(* The search of rt_timer_start: behind every timer that is not later.     *)
PlaceFor(q, deadline, due) ==
  LET later == {i \in 1 .. Len(q) : /\ Minus(due[q[i]], deadline) # 0
                                    /\ Minus(due[q[i]], deadline) < Half} IN
  IF later = {} THEN Len(q) + 1 ELSE CHOOSE i \in later : \A j \in later : i <= j

(* Mutant: timeout_tick in a word wider than rt_tick_t.                    *)
StartedUnwrapped(t) ==
  LET deadline == tick + initTick[t]
      rest == ListRemove(list, t)
  IN  /\ timeout' = [timeout EXCEPT ![t] = deadline]
      /\ list' = ListInsertBefore(rest, PlaceFor(rest, deadline, timeout), t)
      /\ active' = active \union {t}
      /\ order' = ListAddTail(ListRemove(order, t), t)

(* rt_timer_start(t), which first takes t out of whatever list it is in.   *)
Started(t) ==
  LET deadline == (tick + initTick[t]) % Modulus
      rest == ListRemove(list, t)
  IN  /\ timeout' = [timeout EXCEPT ![t] = deadline]
      /\ list' = ListInsertBefore(rest, PlaceFor(rest, deadline, timeout), t)
      /\ active' = active \union {t}
      /\ order' = ListAddTail(ListRemove(order, t), t)

(* Mutant: the timer leaves the list and stays ACTIVATED.                  *)
UnlinkedActive(t) ==
  /\ list' = ListRemove(list, t)
  /\ order' = ListRemove(order, t)
  /\ UNCHANGED active

(* _rt_timer_remove and the flag cleared.                                  *)
Unlinked(t) ==
  /\ list' = ListRemove(list, t)
  /\ active' = active \ {t}
  /\ order' = ListRemove(order, t)

(* A call on t from its own callback takes it off the temporary list.      *)
Released(t) == held' = (held /\ fired # t)
----------------------------------------------------------------------------
(* Calls of threads and of callbacks                                       *)

Calling == phase \in {"app", "call"}

Start(t) ==
  /\ Calling /\ t \in known
  /\ Started(t) /\ Released(t)
  /\ UNCHANGED <<tick, initTick, periodic, known, stopping, phase, fired>>

(* rt_timer_stop of a thread tests the flag with interrupts enabled ...    *)
StopTest(t) ==
  /\ phase = "app" /\ t \in known /\ t \in active
  /\ stopping' = stopping \union {t}
  /\ UNCHANGED <<tick, list, settings, active, check, order>>

(* ... so the timer may have fired or been restarted when it is unlinked.  *)
StopBody(t) ==
  /\ phase = "app" /\ t \in stopping
  /\ Unlinked(t)
  /\ stopping' = stopping \ {t}
  /\ UNCHANGED <<tick, settings, check>>

StopInCallback(t) ==
  /\ phase = "call" /\ t \in known /\ t \in active
  /\ Unlinked(t) /\ Released(t)
  /\ UNCHANGED <<tick, settings, stopping, phase, fired>>

(* rt_timer_detach and its rt_object_detach, which changes no list, as one *)
(* step.                                                                   *)
Detach(t) ==
  /\ Calling /\ t \in known \intersect Detachable
  /\ Unlinked(t) /\ Released(t)
  /\ known' = known \ {t}
  /\ UNCHANGED <<tick, timeout, initTick, periodic, stopping, phase, fired>>

(* rt_timer_init of a timer that is not in the container.                  *)
Initialise(t, n, isPeriodic) ==
  /\ Calling /\ t \notin known
  /\ initTick' = [initTick EXCEPT ![t] = n]
  /\ periodic' = IF isPeriodic THEN periodic \union {t} ELSE periodic \ {t}
  /\ timeout' = [timeout EXCEPT ![t] = 0]
  /\ known' = known \union {t}
  /\ UNCHANGED <<tick, list, active, stopping, check, order>>

(* rt_timer_control: a new time counts from the next start only.           *)
SetTime(t, n) ==
  /\ Calling /\ t \in known \intersect Controlled
  /\ initTick' = [initTick EXCEPT ![t] = n]
  /\ UNCHANGED <<tick, list, timeout, periodic, known, active, stopping, check, order>>

SetPeriodic(t, isPeriodic) ==
  /\ Calling /\ t \in known \intersect Controlled
  /\ ModeInCallback \/ t # fired
  /\ periodic' = IF isPeriodic THEN periodic \union {t} ELSE periodic \ {t}
  /\ UNCHANGED <<tick, list, timeout, initTick, known, active, stopping, check, order>>
----------------------------------------------------------------------------
(* The tick interrupt                                                      *)

(* rt_tick_increase up to rt_timer_check; the time slice is RtSched's.     *)
TickIncrease ==
  /\ phase = "app"
  /\ tick' = (tick + 1) % Modulus
  /\ phase' = "check"
  /\ UNCHANGED <<list, settings, active, stopping, fired, held, order>>

(* Mutant: due-ness as a plain comparison of two ticks.                    *)
DueUnwrapped(t) == timeout[t] <= tick

Due(t) == Minus(tick, timeout[t]) < Half
(* Mutant: rt_timer_check goes on until the list is empty.                 *)
AnyLinked == list # <<>>

HeadDue == list # <<>> /\ Due(Head(list))

Fire ==
  LET t == Head(list) IN
  /\ phase = "check" /\ HeadDue
  /\ list' = Tail(list)
  /\ active' = IF t \in periodic THEN active ELSE active \ {t}
  /\ order' = ListRemove(order, t)
  /\ phase' = "call" /\ fired' = t /\ held' = TRUE
  /\ UNCHANGED <<tick, settings, stopping>>

(* The callback is back: unless it took its timer off the temporary list,  *)
(* a periodic timer that is still ACTIVATED is started again.              *)
Return ==
  /\ phase = "call"
  /\ phase' = "check" /\ fired' = NoTimer /\ held' = FALSE
  /\ IF held /\ fired \in periodic \intersect active
       THEN Started(fired)
       ELSE UNCHANGED <<timeout, list, active, order>>
  /\ UNCHANGED <<tick, initTick, periodic, known, stopping>>

Done ==
  /\ phase = "check" /\ ~ HeadDue
  /\ phase' = "app"
  /\ UNCHANGED <<tick, list, settings, active, stopping, fired, held, order>>
----------------------------------------------------------------------------
Interrupt == TickIncrease \/ Fire \/ Return \/ Done

Next ==
  \/ Interrupt
  \/ \E t \in Timer :
       \/ Start(t) \/ StopTest(t) \/ StopBody(t) \/ StopInCallback(t) \/ Detach(t)
       \/ \E n \in Times[t] :
            SetTime(t, n) \/ \E p \in BOOLEAN : Initialise(t, n, p)
       \/ \E p \in BOOLEAN : SetPeriodic(t, p)

Spec == Init /\ [][Next]_vars

FairSpec == Spec /\ WF_vars(Interrupt)
----------------------------------------------------------------------------
TypeOK ==
  /\ tick \in 0 .. RT_TICK_MAX
  /\ list \in Seq(Timer) /\ order \in Seq(Timer)
  /\ timeout \in [Timer -> 0 .. RT_TICK_MAX]
  /\ initTick \in [Timer -> 0 .. Half - 1]
  /\ periodic \subseteq Timer /\ active \subseteq Timer
  /\ known \subseteq Timer /\ stopping \subseteq Timer
  /\ phase \in {"app", "check", "call"}
  /\ fired \in Timer \union {NoTimer}
  /\ held \in BOOLEAN

(* RT_TIMER_FLAG_ACTIVATED, which RT_TIMER_CTRL_GET_STATE reports as       *)
(* "timer is start and run" (timer.c:498), says what the list says,        *)
(* whatever callbacks and half-done stops did; the one exception is a      *)
(* timer during its own callback, which is on the temporary list.          *)
ActiveMeansLinked ==
  /\ NoDuplicates(list)
  /\ \A t \in Timer :
       /\ Occurs(list, t) => t \in active
       /\ t \in active => Occurs(list, t) \/ (t = fired /\ held)

(* The list is sorted by the time to go, so that rt_timer_check may stop   *)
(* at the first timer that is not due, also across the wrap of rt_tick,    *)
(* and "the timer inserted early get called early" (timer.c:365-368).      *)
(* TypeOK, checked with it, says what the variables range over.            *)
TimeLeft(t) ==
  IF Minus(timeout[t], tick) < Half THEN Minus(timeout[t], tick)
  ELSE - Minus(tick, timeout[t])

SortedList ==
  /\ TypeOK
  /\ \A i, j \in 1 .. Len(list) : i < j =>
       \/ TimeLeft(list[i]) < TimeLeft(list[j])
       \/ /\ TimeLeft(list[i]) = TimeLeft(list[j])
          /\ Position(order, list[i]) < Position(order, list[j])

(* A timer fires at the tick it was started for, neither before it nor     *)
(* after, however the counter wraps: the list implements the countdown.    *)
Countdown == INSTANCE TimerService
               WITH Times <- 0 .. Half - 1,
                    left <- [t \in Timer |->
                      IF ~ Occurs(list, t) THEN -1
                      ELSE IF TimeLeft(t) > 0 THEN TimeLeft(t) ELSE 0]

FiresOnTime == Countdown!Spec

(* rt_timer_check comes to an end and gives the CPU back to the threads,   *)
(* whatever its callbacks start, stop and re-time: one that does not has   *)
(* callbacks that for ever start timers of 0 ticks, or restarts a periodic *)
(* one of 0 ticks for ever, which are due at once (timer.c:551).           *)
StartsDueTimer ==
  /\ phase = "call"
  /\ \E t \in Timer : initTick[t] = 0 /\ (Start(t) \/ (t = fired /\ Return))

CheckEnds == []<>(phase = "app") \/ []<><<StartsDueTimer>>_vars
=============================================================================
