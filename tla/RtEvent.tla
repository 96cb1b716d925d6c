------------------------------ MODULE RtEvent -------------------------------
(***************************************************************************)
(* An event object of ipc.c: rt_event_send from a thread or an interrupt,  *)
(* which walks the whole wait list, rt_event_recv with AND, OR and CLEAR,  *)
(* RT_IPC_CMD_RESET and rt_event_detach.                                   *)
(***************************************************************************)
EXTENDS RtIpc

CONSTANTS
  Flag,      \* the bits of an event set that are used
  Asks       \* the set and the options that receivers call with

Options == [and : BOOLEAN, clear : BOOLEAN]
FlagSets == (SUBSET Flag) \ {{}}

ASSUME EventAssumption == Asks \subseteq FlagSets \X Options

VARIABLES
  set,          \* event->set
  evWaiters,    \* event->parent.suspend_thread
  evAlive,      \* the object is still in the object container
  eventSet,     \* thread -> event_set: what it waits for, then what it got
  eventInfo     \* thread -> event_info

eventVars == <<set, evWaiters, evAlive, eventSet, eventInfo>>

EventPlaces == {"run", "ev_wait", "ev_woken", "ev_post", "ev_drain", "ev_drain_one"}
EventWaits == {"none", "some", "forever"}
EventInit ==
  /\ ThreadInit
  /\ set = {} /\ evWaiters = <<>> /\ evAlive = TRUE
  /\ eventSet = [t \in Thread |-> {}]
  /\ eventInfo = [t \in Thread |-> [and |-> FALSE, clear |-> FALSE]]

EventUsable ==
  evAlive /\ \A t \in Thread : pc[t] \notin {"ev_drain", "ev_drain_one"}

(* The condition of rt_event_send and rt_event_recv: all of s, or any.     *)
Received(s, opt, e) == IF opt.and THEN s \subseteq e ELSE s \intersect e # {}
----------------------------------------------------------------------------
(* rt_event_send                                                           *)

(* How far the walk over the wait list has come: the flags left, what each *)
(* thread it served gets, the threads still in the list.                   *)
WalkStart(q, e) == [set |-> e, got |-> [t \in Thread |-> {}], left |-> q]

(* Mutants: a receiver that clears is served without clearing; the walk    *)
(* stops at the first receiver it serves.                                  *)
VisitKeepingFlags(w, t) ==
  LET got == eventSet[t] \intersect w.set IN
  IF Received(eventSet[t], eventInfo[t], w.set)
    THEN [set |-> w.set, got |-> [w.got EXCEPT ![t] = got], left |-> ListRemove(w.left, t)]
    ELSE w

VisitOnce(w, t) ==
  LET got == eventSet[t] \intersect w.set IN
  IF /\ Received(eventSet[t], eventInfo[t], w.set)
     /\ \A u \in Thread : w.got[u] = {}
    THEN [set |-> IF eventInfo[t].clear THEN w.set \ got ELSE w.set,
          got |-> [w.got EXCEPT ![t] = got],
          left |-> ListRemove(w.left, t)]
    ELSE w

(* One waiter: served if its condition holds, it gets the flags it asked   *)
(* for, which for AND are all of them, leaves the list and, if it clears,  *)
(* takes its flags from those after it.                                    *)
Visit(w, t) ==
  LET got == eventSet[t] \intersect w.set IN
  IF Received(eventSet[t], eventInfo[t], w.set)
    THEN [set |-> IF eventInfo[t].clear THEN w.set \ got ELSE w.set,
          got |-> [w.got EXCEPT ![t] = got],
          left |-> ListRemove(w.left, t)]
    ELSE w

(* The whole walk over the wait list q with the flags e raised.            *)
Served(q, e) ==
  LET walk[i \in 0 .. Len(q)] ==
        IF i = 0 THEN WalkStart(q, e) ELSE Visit(walk[i - 1], q[i])
  IN walk[Len(q)]

(* The critical section: flags raised, the served threads made READY.      *)
RaiseFlags(s, woken) ==
  LET w == Served(evWaiters, set \union s) IN
  /\ woken = {t \in Thread : w.got[t] # {}}
  /\ set' = w.set
  /\ eventSet' = [t \in Thread |-> IF t \in woken THEN w.got[t] ELSE eventSet[t]]
  /\ evWaiters' = w.left
  /\ stat' = [t \in Thread |-> IF t \in woken THEN "ready" ELSE stat[t]]
  /\ armed' = armed \ woken
  /\ UNCHANGED <<prio, error, evAlive, eventInfo>>

EventSend(t, s) ==
  /\ Running(t) /\ EventUsable
  /\ \E woken \in SUBSET Thread :
       /\ RaiseFlags(s, woken)
       /\ Goto(t, IF woken = {} THEN "run" ELSE "ev_post")
  /\ UNCHANGED cur

EventSendFromIsr(s) ==
  /\ EventUsable
  /\ \E woken \in SUBSET Thread :
       /\ RaiseFlags(s, woken)
       /\ IF woken = {} THEN UNCHANGED cur ELSE Dispatch
  /\ UNCHANGED pc
----------------------------------------------------------------------------
(* rt_event_recv                                                           *)

EventRecvNow(t, s, opt) ==
  /\ Received(s, opt, set)
  /\ error' = [error EXCEPT ![t] = "RT_EOK"]
  /\ eventSet' = [eventSet EXCEPT ![t] = set \intersect s]
  /\ eventInfo' = [eventInfo EXCEPT ![t] = opt]
  /\ set' = IF opt.clear THEN set \ s ELSE set
  /\ UNCHANGED <<stat, prio, cur, armed, pc, evWaiters, evAlive>>

EventRecvNothing(t, s, opt) ==
  /\ ~ Received(s, opt, set)
  /\ error' = [error EXCEPT ![t] = "RT_ETIMEOUT"]
  /\ UNCHANGED <<stat, prio, cur, armed, pc, set, evWaiters, evAlive, eventSet, eventInfo>>

EventRecvBlock(t, s, opt, w) ==
  /\ ~ Received(s, opt, set)
  /\ Block(t, w = "some", "ev_wait")
  /\ evWaiters' = Enqueued(evWaiters, t)
  /\ eventSet' = [eventSet EXCEPT ![t] = s]
  /\ eventInfo' = [eventInfo EXCEPT ![t] = opt]
  /\ UNCHANGED <<prio, cur, set, evAlive>>

EventRecv(t, s, opt, w) ==
  /\ Running(t) /\ EventUsable
  /\ \/ EventRecvNow(t, s, opt)
     \/ w = "none" /\ EventRecvNothing(t, s, opt)
     \/ w # "none" /\ EventRecvBlock(t, s, opt, w)

EventRecvSchedule(t) == Reschedule(t, "ev_wait", "ev_woken") /\ UNCHANGED eventVars

(* Back from rt_schedule(): the error, or RT_EOK and *recved = event_set.  *)
EventRecvReturn(t) ==
  /\ At(t, "ev_woken")
  /\ Goto(t, "run")
  /\ UNCHANGED <<stat, prio, cur, armed, error, eventVars>>

EventPostSchedule(t) == Reschedule(t, "ev_post", "run") /\ UNCHANGED eventVars
----------------------------------------------------------------------------
(* RT_IPC_CMD_RESET                                                        *)
EventReset(t) ==
  /\ Running(t) /\ EventUsable
  /\ WakeAll(evWaiters)
  /\ evWaiters' = <<>> /\ set' = {}
  /\ Goto(t, "ev_post")
  /\ UNCHANGED <<prio, cur, evAlive, eventSet, eventInfo>>

(* rt_event_detach: rt_ipc_list_resume_all, thread by thread, while no     *)
(* waiter has a timer running (RtSem shows what one does), then the object *)
(* leaves its container.                                                   *)
EventDetach(t) ==
  /\ Running(t) /\ EventUsable
  /\ \A u \in armed : ~ Occurs(evWaiters, u)
  /\ Goto(t, "ev_drain")
  /\ UNCHANGED <<stat, prio, cur, armed, error, eventVars>>

EventDrainTest(t) ==
  /\ At(t, "ev_drain")
  /\ IF evWaiters # <<>> THEN Goto(t, "ev_drain_one") /\ UNCHANGED evAlive
                         ELSE Goto(t, "run") /\ evAlive' = FALSE
  /\ UNCHANGED <<stat, prio, cur, armed, error, set, evWaiters, eventSet, eventInfo>>

EventDrainOne(t) ==
  /\ At(t, "ev_drain_one") /\ evWaiters # <<>>
  /\ Wake(Head(evWaiters))
  /\ error' = [error EXCEPT ![Head(evWaiters)] = "RT_ERROR"]
  /\ evWaiters' = Tail(evWaiters)
  /\ Goto(t, "ev_drain")
  /\ UNCHANGED <<prio, cur, set, evAlive, eventSet, eventInfo>>

EventTimeout(u) ==
  /\ TimeoutOf(u)
  /\ evWaiters' = ListRemove(evWaiters, u)
  /\ UNCHANGED <<set, evAlive, eventSet, eventInfo>>
----------------------------------------------------------------------------
EventNext ==
  \/ \E t \in Thread :
       \/ EventRecvSchedule(t) \/ EventRecvReturn(t) \/ EventPostSchedule(t)
       \/ EventReset(t) \/ EventDetach(t) \/ EventDrainTest(t) \/ EventDrainOne(t)
       \/ EventTimeout(t)
       \/ \E s \in FlagSets : EventSend(t, s)
       \/ \E ask \in Asks, w \in EventWaits : EventRecv(t, ask[1], ask[2], w)
  \/ \E s \in FlagSets : EventSendFromIsr(s)
  \/ SliceEnd /\ UNCHANGED eventVars

EventSpec == EventInit /\ [][EventNext]_<<threadVars, eventVars>>
----------------------------------------------------------------------------
EventTypeOK ==
  /\ ThreadTypeOK(EventPlaces)
  /\ set \subseteq Flag
  /\ evWaiters \in Seq(Thread)
  /\ evAlive \in BOOLEAN
  /\ eventSet \in [Thread -> SUBSET Flag]
  /\ eventInfo \in [Thread -> Options]

(* Nobody is overlooked: a thread waits only while its own condition is    *)
(* false, although each receiver served before it in the same send may     *)
(* have cleared flags and later receives and resets do; and the list holds *)
(* exactly the threads blocked in rt_event_recv (ipc.c:1083-1138).         *)
EventNoneOverlooked ==
  /\ NoDuplicates(evWaiters)
  /\ \A t \in Thread :
       /\ Occurs(evWaiters, t) <=> stat[t] = "suspend" /\ pc[t] \in {"ev_wait", "ev_woken"}
       /\ Occurs(evWaiters, t) => ~ Received(eventSet[t], eventInfo[t], set)

(* The flags the threads woken by one step are given.                      *)
GivenOnce ==
  LET woken == {t \in Thread : /\ Occurs(evWaiters, t) /\ ~ Occurs(evWaiters', t)
                              /\ t \notin armed' /\ error'[t] = "RT_EOK"}
      clearing == {t \in woken : eventInfo[t].clear} IN
  /\ \A t \in woken :
       /\ eventSet'[t] # {} /\ eventSet'[t] \subseteq eventSet[t]
       /\ eventInfo[t].and => eventSet'[t] = eventSet[t]
  /\ \A t, u \in clearing : t # u => eventSet'[t] \intersect eventSet'[u] = {}
  /\ \A t \in clearing : eventSet'[t] \intersect set' = {}

(* What a receive reports is what it asked for, all of it or some of it,   *)
(* and a flag is given to one receiver at most if the receivers clear: of  *)
(* the threads one send wakes no two that clear share a flag, and none of  *)
(* their flags stays raised (ipc.c:1125-1138).                             *)
EventGivesOnce == [][GivenOnce]_<<threadVars, eventVars>>
=============================================================================
