------------------------------ MODULE MCObjects ------------------------------
(***************************************************************************)
(* The IPC objects besides the semaphore and the mutex, and two mutexes    *)
(* taken in an order, checked in one run: `part' says which object the     *)
(* three threads use.  The parts share the thread layer of RtIpc.          *)
(***************************************************************************)
EXTENDS RtMailbox, RtEvent, RtMsgQueue, RtMempool, TLC

CONSTANTS hi, mid, lo, f1, f2, m1, m2, NoThread

MCThread == {hi, mid, lo}
MCBasePrio == (hi :> 1) @@ (mid :> 2) @@ (lo :> 2)
MCAsks ==
  {<<{f1, f2}, [and |-> TRUE, clear |-> TRUE]>>,
   <<{f1, f2}, [and |-> FALSE, clear |-> TRUE]>>,
   <<{f1}, [and |-> FALSE, clear |-> FALSE]>>}

VARIABLES part, value, owner, hold, original, waiters, live, at, depth

ASSUME NestedAssumption ==
  /\ {hi, mid} \subseteq Thread /\ NoThread \notin Thread
  /\ \A t \in Thread : BasePrio[t] # 255

NestedRank == [m \in {m1, m2} |-> IF m = m1 THEN 1 ELSE 2]

(* Two mutexes, taken in the order m1, m2.                                 *)
Nested == INSTANCE RtMutex
  WITH Mutex <- {m1, m2}, NoPriority <- 255, MaxHold <- 1, Ordered <- TRUE,
       Rank <- NestedRank, Detachable <- {}, Sleepers <- {hi, mid},
       ByPriority <- TRUE, alive <- live

mutexVars == <<value, owner, hold, original, waiters, live, at, depth>>
objectVars == <<part, threadVars, boxVars, eventVars, mqVars, poolVars, mutexVars>>
----------------------------------------------------------------------------
ObjectParts == {"mailbox", "event", "queue", "pool", "mutexes"}

ObjectsInit ==
  /\ part \in ObjectParts
  /\ Init /\ EventInit /\ MqInit /\ MpInit /\ Nested!Init

ObjectsNext ==
  /\ UNCHANGED part
  /\ \/ /\ part = "mailbox" /\ Next
        /\ UNCHANGED <<eventVars, mqVars, poolVars, mutexVars>>
     \/ /\ part = "event" /\ EventNext
        /\ UNCHANGED <<boxVars, mqVars, poolVars, mutexVars>>
     \/ /\ part = "queue" /\ MqNext
        /\ UNCHANGED <<boxVars, eventVars, poolVars, mutexVars>>
     \/ /\ part = "pool" /\ MpNext
        /\ UNCHANGED <<boxVars, eventVars, mqVars, mutexVars>>
     \/ /\ part = "mutexes" /\ Nested!Next
        /\ UNCHANGED <<boxVars, eventVars, mqVars, poolVars>>

ObjectsSpec == ObjectsInit /\ [][ObjectsNext]_objectVars
----------------------------------------------------------------------------
(* The views leave out what is not read again: the locals of a thread      *)
(* outside the calls they belong to, what a consumer was given last, and   *)
(* the bytes of blocks that hold no message.                               *)
Locals(places, f) == [t \in Thread |-> IF pc[t] \in places THEN <<error[t], f[t]>> ELSE <<>>]

MailboxView ==
  <<entry, in, out, Contents, receivers, senders, alive,
    Locals({"send_wait", "send_woken", "recv_wait", "recv_woken"}, timeout),
    Locals({"send_wait", "send_woken"}, mail)>>

EventView ==
  <<set, evWaiters, evAlive, Locals({"ev_wait", "ev_woken"}, eventSet),
    Locals({"ev_wait", "ev_woken"}, eventInfo)>>

QueueView ==
  <<chains, mqReceivers, mqSenders, mqAlive, Messages,
    Locals({"mq_send_wait", "mq_send_woken", "mq_recv_wait", "mq_recv_woken"}, mqTimeout),
    [t \in Copying |-> IF pc[t] = "mq_copy_out" THEN <<msg[t], text[msg[t]]>> ELSE <<msg[t]>>],
    [t \in Thread |->
       IF pc[t] \in {"mq_send_wait", "mq_send_woken", "mq_copy_in", "mq_copy_urgent"}
         THEN mqText[t] ELSE NoMessage]>>

PoolView ==
  <<word, blockList, freeCount, mpWaiters, mpAlive, taken,
    Locals({"mp_wait", "mp_woken"}, mpTime)>>

MutexView ==
  <<value, owner, hold, original, waiters, live, depth, Locals({"wait", "woken"}, at)>>

ObjectsView ==
  <<part, stat, prio, cur, armed, pc,
    IF part = "mailbox" THEN MailboxView ELSE <<>>,
    IF part = "event" THEN EventView ELSE <<>>,
    IF part = "queue" THEN QueueView ELSE <<>>,
    IF part = "pool" THEN PoolView ELSE <<>>,
    IF part = "mutexes" THEN MutexView ELSE <<>> >>
----------------------------------------------------------------------------
(* Types of the state of the object in use.                                *)
ObjectsTypeOK ==
  /\ part = "mailbox" => TypeOK
  /\ part = "event" => EventTypeOK
  /\ part = "queue" => MqTypeOK
  /\ part = "pool" => MpTypeOK
  /\ part = "mutexes" => Nested!TypeOK

(* Mutexes taken and released in an order: each has one owner, and nobody  *)
(* keeps a boost once it owns none (ipc.c:848 "change the owner thread to  *)
(* original priority").                                                    *)
NestedBoostEnds == part = "mutexes" => Nested!MutualExclusion /\ Nested!BoostEnds
=============================================================================
