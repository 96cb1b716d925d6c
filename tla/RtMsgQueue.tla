----------------------------- MODULE RtMsgQueue -----------------------------
(***************************************************************************)
(* A message queue of ipc.c.  Messages lie in blocks of a pool, chained by *)
(* `next' either from msg_queue_head or from msg_queue_free.  A call takes *)
(* a block out of one chain in a first critical section, copies with       *)
(* interrupts enabled, and links it into the other chain in a second one;  *)
(* calls of other threads and of interrupt handlers run in between.        *)
(***************************************************************************)
EXTENDS RtIpc

CONSTANTS
  Message, NoMessage,   \* the messages, and the content of an unused block
  MsgBlock, NoBlock,      \* the blocks of mq->msg_pool, and RT_NULL
  MqIsr,                \* the interrupt handler as a consumer
  MqSenders, MqReceivers, MqUrgent
                        \* the threads that call rt_mq_send_wait, rt_mq_recv
                        \* and rt_mq_urgent

ASSUME MsgQueueAssumption ==
  /\ NoMessage \notin Message /\ MqIsr \notin Thread
  /\ IsFiniteSet(MsgBlock) /\ MsgBlock # {} /\ NoBlock \notin MsgBlock
  /\ MqSenders \union MqReceivers \union MqUrgent \subseteq Thread

VARIABLES
  next,                 \* block -> msg->next
  text,                 \* block -> the bytes after the link
  msgHead, msgTail, msgFree,   \* mq->msg_queue_head, _tail, _free
  msgEntry,             \* mq->entry
  mqReceivers,          \* mq->parent.suspend_thread
  mqSenders,            \* mq->suspend_sender_thread
  mqAlive,              \* the object is still in the object container
  mqTimeout,            \* thread -> the timeout local of its call
  msg,                  \* thread -> the msg local: the block it copies
  mqText,               \* thread -> the buffer it sends from
  mqGot                 \* consumer -> the last buffer it filled

chains == <<next, msgHead, msgTail, msgFree, msgEntry>>
mqVars == <<chains, text, mqReceivers, mqSenders, mqAlive, mqTimeout, msg, mqText, mqGot>>

MqPlaces ==
  {"run", "mq_send_wait", "mq_send_woken", "mq_recv_wait", "mq_recv_woken",
   "mq_copy_in", "mq_copy_urgent", "mq_copy_out", "mq_post",
   "mq_drain_recv", "mq_drain_recv_one", "mq_drain_send", "mq_drain_send_one"}
MqDrains == {"mq_drain_recv", "mq_drain_recv_one", "mq_drain_send", "mq_drain_send_one"}
MqWaits == {"none", "some", "forever"}

(* rt_mq_init chains the blocks, the last of the pool first.               *)
Chained(q) ==
  [b \in MsgBlock |-> IF \E i \in 1 .. Len(q) - 1 : q[i] = b
                      THEN q[(CHOOSE i \in 1 .. Len(q) - 1 : q[i] = b) + 1] ELSE NoBlock]

MqInit ==
  /\ ThreadInit
  /\ LET pool == CHOOSE q \in [1 .. Cardinality(MsgBlock) -> MsgBlock] : NoDuplicates(q)
     IN next = Chained(pool) /\ msgFree = pool[1]
  /\ text = [b \in MsgBlock |-> NoMessage]
  /\ msgHead = NoBlock /\ msgTail = NoBlock
  /\ msgEntry = 0
  /\ mqReceivers = <<>> /\ mqSenders = <<>>
  /\ mqAlive = TRUE
  /\ mqTimeout = [t \in Thread |-> "none"]
  /\ msg = [t \in Thread |-> NoBlock]
  /\ mqText = [t \in Thread |-> NoMessage]
  /\ mqGot = [c \in Thread \union {MqIsr} |-> NoMessage]

MqUsable == mqAlive /\ \A t \in Thread : pc[t] \notin MqDrains

(* After a wake-up a finite timeout is what is left of it: some or none.   *)
MqRecomputed(w) == IF w = "some" THEN {"none", "some"} ELSE {w}
----------------------------------------------------------------------------
(* The links, in terms of the chains as they are before the step           *)

(* A block is taken from the free chain.                                   *)
TakeFreeBlock(b) == b = msgFree /\ b # NoBlock /\ msgFree' = next[b]

LinkLast(b) ==
  /\ next' = [c \in MsgBlock |-> IF c = b THEN NoBlock ELSE IF c = msgTail THEN b ELSE next[c]]
  /\ msgTail' = b
  /\ msgHead' = IF msgHead = NoBlock THEN b ELSE msgHead
  /\ msgEntry' = msgEntry + 1

LinkFirst(b) ==
  /\ next' = [next EXCEPT ![b] = msgHead]
  /\ msgHead' = b
  /\ msgTail' = IF msgTail = NoBlock THEN b ELSE msgTail
  /\ msgEntry' = msgEntry + 1

(* The second critical section of a send: linked, and a receiver woken.    *)
WakeReceiver ==
  IF mqReceivers # <<>>
    THEN Wake(Head(mqReceivers)) /\ mqReceivers' = Tail(mqReceivers)
    ELSE UNCHANGED <<stat, armed, mqReceivers>>

(* Mutant: the freed block is announced to no waiting sender.              *)
WakeNoSender == UNCHANGED <<stat, armed, mqSenders>>

WakeSender ==
  IF mqSenders # <<>>
    THEN Wake(Head(mqSenders)) /\ mqSenders' = Tail(mqSenders)
    ELSE UNCHANGED <<stat, armed, mqSenders>>

(* The first critical section of a receive: the first message comes out.   *)
TakeFirst(b) ==
  /\ msgEntry > 0 /\ b = msgHead
  /\ msgHead' = next[b]
  /\ msgTail' = IF msgTail = b THEN NoBlock ELSE msgTail
  /\ msgEntry' = msgEntry - 1
----------------------------------------------------------------------------
(* rt_mq_send_wait and rt_mq_urgent                                        *)

MqSendTake(t, v) ==
  /\ TakeFreeBlock(msgFree)
  /\ msg' = [msg EXCEPT ![t] = msgFree]
  /\ mqText' = [mqText EXCEPT ![t] = v]
  /\ Goto(t, "mq_copy_in")
  /\ UNCHANGED <<stat, prio, cur, armed, error, next, text, msgHead, msgTail, msgEntry,
                 mqReceivers, mqSenders, mqAlive, mqTimeout, mqGot>>

(* Full and no time to wait: -RT_EFULL.                                    *)
MqSendFull(t, w) ==
  /\ msgFree = NoBlock /\ w = "none"
  /\ error' = IF pc[t] = "run" THEN error ELSE [error EXCEPT ![t] = "RT_EOK"]
  /\ Goto(t, "run")
  /\ UNCHANGED <<stat, prio, cur, armed, mqVars>>

MqSendBlock(t, v, w) ==
  /\ msgFree = NoBlock /\ w # "none"
  /\ Block(t, w = "some", "mq_send_wait")
  /\ mqSenders' = Enqueued(mqSenders, t)
  /\ mqTimeout' = [mqTimeout EXCEPT ![t] = w]
  /\ mqText' = [mqText EXCEPT ![t] = v]
  /\ UNCHANGED <<prio, cur, chains, text, mqReceivers, mqAlive, msg, mqGot>>

MqSendBody(t, v, w) == MqSendTake(t, v) \/ MqSendFull(t, w) \/ MqSendBlock(t, v, w)

MqSend(t, v, w) == Running(t) /\ t \in MqSenders /\ MqUsable /\ MqSendBody(t, v, w)

MqSendSchedule(t) == Reschedule(t, "mq_send_wait", "mq_send_woken") /\ UNCHANGED mqVars

MqSendAgain(t) ==
  /\ At(t, "mq_send_woken") /\ error[t] = "RT_EOK"
  /\ \E w \in MqRecomputed(mqTimeout[t]) : MqSendBody(t, mqText[t], w)

(* rt_mq_urgent never waits: a free block or -RT_EFULL, which changes      *)
(* nothing.                                                                *)
MqUrgentTake(t, v) ==
  /\ Running(t) /\ t \in MqUrgent /\ MqUsable
  /\ TakeFreeBlock(msgFree)
  /\ msg' = [msg EXCEPT ![t] = msgFree]
  /\ mqText' = [mqText EXCEPT ![t] = v]
  /\ Goto(t, "mq_copy_urgent")
  /\ UNCHANGED <<stat, prio, cur, armed, error, next, text, msgHead, msgTail, msgEntry,
                 mqReceivers, mqSenders, mqAlive, mqTimeout, mqGot>>

(* The copy, in the last moment before the second critical section.        *)
MqSendLink(t) ==
  /\ cur = t /\ pc[t] \in {"mq_copy_in", "mq_copy_urgent"}
  /\ text' = [text EXCEPT ![msg[t]] = mqText[t]]
  /\ IF pc[t] = "mq_copy_in" THEN LinkLast(msg[t]) ELSE LinkFirst(msg[t])
  /\ WakeReceiver
  /\ Goto(t, IF mqReceivers # <<>> THEN "mq_post" ELSE "run")
  /\ UNCHANGED <<prio, cur, error, msgFree, mqSenders, mqAlive, mqTimeout, msg, mqText, mqGot>>

(* rt_mq_send and rt_mq_urgent in a handler: no thread runs in between.    *)
MqSendFromIsr(v) ==
  /\ MqUsable
  /\ TakeFreeBlock(msgFree)
  /\ text' = [text EXCEPT ![msgFree] = v]
  /\ LinkLast(msgFree) \/ LinkFirst(msgFree)
  /\ WakeReceiver
  /\ UNCHANGED <<prio, error, pc, mqSenders, mqAlive, mqTimeout, msg, mqText, mqGot>>
  /\ IF mqReceivers # <<>> THEN Dispatch ELSE UNCHANGED cur
----------------------------------------------------------------------------
(* rt_mq_recv                                                              *)

(* Mutant: the block goes back to the free chain before it is copied.      *)
MqRecvTakeFreeing(t) ==
  /\ TakeFirst(msgHead)
  /\ msg' = [msg EXCEPT ![t] = msgHead]
  /\ next' = [next EXCEPT ![msgHead] = msgFree]
  /\ msgFree' = msgHead
  /\ Goto(t, "mq_copy_out")
  /\ UNCHANGED <<stat, prio, cur, armed, error, text, mqReceivers, mqSenders,
                 mqAlive, mqTimeout, mqText, mqGot>>

MqRecvTake(t) ==
  /\ TakeFirst(msgHead)
  /\ msg' = [msg EXCEPT ![t] = msgHead]
  /\ Goto(t, "mq_copy_out")
  /\ UNCHANGED <<stat, prio, cur, armed, error, next, text, msgFree, mqReceivers, mqSenders,
                 mqAlive, mqTimeout, mqText, mqGot>>

MqRecvEmpty(t, w) ==
  /\ msgEntry = 0 /\ w = "none"
  /\ error' = IF pc[t] = "run" THEN error ELSE [error EXCEPT ![t] = "RT_ETIMEOUT"]
  /\ Goto(t, "run")
  /\ UNCHANGED <<stat, prio, cur, armed, mqVars>>

MqRecvBlock(t, w) ==
  /\ msgEntry = 0 /\ w # "none"
  /\ Block(t, w = "some", "mq_recv_wait")
  /\ mqReceivers' = Enqueued(mqReceivers, t)
  /\ mqTimeout' = [mqTimeout EXCEPT ![t] = w]
  /\ UNCHANGED <<prio, cur, chains, text, mqSenders, mqAlive, msg, mqText, mqGot>>

MqRecvBody(t, w) == MqRecvTake(t) \/ MqRecvEmpty(t, w) \/ MqRecvBlock(t, w)

MqRecv(t, w) == Running(t) /\ t \in MqReceivers /\ MqUsable /\ MqRecvBody(t, w)

MqRecvSchedule(t) == Reschedule(t, "mq_recv_wait", "mq_recv_woken") /\ UNCHANGED mqVars

MqRecvAgain(t) ==
  /\ At(t, "mq_recv_woken") /\ error[t] = "RT_EOK"
  /\ \E w \in MqRecomputed(mqTimeout[t]) : MqRecvBody(t, w)

(* The copy out, and the second critical section: the block is free again. *)
MqRecvFree(t) ==
  LET b == msg[t] IN
  /\ At(t, "mq_copy_out")
  /\ mqGot' = [mqGot EXCEPT ![t] = text[b]]
  /\ next' = [next EXCEPT ![b] = msgFree]
  /\ msgFree' = b
  /\ WakeSender
  /\ Goto(t, IF mqSenders # <<>> THEN "mq_post" ELSE "run")
  /\ UNCHANGED <<prio, cur, error, text, msgHead, msgTail, msgEntry, mqReceivers, mqAlive,
                 mqTimeout, msg, mqText>>

MqRecvFromIsr ==
  /\ MqUsable
  /\ TakeFirst(msgHead)
  /\ mqGot' = [mqGot EXCEPT ![MqIsr] = text[msgHead]]
  /\ next' = [next EXCEPT ![msgHead] = msgFree]
  /\ msgFree' = msgHead
  /\ WakeSender
  /\ UNCHANGED <<prio, error, pc, text, mqReceivers, mqAlive, mqTimeout, msg, mqText>>
  /\ IF mqSenders # <<>> THEN Dispatch ELSE UNCHANGED cur

(* Woken by its timeout, a reset or a detach: the call returns the error.  *)
MqFailed(t) ==
  /\ cur = t /\ pc[t] \in {"mq_send_woken", "mq_recv_woken"} /\ error[t] # "RT_EOK"
  /\ Goto(t, "run")
  /\ UNCHANGED <<stat, prio, cur, armed, error, mqVars>>

MqPostSchedule(t) == Reschedule(t, "mq_post", "run") /\ UNCHANGED mqVars
----------------------------------------------------------------------------
(* The blocks of a chain, from its first one.                              *)
ChainFrom(b, n) ==
  LET node[i \in 1 .. n] == IF i = 1 THEN b ELSE next[node[i - 1]]
  IN [i \in 1 .. n |-> node[i]]

Queued == ChainFrom(msgHead, msgEntry)

(* RT_IPC_CMD_RESET: both lists out with -RT_ERROR, and the messages one   *)
(* after the other to the free chain, so that the last is its first.       *)
MqReset(t) ==
  /\ Running(t) /\ MqUsable
  /\ WakeAll(mqReceivers \o mqSenders)
  /\ mqReceivers' = <<>> /\ mqSenders' = <<>>
  /\ next' = [b \in MsgBlock |->
                IF Occurs(Queued, b)
                  THEN IF b = msgHead THEN msgFree ELSE Queued[Position(Queued, b) - 1]
                  ELSE next[b]]
  /\ msgFree' = IF msgEntry = 0 THEN msgFree ELSE Queued[msgEntry]
  /\ msgHead' = NoBlock /\ msgTail' = NoBlock /\ msgEntry' = 0
  /\ Goto(t, "mq_post")
  /\ UNCHANGED <<prio, cur, text, mqAlive, mqTimeout, msg, mqText, mqGot>>

(* rt_mq_detach: the receivers, then the senders, thread by thread while   *)
(* none of them has a timer running, then the object goes.                 *)
MqDetach(t) ==
  /\ Running(t) /\ MqUsable
  /\ \A u \in armed : ~ Occurs(mqReceivers, u) /\ ~ Occurs(mqSenders, u)
  /\ Goto(t, "mq_drain_recv")
  /\ UNCHANGED <<stat, prio, cur, armed, error, mqVars>>

MqDrainTest(t) ==
  /\ cur = t
  /\ \/ pc[t] = "mq_drain_recv" /\ UNCHANGED mqAlive
        /\ Goto(t, IF mqReceivers # <<>> THEN "mq_drain_recv_one" ELSE "mq_drain_send")
     \/ pc[t] = "mq_drain_send" /\ mqSenders # <<>>
        /\ Goto(t, "mq_drain_send_one") /\ UNCHANGED mqAlive
     \/ pc[t] = "mq_drain_send" /\ mqSenders = <<>> /\ Goto(t, "run") /\ mqAlive' = FALSE
  /\ UNCHANGED <<stat, prio, cur, armed, error, chains, text, mqReceivers, mqSenders,
                 mqTimeout, msg, mqText, mqGot>>

MqDrainOne(t) ==
  LET q == IF pc[t] = "mq_drain_recv_one" THEN mqReceivers ELSE mqSenders IN
  /\ cur = t /\ pc[t] \in {"mq_drain_recv_one", "mq_drain_send_one"} /\ q # <<>>
  /\ Wake(Head(q))
  /\ error' = [error EXCEPT ![Head(q)] = "RT_ERROR"]
  /\ IF pc[t] = "mq_drain_recv_one"
       THEN mqReceivers' = Tail(q) /\ UNCHANGED mqSenders /\ Goto(t, "mq_drain_recv")
       ELSE mqSenders' = Tail(q) /\ UNCHANGED mqReceivers /\ Goto(t, "mq_drain_send")
  /\ UNCHANGED <<prio, cur, chains, text, mqAlive, mqTimeout, msg, mqText, mqGot>>

MqTimeoutOf(u) ==
  /\ TimeoutOf(u)
  /\ mqReceivers' = ListRemove(mqReceivers, u)
  /\ mqSenders' = ListRemove(mqSenders, u)
  /\ UNCHANGED <<chains, text, mqAlive, mqTimeout, msg, mqText, mqGot>>
----------------------------------------------------------------------------
MqNext ==
  \/ \E t \in Thread :
       \/ MqSendSchedule(t) \/ MqSendAgain(t) \/ MqSendLink(t)
       \/ MqRecvSchedule(t) \/ MqRecvAgain(t) \/ MqRecvFree(t)
       \/ MqFailed(t) \/ MqPostSchedule(t) \/ MqDrainTest(t) \/ MqDrainOne(t)
       \/ MqTimeoutOf(t) \/ MqReset(t) \/ MqDetach(t)
       \/ \E w \in MqWaits : MqRecv(t, w) \/ \E v \in Message : MqSend(t, v, w)
       \/ \E v \in Message : MqUrgentTake(t, v)
  \/ \E v \in Message : MqSendFromIsr(v)
  \/ MqRecvFromIsr
  \/ SliceEnd /\ UNCHANGED mqVars

MqSpec == MqInit /\ [][MqNext]_<<threadVars, mqVars>>
----------------------------------------------------------------------------
MqTypeOK ==
  /\ ThreadTypeOK(MqPlaces)
  /\ next \in [MsgBlock -> MsgBlock \union {NoBlock}]
  /\ text \in [MsgBlock -> Message \union {NoMessage}]
  /\ {msgHead, msgTail, msgFree} \subseteq MsgBlock \union {NoBlock}
  /\ msgEntry \in 0 .. Cardinality(MsgBlock)
  /\ mqReceivers \in Seq(Thread) /\ mqSenders \in Seq(Thread)
  /\ mqAlive \in BOOLEAN
  /\ mqTimeout \in [Thread -> MqWaits]
  /\ msg \in [Thread -> MsgBlock \union {NoBlock}]
  /\ mqText \in [Thread -> Message \union {NoMessage}]
  /\ mqGot \in [Thread \union {MqIsr} -> Message \union {NoMessage}]

(* Every block is in one place: in the queue, which runs from head to tail *)
(* in `entry' steps, in the free chain, or in the hands of the one thread  *)
(* that copies it; so a message under copy is in nobody else's reach and   *)
(* no block is lost, whatever runs between the two critical sections.      *)
Copying == {t \in Thread : pc[t] \in {"mq_copy_in", "mq_copy_urgent", "mq_copy_out"}}
Free == ChainFrom(msgFree, Cardinality(MsgBlock) - msgEntry - Cardinality(Copying))

BlocksInOnePlace ==
  LET queued == {Queued[i] : i \in 1 .. Len(Queued)}
      free == {Free[i] : i \in 1 .. Len(Free)}
      copied == {msg[t] : t \in Copying} IN
  /\ msgEntry + Cardinality(Copying) <= Cardinality(MsgBlock)
  /\ queued \union free \union copied = MsgBlock
  /\ IF msgEntry = 0 THEN msgHead = NoBlock /\ msgTail = NoBlock
     ELSE msgTail = Queued[msgEntry] /\ next[msgTail] = NoBlock
  /\ IF Free = <<>> THEN msgFree = NoBlock ELSE next[Free[Len(Free)]] = NoBlock

(* No lost wakeup: nobody waits for a message unless each message in the   *)
(* queue has a woken receiver on its way, nor for a block unless each free *)
(* block has a sender; the lists hold exactly the blocked threads.         *)
MqOnTheirWay(places) ==
  {t \in Thread : pc[t] \in places /\ stat[t] = "ready" /\ error[t] = "RT_EOK"}

MqNoLostWakeup ==
  /\ \A t \in Thread :
       /\ Occurs(mqReceivers, t)
            <=> stat[t] = "suspend" /\ pc[t] \in {"mq_recv_wait", "mq_recv_woken"}
       /\ Occurs(mqSenders, t)
            <=> stat[t] = "suspend" /\ pc[t] \in {"mq_send_wait", "mq_send_woken"}
  /\ mqReceivers # <<>>
       => msgEntry <= Cardinality(MqOnTheirWay({"mq_recv_wait", "mq_recv_woken"}))
  /\ mqSenders # <<>>
       => Len(Free) <= Cardinality(MqOnTheirWay({"mq_send_wait", "mq_send_woken"}))

(* The message queue implements the bounded queue with urgent messages: in *)
(* the order of their second critical sections, each message to one        *)
(* consumer, whole and unchanged.  A receiver has the message from the     *)
(* moment it takes the block; its buffer is filled later.                  *)
Messages == [i \in 1 .. msgEntry |-> text[Queued[i]]]
Delivered == [c \in Thread \union {MqIsr} |->
                IF c \in Thread /\ pc[c] = "mq_copy_out" THEN text[msg[c]] ELSE mqGot[c]]

Messaging == INSTANCE MessageQueue
  WITH Mail <- Message, NoMail <- NoMessage, Consumer <- Thread \union {MqIsr},
       Capacity <- Cardinality(MsgBlock), queue <- Messages, got <- Delivered

MqImplementsQueue == Messaging!UrgentSpec
=============================================================================
