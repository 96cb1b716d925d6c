----------------------------- MODULE RtMailbox ------------------------------
(***************************************************************************)
(* A mailbox of ipc.c: rt_mb_send_wait and rt_mb_recv, which loop when the *)
(* slot or the mail they were woken for is gone, rt_mb_send and a          *)
(* non-blocking rt_mb_recv from an interrupt, RT_IPC_CMD_RESET and         *)
(* rt_mb_detach.                                                           *)
(***************************************************************************)
EXTENDS RtIpc

CONSTANTS
  Mail, NoMail,  \* the mails, and the content of a slot never written
  Isr,           \* the interrupt handler as a consumer
  Size,          \* mb->size
  Senders, Receivers   \* the threads that call rt_mb_send_wait and rt_mb_recv

ASSUME MailboxAssumption ==
  /\ NoMail \notin Mail /\ Isr \notin Thread
  /\ Size \in Nat \ {0}
  /\ Senders \subseteq Thread /\ Receivers \subseteq Thread

VARIABLES
  pool,        \* mb->msg_pool
  entry,       \* mb->entry
  in, out,     \* mb->in_offset, mb->out_offset
  receivers,   \* mb->parent.suspend_thread
  senders,     \* mb->suspend_sender_thread
  alive,       \* the object is still in the object container
  timeout,     \* thread -> the timeout local of its call: "none" (0), "some"
               \* or "forever"
  mail,        \* thread -> the value it is sending
  got          \* consumer -> the last *value it was given

ring == <<pool, entry, in, out>>
boxVars == <<ring, receivers, senders, alive, timeout, mail, got>>
vars == <<threadVars, boxVars>>

Places == {"run", "recv_wait", "recv_woken", "send_wait", "send_woken", "post",
           "drain_recv", "drain_recv_one", "drain_send", "drain_send_one"}
Drains == {"drain_recv", "drain_recv_one", "drain_send", "drain_send_one"}

Init ==
  /\ ThreadInit
  /\ pool = [i \in 0 .. Size - 1 |-> NoMail]
  /\ entry = 0 /\ in = 0 /\ out = 0
  /\ receivers = <<>> /\ senders = <<>>
  /\ alive = TRUE
  /\ timeout = [t \in Thread |-> "none"]
  /\ mail = [t \in Thread |-> NoMail]
  /\ got = [c \in Thread \union {Isr} |-> NoMail]

Usable == alive /\ \A t \in Thread : pc[t] \notin Drains
Full == entry = Size

(* Mutant: the offset does not wrap at the end of the pool.                *)
AdvancedPastEnd(offset) == offset + 1

Advanced(offset) == IF offset + 1 >= Size THEN 0 ELSE offset + 1

(* After a wake-up a finite timeout is what is left of it: some or none.   *)
Recomputed(w) == IF w = "some" THEN {"none", "some"} ELSE {w}
----------------------------------------------------------------------------
(* rt_mb_send_wait                                                         *)

(* A free slot: the mail goes in and the first receiver is woken.          *)
PutMail(v) ==
  /\ ~ Full
  /\ pool' = [pool EXCEPT ![in] = v]
  /\ in' = Advanced(in)
  /\ entry' = entry + 1
  /\ IF receivers # <<>>
       THEN Wake(Head(receivers)) /\ receivers' = Tail(receivers)
       ELSE UNCHANGED <<stat, armed, receivers>>
  /\ UNCHANGED <<out, senders, alive, timeout, got>>

SendNow(t, v) ==
  /\ PutMail(v)
  /\ Goto(t, IF receivers # <<>> THEN "post" ELSE "run")
  /\ UNCHANGED <<prio, cur, error, mail>>

(* Full and no time to wait: -RT_EFULL.                                    *)
SendFull(t, w) ==
  /\ Full /\ w = "none"
  /\ error' = IF pc[t] = "run" THEN error ELSE [error EXCEPT ![t] = "RT_EOK"]
  /\ Goto(t, "run")
  /\ UNCHANGED <<stat, prio, cur, armed, boxVars>>

SendBlock(t, v, w) ==
  /\ Full /\ w # "none"
  /\ Block(t, w = "some", "send_wait")
  /\ senders' = Enqueued(senders, t)
  /\ timeout' = [timeout EXCEPT ![t] = w]
  /\ mail' = [mail EXCEPT ![t] = v]
  /\ UNCHANGED <<prio, cur, ring, receivers, alive, got>>

SendBody(t, v, w) == SendNow(t, v) \/ SendFull(t, w) \/ SendBlock(t, v, w)

Send(t, v, w) == Running(t) /\ t \in Senders /\ Usable /\ SendBody(t, v, w)

SendSchedule(t) == Reschedule(t, "send_wait", "send_woken") /\ UNCHANGED boxVars

SendAgain(t) ==
  /\ At(t, "send_woken") /\ error[t] = "RT_EOK"
  /\ \E w \in Recomputed(timeout[t]) : SendBody(t, mail[t], w)

SendFromIsr(v) ==
  /\ Usable /\ PutMail(v)
  /\ UNCHANGED <<prio, error, pc, mail>>
  /\ IF receivers # <<>> THEN Dispatch ELSE UNCHANGED cur
----------------------------------------------------------------------------
(* rt_mb_recv                                                              *)

(* Mutants: the mail is read behind the advanced offset; a sender is woken *)
(* only by the receive that finds the box full.                            *)
TakeNextMail(c) ==
  /\ entry > 0
  /\ got' = [got EXCEPT ![c] = pool[Advanced(out)]]
  /\ out' = Advanced(out)
  /\ entry' = entry - 1
  /\ IF senders # <<>>
       THEN Wake(Head(senders)) /\ senders' = Tail(senders)
       ELSE UNCHANGED <<stat, armed, senders>>
  /\ UNCHANGED <<pool, in, receivers, alive, timeout, mail>>

TakeMailWakingIfFull(c) ==
  /\ entry > 0
  /\ got' = [got EXCEPT ![c] = pool[out]]
  /\ out' = Advanced(out)
  /\ entry' = entry - 1
  /\ IF senders # <<>> /\ Full
       THEN Wake(Head(senders)) /\ senders' = Tail(senders)
       ELSE UNCHANGED <<stat, armed, senders>>
  /\ UNCHANGED <<pool, in, receivers, alive, timeout, mail>>

TakeMail(c) ==
  /\ entry > 0
  /\ got' = [got EXCEPT ![c] = pool[out]]
  /\ out' = Advanced(out)
  /\ entry' = entry - 1
  /\ IF senders # <<>>
       THEN Wake(Head(senders)) /\ senders' = Tail(senders)
       ELSE UNCHANGED <<stat, armed, senders>>
  /\ UNCHANGED <<pool, in, receivers, alive, timeout, mail>>

RecvNow(t) ==
  /\ TakeMail(t)
  /\ Goto(t, IF senders # <<>> THEN "post" ELSE "run")
  /\ UNCHANGED <<prio, cur, error>>

RecvEmpty(t, w) ==
  /\ entry = 0 /\ w = "none"
  /\ error' = IF pc[t] = "run" THEN error ELSE [error EXCEPT ![t] = "RT_ETIMEOUT"]
  /\ Goto(t, "run")
  /\ UNCHANGED <<stat, prio, cur, armed, boxVars>>

RecvBlock(t, w) ==
  /\ entry = 0 /\ w # "none"
  /\ Block(t, w = "some", "recv_wait")
  /\ receivers' = Enqueued(receivers, t)
  /\ timeout' = [timeout EXCEPT ![t] = w]
  /\ UNCHANGED <<prio, cur, ring, senders, alive, mail, got>>

RecvBody(t, w) == RecvNow(t) \/ RecvEmpty(t, w) \/ RecvBlock(t, w)

Recv(t, w) == Running(t) /\ t \in Receivers /\ Usable /\ RecvBody(t, w)

RecvSchedule(t) == Reschedule(t, "recv_wait", "recv_woken") /\ UNCHANGED boxVars

RecvAgain(t) ==
  /\ At(t, "recv_woken") /\ error[t] = "RT_EOK"
  /\ \E w \in Recomputed(timeout[t]) : RecvBody(t, w)

RecvFromIsr ==
  /\ Usable /\ TakeMail(Isr)
  /\ UNCHANGED <<prio, error, pc>>
  /\ IF senders # <<>> THEN Dispatch ELSE UNCHANGED cur

(* Woken by its timeout, a reset or a detach: the call returns the error.  *)
Failed(t) ==
  /\ cur = t /\ pc[t] \in {"send_woken", "recv_woken"} /\ error[t] # "RT_EOK"
  /\ Goto(t, "run")
  /\ UNCHANGED <<stat, prio, cur, armed, error, boxVars>>

PostSchedule(t) == Reschedule(t, "post", "run") /\ UNCHANGED boxVars
----------------------------------------------------------------------------
(* Mutant: the reset forgets out_offset.                                   *)
ResetKeepsOut(t) ==
  /\ Running(t) /\ Usable
  /\ WakeAll(receivers \o senders)
  /\ receivers' = <<>> /\ senders' = <<>>
  /\ entry' = 0 /\ in' = 0
  /\ Goto(t, "post")
  /\ UNCHANGED <<prio, cur, pool, out, alive, timeout, mail, got>>

(* RT_IPC_CMD_RESET: both lists out with -RT_ERROR, the ring empty.        *)
Reset(t) ==
  /\ Running(t) /\ Usable
  /\ WakeAll(receivers \o senders)
  /\ receivers' = <<>> /\ senders' = <<>>
  /\ entry' = 0 /\ in' = 0 /\ out' = 0
  /\ Goto(t, "post")
  /\ UNCHANGED <<prio, cur, pool, alive, timeout, mail, got>>

(* rt_mb_detach: rt_ipc_list_resume_all of the receivers, then of the      *)
(* senders, test and take of each thread in critical sections of their own *)
(* (RtSem shows what a timed waiter does to that), then the object goes.   *)
Detach(t) ==
  /\ Running(t) /\ Usable
  /\ \A u \in armed : ~ Occurs(receivers, u) /\ ~ Occurs(senders, u)
  /\ Goto(t, "drain_recv")
  /\ UNCHANGED <<stat, prio, cur, armed, error, boxVars>>

DrainTest(t) ==
  /\ cur = t
  /\ \/ pc[t] = "drain_recv" /\ UNCHANGED alive
        /\ Goto(t, IF receivers # <<>> THEN "drain_recv_one" ELSE "drain_send")
     \/ pc[t] = "drain_send" /\ senders # <<>>
        /\ Goto(t, "drain_send_one") /\ UNCHANGED alive
     \/ pc[t] = "drain_send" /\ senders = <<>> /\ Goto(t, "run") /\ alive' = FALSE
  /\ UNCHANGED <<stat, prio, cur, armed, error, ring, receivers, senders, timeout,
                 mail, got>>

DrainOne(t) ==
  LET q == IF pc[t] = "drain_recv_one" THEN receivers ELSE senders IN
  /\ cur = t /\ pc[t] \in {"drain_recv_one", "drain_send_one"} /\ q # <<>>
  /\ Wake(Head(q))
  /\ error' = [error EXCEPT ![Head(q)] = "RT_ERROR"]
  /\ IF pc[t] = "drain_recv_one"
       THEN receivers' = Tail(q) /\ UNCHANGED senders /\ Goto(t, "drain_recv")
       ELSE senders' = Tail(q) /\ UNCHANGED receivers /\ Goto(t, "drain_send")
  /\ UNCHANGED <<prio, cur, ring, alive, timeout, mail, got>>

Timeout(u) ==
  /\ TimeoutOf(u)
  /\ receivers' = ListRemove(receivers, u)
  /\ senders' = ListRemove(senders, u)
  /\ UNCHANGED <<ring, alive, timeout, mail, got>>
----------------------------------------------------------------------------
Waits == {"none", "some", "forever"}

Next ==
  \/ \E t \in Thread :
       \/ SendSchedule(t) \/ SendAgain(t) \/ RecvSchedule(t) \/ RecvAgain(t)
       \/ Failed(t) \/ PostSchedule(t) \/ DrainTest(t) \/ DrainOne(t)
       \/ Timeout(t) \/ Reset(t) \/ Detach(t)
       \/ \E w \in Waits : Recv(t, w) \/ \E v \in Mail : Send(t, v, w)
  \/ \E v \in Mail : SendFromIsr(v)
  \/ RecvFromIsr
  \/ SliceEnd /\ UNCHANGED boxVars

Spec == Init /\ [][Next]_vars
----------------------------------------------------------------------------
TypeOK ==
  /\ ThreadTypeOK(Places)
  /\ pool \in [0 .. Size - 1 -> Mail \union {NoMail}]
  /\ entry \in 0 .. Size
  /\ in \in 0 .. Size - 1 /\ out \in 0 .. Size - 1
  /\ receivers \in Seq(Thread) /\ senders \in Seq(Thread)
  /\ alive \in BOOLEAN
  /\ timeout \in [Thread -> Waits]
  /\ mail \in [Thread -> Mail \union {NoMail}]
  /\ got \in [Thread \union {Isr} -> Mail \union {NoMail}]

(* The two offsets and the count describe one ring: `entry' mails lie      *)
(* between out and in, also after a wrap, a reset and a lost race.         *)
RingConsistent ==
  /\ in = (out + entry) % Size
  /\ \A i \in 0 .. Size - 1 : i < entry => pool[(out + i) % Size] \in Mail

(* Each wait list holds exactly the threads blocked in that call, once.    *)
WaitersAreBlocked ==
  /\ NoDuplicates(receivers) /\ NoDuplicates(senders)
  /\ SortedByPriority(receivers) /\ SortedByPriority(senders)
  /\ \A t \in Thread :
       /\ Occurs(receivers, t)
            <=> stat[t] = "suspend" /\ pc[t] \in {"recv_wait", "recv_woken"}
       /\ Occurs(senders, t)
            <=> stat[t] = "suspend" /\ pc[t] \in {"send_wait", "send_woken"}

(* No lost wakeup.  A woken receiver must look at the box again, and       *)
(* another thread or an interrupt may have emptied it; still, nobody waits *)
(* for a mail unless every mail in the box has a woken receiver on its way *)
(* to it, and nobody waits for a slot unless every free slot has a sender. *)
OnTheirWay(places) ==
  {t \in Thread : pc[t] \in places /\ stat[t] = "ready" /\ error[t] = "RT_EOK"}

NoLostWakeup ==
  /\ WaitersAreBlocked
  /\ receivers # <<>> => entry <= Cardinality(OnTheirWay({"recv_wait", "recv_woken"}))
  /\ senders # <<>> => Size - entry <= Cardinality(OnTheirWay({"send_wait", "send_woken"}))

(* The mailbox implements the bounded queue: first in first out, each mail *)
(* to one consumer, none lost or repeated except by a reset.               *)
Contents == [i \in 1 .. entry |-> pool[(out + i - 1) % Size]]

Queue == INSTANCE MailQueue
           WITH queue <- Contents, Consumer <- Thread \union {Isr}, Capacity <- Size

ImplementsQueue == Queue!Spec
=============================================================================
