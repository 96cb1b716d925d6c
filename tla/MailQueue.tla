------------------------------ MODULE MailQueue ------------------------------
(***************************************************************************)
(* What a mailbox promises: a bounded queue.  Mails come out in the order  *)
(* in which they went in, each to one consumer, and a reset loses them all *)
(* at once.  RtMailbox implements this with a ring and two wait lists.     *)
(***************************************************************************)
EXTENDS Naturals, Sequences

CONSTANTS Mail, NoMail, Consumer, Capacity

VARIABLES
  queue,   \* the mails in the box, oldest first
  got      \* consumer -> the last mail it was given

Init == queue = <<>> /\ got = [c \in Consumer |-> NoMail]

Put(v) == Len(queue) < Capacity /\ queue' = Append(queue, v) /\ UNCHANGED got

Get(c) ==
  /\ queue # <<>>
  /\ got' = [got EXCEPT ![c] = Head(queue)]
  /\ queue' = Tail(queue)

Clear == queue' = <<>> /\ UNCHANGED got

Next == (\E v \in Mail : Put(v)) \/ (\E c \in Consumer : Get(c)) \/ Clear

Spec == Init /\ [][Next]_<<queue, got>>
=============================================================================
