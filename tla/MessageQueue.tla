---------------------------- MODULE MessageQueue -----------------------------
(***************************************************************************)
(* What a message queue promises: the bounded queue of MailQueue with one  *)
(* more way in, an urgent message, which goes before all others.           *)
(* RtMsgQueue implements this with linked blocks that a call takes out of  *)
(* the queue while it copies.                                              *)
(***************************************************************************)
EXTENDS MailQueue

PutUrgent(v) ==
  /\ Len(queue) < Capacity
  /\ queue' = <<v>> \o queue
  /\ UNCHANGED got

UrgentSpec == Init /\ [][Next \/ \E v \in Mail : PutUrgent(v)]_<<queue, got>>
=============================================================================
