-------------------------- MODULE RtObjectsProofs --------------------------
(* The mailbox, the event, the memory pool and the message queue, for any  *)
(* number of threads, slots, flags, blocks and messages, and MCObjects,    *)
(* which lets one of them at a time run on the thread layer.               *)
EXTENDS MCObjects, RtIpcLemmas, SequenceTheorems
----------------------------------------------------------------------------
(***************************************************************************)
(* The mailbox for any size, any number of threads and mails: its pool,    *)
(* offsets and count are one ring, and RtMailbox implements MailQueue.     *)
(*                                                                         *)
(* What one put and one take do to the queue of the mails is worked out    *)
(* once, with a subtraction in the place of the % of Contents; then every  *)
(* action of RtMailbox is a put, a take, a reset or none of them.          *)
(***************************************************************************)
(* The part of the invariant that is about the ring alone.                 *)
RingTypeOK ==
  /\ pool \in [0 .. Size - 1 -> Mail \union {NoMail}]
  /\ entry \in 0 .. Size
  /\ in \in 0 .. Size - 1 /\ out \in 0 .. Size - 1

RingOK == RingTypeOK /\ RingConsistent

LEMMA Constants == Size \in Nat /\ Size > 0 /\ NoMail \notin Mail /\ Isr \notin Thread
BY MailboxAssumption

(* The offsets of the ring: one subtraction takes the place of %.          *)
LEMMA Wrapped ==
  ASSUME NEW x \in 0 .. 2 * Size - 1
  PROVE  x % Size = IF x < Size THEN x ELSE x - Size
<1>1. Size \in Nat \ {0}
  BY Constants
<1>2. CASE x < Size
  BY <1>1, <1>2
<1>3. CASE x >= Size
  <2>1. x \in Size .. 2 * Size - 1
    BY <1>1, <1>3
  <2> QED BY <1>1, <1>3, <2>1
<1> QED BY <1>1, <1>2, <1>3

(* The index of the i-th mail after the offset o.                          *)
Slot(o, i) == IF o + i < Size THEN o + i ELSE o + i - Size

LEMMA SlotFacts ==
  ASSUME NEW o \in 0 .. Size - 1
  PROVE  /\ \A i \in 0 .. Size : (o + i) % Size = Slot(o, i)
         /\ \A i \in 0 .. Size - 1 : Slot(o, i) \in 0 .. Size - 1
         /\ \A i, j \in 0 .. Size - 1 : Slot(o, i) = Slot(o, j) => i = j
<1>1. ASSUME NEW i \in 0 .. Size PROVE (o + i) % Size = Slot(o, i)
  <2>1. o + i \in 0 .. 2 * Size - 1
    BY Constants
  <2>2. (o + i) % Size = IF o + i < Size THEN o + i ELSE o + i - Size
    BY <2>1, Wrapped, Constants
  <2> QED BY <2>2 DEF Slot
<1> QED BY <1>1, Constants DEF Slot

(* The mails in a box, without %.                                          *)
LEMMA ContentsFacts ==
  ASSUME NEW p, NEW e \in 0 .. Size, NEW o \in 0 .. Size - 1
  PROVE  /\ \A i \in 1 .. e : (o + i - 1) % Size = Slot(o, i - 1)
         /\ (\A i \in 0 .. Size - 1 : i < e => p[(o + i) % Size] \in Mail)
              <=> (\A i \in 1 .. e : p[Slot(o, i - 1)] \in Mail)
<1>1. \A i \in 0 .. Size : (o + i) % Size = Slot(o, i)
  BY SlotFacts
<1>2. ASSUME NEW i \in 1 .. e PROVE (o + i - 1) % Size = Slot(o, i - 1)
  <2>1. i - 1 \in 0 .. Size /\ o + (i - 1) = o + i - 1
    BY Constants
  <2> QED BY ONLY <1>1, <2>1
<1>3. ASSUME \A i \in 0 .. Size - 1 : i < e => p[(o + i) % Size] \in Mail,
             NEW i \in 1 .. e
      PROVE  p[Slot(o, i - 1)] \in Mail
  <2>1. i - 1 \in 0 .. Size - 1 /\ i - 1 < e /\ i - 1 \in 0 .. Size
    BY Constants
  <2> QED BY <1>1, <1>3, <2>1
<1>4. ASSUME \A i \in 1 .. e : p[Slot(o, i - 1)] \in Mail,
             NEW i \in 0 .. Size - 1, i < e
      PROVE  p[(o + i) % Size] \in Mail
  <2>1. i + 1 \in 1 .. e /\ (i + 1) - 1 = i /\ i \in 0 .. Size
    BY <1>4, Constants
  <2>2. p[Slot(o, (i + 1) - 1)] \in Mail
    BY <1>4, <2>1
  <2> QED BY <1>1, <2>1, <2>2
<1> QED BY <1>2, <1>3, <1>4

(* What the ring holds, as a sequence.                                     *)
LEMMA RingFacts ==
  RingOK <=> /\ RingTypeOK /\ in = Slot(out, entry)
             /\ \A i \in 1 .. entry : pool[Slot(out, i - 1)] \in Mail
<1>1. RingTypeOK => (out + entry) % Size = Slot(out, entry)
  BY SlotFacts DEF RingTypeOK
<1> QED BY <1>1, ContentsFacts DEF RingOK, RingConsistent, RingTypeOK

LEMMA ContentsSeq ==
  ASSUME RingOK
  PROVE  /\ Contents = [i \in 1 .. entry |-> pool[Slot(out, i - 1)]]
         /\ Contents \in Seq(Mail) /\ Len(Contents) = entry
<1>1. Contents = [i \in 1 .. entry |-> pool[Slot(out, i - 1)]]
  <2>1. \A i \in 1 .. entry : (out + i - 1) % Size = Slot(out, i - 1)
    BY ContentsFacts DEF RingOK, RingTypeOK
  <2> QED BY <2>1 DEF Contents
<1>2. entry \in Nat
  BY Constants DEF RingOK, RingTypeOK
<1> QED BY <1>1, <1>2, RingFacts

(* A mail that goes in comes to the end of the queue.                      *)
LEMMA PutRing ==
  ASSUME RingOK, NEW v \in Mail, ~ Full,
         pool' = [pool EXCEPT ![in] = v], in' = Advanced(in), entry' = entry + 1,
         out' = out
  PROVE  RingOK' /\ Contents' = Append(Contents, v)
<1>1. entry < Size /\ entry \in 0 .. Size - 1
  BY Constants DEF Full, RingOK, RingTypeOK
<1>2. in = Slot(out, entry) /\ \A i \in 1 .. entry : pool[Slot(out, i - 1)] \in Mail
  BY RingFacts
<1>3. /\ \A i \in 0 .. Size - 1 : Slot(out, i) \in 0 .. Size - 1
      /\ \A i, j \in 0 .. Size - 1 : Slot(out, i) = Slot(out, j) => i = j
  BY SlotFacts DEF RingOK, RingTypeOK
<1>4. RingTypeOK'
  BY <1>1, Constants DEF RingOK, RingTypeOK, Advanced
<1>5. in' = Slot(out', entry')
  BY <1>1, <1>2, Constants DEF Slot, Advanced, RingOK, RingTypeOK
<1>6. \A i \in 1 .. entry + 1 :
        pool'[Slot(out, i - 1)] = IF i = entry + 1 THEN v ELSE pool[Slot(out, i - 1)]
  <2> TAKE i \in 1 .. entry + 1
  <2>1. i - 1 \in 0 .. Size - 1
    BY <1>1, Constants
  <2>2. Slot(out, i - 1) \in 0 .. Size - 1 /\ (Slot(out, i - 1) = in <=> i - 1 = entry)
    BY <1>1, <1>2, <1>3, <2>1
  <2> QED BY <1>1, <2>1, <2>2, Constants DEF RingOK, RingTypeOK
<1>7. \A i \in 1 .. entry' : pool'[Slot(out', i - 1)] \in Mail
  BY <1>1, <1>2, <1>6, Constants
<1>8. RingOK'
  <2>1. (out' + entry') % Size = Slot(out', entry')
    BY <1>4, SlotFacts DEF RingTypeOK
  <2>2. \A i \in 0 .. Size - 1 : i < entry' => pool'[(out' + i) % Size] \in Mail
    BY <1>4, <1>7, ContentsFacts DEF RingTypeOK
  <2> QED BY <1>4, <1>5, <2>1, <2>2 DEF RingOK, RingConsistent
<1>9. Contents' = [i \in 1 .. entry + 1 |-> pool'[Slot(out, i - 1)]]
  <2>1. \A i \in 1 .. entry' : (out' + i - 1) % Size = Slot(out', i - 1)
    BY <1>4, ContentsFacts DEF RingTypeOK
  <2> QED BY <2>1 DEF Contents
<1>10. /\ Contents = [i \in 1 .. entry |-> pool[Slot(out, i - 1)]]
       /\ Contents \in Seq(Mail) /\ Len(Contents) = entry
  BY ContentsSeq
<1> DEFINE q == Append(Contents, v)
<1>11. q \in Seq(Mail) /\ Len(q) = entry + 1
  <2>1. \A c \in Seq(Mail) : Append(c, v) \in Seq(Mail) /\ Len(Append(c, v)) = Len(c) + 1
    OBVIOUS
  <2> QED BY <1>10, <2>1, Zenon
<1>12. \A i \in 1 .. entry + 1 : q[i] = pool'[Slot(out, i - 1)]
  BY <1>1, <1>6, <1>10, AppendProperties
<1> HIDE DEF q
<1>13. q = [i \in 1 .. entry + 1 |-> pool'[Slot(out, i - 1)]]
  BY <1>1, <1>11, <1>12
<1> QED BY <1>8, <1>9, <1>13 DEF q

(* The mail that is read is the first of the queue, and the others stay.   *)
LEMMA TakeRing ==
  ASSUME RingOK, entry > 0,
         out' = Advanced(out), entry' = entry - 1, UNCHANGED <<pool, in>>
  PROVE  /\ RingOK' /\ Contents # <<>> /\ pool[out] = Head(Contents) /\ pool[out] \in Mail
         /\ Contents' = Tail(Contents)
<1>1. entry \in 1 .. Size /\ out \in 0 .. Size - 1
  BY DEF RingOK, RingTypeOK
<1>2. in = Slot(out, entry) /\ \A i \in 1 .. entry : pool[Slot(out, i - 1)] \in Mail
  BY RingFacts
<1>3. \A i \in 1 .. entry : Slot(out', i - 1) = Slot(out, i)
  BY <1>1, Constants DEF Slot, Advanced
<1>4. RingTypeOK'
  BY <1>1, Constants DEF RingOK, RingTypeOK, Advanced
<1>5. in' = Slot(out', entry')
  BY <1>1, <1>2, Constants DEF Slot, Advanced
<1>6. \A i \in 1 .. entry' : pool'[Slot(out', i - 1)] \in Mail
  <2> TAKE i \in 1 .. entry'
  <2>1. i \in 1 .. entry /\ i + 1 \in 1 .. entry /\ (i + 1) - 1 = i
    BY <1>1, Constants
  <2>2. pool[Slot(out, (i + 1) - 1)] \in Mail
    BY <1>2, <2>1
  <2> QED BY <1>3, <2>1, <2>2
<1>7. RingOK'
  <2>1. (out' + entry') % Size = Slot(out', entry')
    BY <1>4, SlotFacts DEF RingTypeOK
  <2>2. \A i \in 0 .. Size - 1 : i < entry' => pool'[(out' + i) % Size] \in Mail
    BY <1>4, <1>6, ContentsFacts DEF RingTypeOK
  <2> QED BY <1>4, <1>5, <2>1, <2>2 DEF RingOK, RingConsistent
<1>8. Contents' = [i \in 1 .. entry - 1 |-> pool[Slot(out', i - 1)]]
  <2>1. \A i \in 1 .. entry' : (out' + i - 1) % Size = Slot(out', i - 1)
    BY <1>4, ContentsFacts DEF RingTypeOK
  <2> QED BY <2>1 DEF Contents
<1>9. /\ Contents = [i \in 1 .. entry |-> pool[Slot(out, i - 1)]]
      /\ Contents \in Seq(Mail) /\ Len(Contents) = entry
  BY ContentsSeq
<1>10. Contents # <<>> /\ Head(Contents) = Contents[1]
  BY <1>1, <1>9, Constants
<1>11. pool[out] = Contents[1] /\ Contents[1] \in Mail
  <2>1. Slot(out, 0) = out /\ 1 \in 1 .. entry /\ 1 - 1 = 0
    BY <1>1, Constants DEF Slot
  <2> QED BY <1>2, <1>9, <2>1
<1> DEFINE q == Tail(Contents)
<1>12. /\ q \in Seq(Mail) /\ Len(q) = entry - 1
       /\ \A i \in 1 .. entry - 1 : q[i] = Contents[i + 1]
  <2>1. \A c \in Seq(Mail) : c # <<>> =>
          /\ Tail(c) \in Seq(Mail) /\ Len(Tail(c)) = Len(c) - 1
          /\ \A i \in 1 .. Len(c) - 1 : Tail(c)[i] = c[i + 1]
    OBVIOUS
  <2> QED BY <1>9, <1>10, <2>1, Zenon
<1>13. \A i \in 1 .. entry - 1 : Contents[i + 1] = pool[Slot(out', i - 1)]
  <2> TAKE i \in 1 .. entry - 1
  <2>1. i \in 1 .. entry /\ i + 1 \in 1 .. entry /\ (i + 1) - 1 = i
    BY <1>1, Constants
  <2> QED BY <1>3, <1>9, <2>1
<1> HIDE DEF q
<1>14. q = [i \in 1 .. entry - 1 |-> pool[Slot(out', i - 1)]]
  BY <1>1, <1>12, <1>13, Constants
<1> QED BY <1>7, <1>8, <1>10, <1>11, <1>14 DEF q

(* The empty ring, of rt_mb_init and of a reset.                           *)
LEMMA EmptyRing ==
  ASSUME NEW p \in [0 .. Size - 1 -> Mail \union {NoMail}]
  PROVE  /\ pool = p /\ entry = 0 /\ in = 0 /\ out = 0 => RingOK /\ Contents = <<>>
         /\ pool' = p /\ entry' = 0 /\ in' = 0 /\ out' = 0 => RingOK' /\ Contents' = <<>>
<1>1. 0 % Size = 0 /\ 0 + 0 = 0 /\ 0 \in 0 .. Size /\ 0 \in 0 .. Size - 1
  BY Constants
<1>2. \A i \in 0 .. Size - 1 : ~ (i < 0)
  BY Constants
<1> QED BY <1>1, <1>2 DEF RingOK, RingTypeOK, RingConsistent, Contents
----------------------------------------------------------------------------
(* Every step of the mailbox is one of the queue or leaves it alone.  A    *)
(* sender that was woken tries again with the mail it went to sleep with,  *)
(* so the induction keeps that mail.                                       *)

SendersHoldMail ==
  /\ pc \in [Thread -> Places]
  /\ \A t \in Thread : pc[t] \in {"send_wait", "send_woken"} => mail[t] \in Mail
  /\ mail \in [Thread -> Mail \union {NoMail}]

QueueInv == RingOK /\ SendersHoldMail

QueueStep == RingOK' /\ [Queue!Next]_<<Contents, got>>

(* The critical sections that put a mail in and take one out.              *)
LEMMA PutStep ==
  ASSUME RingOK, NEW v \in Mail, PutMail(v)
  PROVE  QueueStep
<1>1. RingOK' /\ Contents' = Append(Contents, v)
  BY PutRing DEF PutMail
<1>2. Len(Contents) < Size
  BY ContentsSeq, Constants DEF PutMail, Full, RingOK, RingTypeOK
<1>3. Queue!Put(v)
  BY <1>1, <1>2 DEF Queue!Put, PutMail
<1> QED BY <1>1, <1>3 DEF QueueStep, Queue!Next

LEMMA TakeStep ==
  ASSUME RingOK, NEW c \in Thread \union {Isr}, TakeMail(c)
  PROVE  QueueStep
<1>1. /\ RingOK' /\ Contents # <<>> /\ pool[out] = Head(Contents)
      /\ Contents' = Tail(Contents)
  BY TakeRing DEF TakeMail
<1>2. Queue!Get(c)
  BY <1>1 DEF Queue!Get, TakeMail
<1> QED BY <1>1, <1>2 DEF QueueStep, Queue!Next

LEMMA QuietStep ==
  ASSUME RingOK, UNCHANGED <<ring, got>>
  PROVE  QueueStep
BY DEF QueueStep, RingOK, RingTypeOK, RingConsistent, Contents, ring

LEMMA ResetStep ==
  ASSUME RingOK, NEW t \in Thread, Reset(t)
  PROVE  QueueStep
<1>1. pool' \in [0 .. Size - 1 -> Mail \union {NoMail}] /\ entry' = 0 /\ in' = 0 /\ out' = 0
  BY DEF Reset, RingOK, RingTypeOK
<1>2. RingOK' /\ Contents' = <<>>
  BY <1>1, EmptyRing
<1>3. Queue!Clear
  BY <1>2 DEF Queue!Clear, Reset
<1> QED BY <1>2, <1>3 DEF QueueStep, Queue!Next

(* The calls: a send is a put or blocks or fails, a receive likewise.      *)
LEMMA SendBodyStep ==
  ASSUME QueueInv, NEW t \in Thread, NEW v \in Mail, NEW w, SendBody(t, v, w)
  PROVE  QueueStep /\ SendersHoldMail'
<1> USE DEF QueueInv
<1>1. CASE SendNow(t, v)
  <2>1. QueueStep
    BY <1>1, PutStep DEF SendNow
  <2>2. SendersHoldMail'
    BY <1>1 DEF SendersHoldMail, SendNow, Goto, Places
  <2> QED BY <2>1, <2>2
<1>2. CASE SendFull(t, w)
  <2>1. QueueStep
    BY <1>2, QuietStep DEF SendFull, boxVars
  <2>2. SendersHoldMail'
    BY <1>2 DEF SendersHoldMail, SendFull, Goto, Places, boxVars
  <2> QED BY <2>1, <2>2
<1>3. CASE SendBlock(t, v, w)
  <2>1. QueueStep
    BY <1>3, QuietStep DEF SendBlock
  <2>2. SendersHoldMail'
    BY <1>3 DEF SendersHoldMail, SendBlock, Block, Goto, Places
  <2> QED BY <2>1, <2>2
<1> QED BY <1>1, <1>2, <1>3 DEF SendBody

LEMMA RecvBodyStep ==
  ASSUME QueueInv, NEW t \in Thread, NEW w, RecvBody(t, w)
  PROVE  QueueStep /\ SendersHoldMail'
<1> USE DEF QueueInv
<1>1. CASE RecvNow(t)
  <2>1. QueueStep
    BY <1>1, TakeStep DEF RecvNow
  <2>2. SendersHoldMail'
    BY <1>1 DEF SendersHoldMail, RecvNow, TakeMail, Goto, Places
  <2> QED BY <2>1, <2>2
<1>2. CASE RecvEmpty(t, w)
  <2>1. QueueStep
    BY <1>2, QuietStep DEF RecvEmpty, boxVars
  <2>2. SendersHoldMail'
    BY <1>2 DEF SendersHoldMail, RecvEmpty, Goto, Places, boxVars
  <2> QED BY <2>1, <2>2
<1>3. CASE RecvBlock(t, w)
  <2>1. QueueStep
    BY <1>3, QuietStep DEF RecvBlock
  <2>2. SendersHoldMail'
    BY <1>3 DEF SendersHoldMail, RecvBlock, Block, Goto, Places
  <2> QED BY <2>1, <2>2
<1> QED BY <1>1, <1>2, <1>3 DEF RecvBody

(* The steps that touch no mail.                                           *)
Quiet(t) ==
  \/ SendSchedule(t) \/ RecvSchedule(t) \/ PostSchedule(t) \/ Failed(t)
  \/ Detach(t) \/ DrainTest(t) \/ DrainOne(t) \/ Timeout(t)

LEMMA QuietCallStep ==
  ASSUME QueueInv, NEW t \in Thread, Quiet(t)
  PROVE  QueueStep /\ SendersHoldMail'
<1> USE DEF QueueInv
<1>1. UNCHANGED <<ring, got, mail>>
  BY DEF Quiet, SendSchedule, RecvSchedule, PostSchedule, Failed, Detach, DrainTest,
         DrainOne, Timeout, boxVars
<1>2. /\ pc' \in [Thread -> Places]
      /\ \A u \in Thread : pc'[u] \in {"send_wait", "send_woken"}
                             => pc[u] \in {"send_wait", "send_woken"}
  <2>1. pc \in [Thread -> Places]
    BY DEF SendersHoldMail
  <2>2. \/ UNCHANGED pc
        \/ \E place \in Places \ {"send_wait", "send_woken"} : Goto(t, place)
        \/ pc[t] = "send_wait" /\ Goto(t, "send_woken")
    BY DEF Quiet, SendSchedule, RecvSchedule, PostSchedule, Failed, Detach, DrainTest,
           DrainOne, Timeout, TimeoutOf, Reschedule, At, Places
  <2> QED BY <2>1, <2>2 DEF Goto, Places
<1>3. QueueStep
  BY <1>1, QuietStep
<1>4. SendersHoldMail'
  BY <1>1, <1>2 DEF SendersHoldMail
<1> QED BY <1>3, <1>4

LEMMA NextStep ==
  ASSUME QueueInv, [Next]_vars
  PROVE  QueueStep /\ SendersHoldMail'
<1> USE DEF QueueInv
<1>1. ASSUME NEW t \in Thread, NEW w \in Waits, NEW v \in Mail, Send(t, v, w)
      PROVE  QueueStep /\ SendersHoldMail'
  BY <1>1, SendBodyStep DEF Send
<1>2. ASSUME NEW t \in Thread, NEW w \in Waits, Recv(t, w)
      PROVE  QueueStep /\ SendersHoldMail'
  BY <1>2, RecvBodyStep DEF Recv
<1>3. ASSUME NEW t \in Thread, SendAgain(t)
      PROVE  QueueStep /\ SendersHoldMail'
  <2>1. mail[t] \in Mail
    BY <1>3 DEF SendersHoldMail, SendAgain, At
  <2>2. PICK w \in Recomputed(timeout[t]) : SendBody(t, mail[t], w)
    BY <1>3 DEF SendAgain
  <2> QED BY <2>1, <2>2, SendBodyStep
<1>4. ASSUME NEW t \in Thread, RecvAgain(t)
      PROVE  QueueStep /\ SendersHoldMail'
  BY <1>4, RecvBodyStep DEF RecvAgain
<1>5. ASSUME NEW t \in Thread, Reset(t)
      PROVE  QueueStep /\ SendersHoldMail'
  <2>1. SendersHoldMail'
    BY <1>5 DEF Reset, SendersHoldMail, Goto, Places
  <2> QED BY <1>5, <2>1, ResetStep
<1>6. ASSUME NEW t \in Thread, Quiet(t)
      PROVE  QueueStep /\ SendersHoldMail'
  BY <1>6, QuietCallStep
<1>7. ASSUME NEW v \in Mail, SendFromIsr(v)
      PROVE  QueueStep /\ SendersHoldMail'
  <2>1. SendersHoldMail'
    BY <1>7 DEF SendFromIsr, SendersHoldMail
  <2> QED BY <1>7, <2>1, PutStep DEF SendFromIsr
<1>8. CASE RecvFromIsr
  <2>1. SendersHoldMail'
    BY <1>8 DEF RecvFromIsr, TakeMail, SendersHoldMail
  <2> QED BY <1>8, <2>1, TakeStep DEF RecvFromIsr
<1>9. CASE SliceEnd /\ UNCHANGED boxVars
  <2>1. UNCHANGED <<ring, got, mail, pc>>
    BY <1>9 DEF SliceEnd, boxVars
  <2> QED BY <2>1, QuietStep DEF SendersHoldMail
<1>10. CASE UNCHANGED vars
  <2>1. UNCHANGED <<ring, got, mail, pc>>
    BY <1>10 DEF vars, boxVars, threadVars
  <2> QED BY <2>1, QuietStep DEF SendersHoldMail
<1> QED
  BY <1>1, <1>2, <1>3, <1>4, <1>5, <1>6, <1>7, <1>8, <1>9, <1>10, Zenon DEF Next, Quiet

LEMMA InitStep == Init => QueueInv /\ Queue!Init
<1> SUFFICES ASSUME Init PROVE QueueInv /\ Queue!Init
  OBVIOUS
<1>1. pool \in [0 .. Size - 1 -> Mail \union {NoMail}] /\ entry = 0 /\ in = 0 /\ out = 0
  BY DEF Init
<1>2. RingOK /\ Contents = <<>>
  BY <1>1, EmptyRing
<1>3. SendersHoldMail
  BY DEF Init, ThreadInit, SendersHoldMail, Places
<1>4. Queue!Init
  BY <1>2 DEF Init, Queue!Init
<1> QED BY <1>2, <1>3, <1>4 DEF QueueInv

(* The offsets, the count and the pool of a mailbox always describe one    *)
(* ring: in_offset is where the next mail goes and the slots from          *)
(* out_offset on hold the mails (rt_mb_send_wait, rt_mb_recv, rt_mb_control). *)
THEOREM RingStaysConsistent == Spec => []RingConsistent
<1>1. Init => QueueInv
  BY InitStep
<1>2. QueueInv /\ [Next]_vars => QueueInv'
  BY NextStep DEF QueueStep, QueueInv
<1>3. QueueInv => RingConsistent
  BY DEF QueueInv, RingOK
<1> QED BY <1>1, <1>2, <1>3, PTL DEF Spec

(* A mailbox of any size is a first-in-first-out queue of that capacity:   *)
(* each step of its calls, its interrupt callers and its time-outs is one  *)
(* Put, Get or Clear of MailQueue, or leaves the queue and what the        *)
(* consumers were given as they are.                                       *)
THEOREM MailboxIsQueue == Spec => ImplementsQueue
<1>1. Init => QueueInv /\ Queue!Init
  BY InitStep
<1>2. QueueInv /\ [Next]_vars => QueueInv' /\ [Queue!Next]_<<Contents, got>>
  BY NextStep DEF QueueStep, QueueInv
<1> QED BY <1>1, <1>2, PTL DEF Spec, ImplementsQueue, Queue!Spec
----------------------------------------------------------------------------
(* No wake-up of a mailbox is lost.  Beside the ring, the invariant says   *)
(* where the threads are: in a wait list exactly while they are blocked    *)
(* there, and each mail or free slot is covered by a woken thread as long  *)
(* as somebody waits.                                                      *)
Entering == {"send_wait", "recv_wait"}
Receiving == {"recv_wait", "recv_woken"}
Sending == {"send_wait", "send_woken"}

LocalsOK ==
  /\ alive \in BOOLEAN
  /\ timeout \in [Thread -> Waits]
  /\ mail \in [Thread -> Mail \union {NoMail}]
  /\ got \in [Thread \union {Isr} -> Mail \union {NoMail}]

BoxWaiters ==
  /\ receivers \in Seq(Thread) /\ senders \in Seq(Thread)
  /\ WaitersAreBlocked

Covered ==
  /\ receivers # <<>> => entry <= Cardinality(Coming(Receiving))
  /\ senders # <<>> => Size - entry <= Cardinality(Coming(Sending))

Threads == ThreadTypeOK(Places) /\ Coherent(Entering)

BoxInv == Threads /\ LocalsOK /\ BoxWaiters /\ Covered

LEMMA BoxInvMeans ==
  ASSUME BoxInv, RingOK
  PROVE  TypeOK /\ NoLostWakeup
<1>1. \A S : OnTheirWay(S) = Coming(S)
  BY DEF OnTheirWay, Coming, Comes
<1>2. NoLostWakeup
  BY <1>1 DEF BoxInv, BoxWaiters, Covered, NoLostWakeup, Receiving, Sending
<1> QED BY <1>2 DEF BoxInv, Threads, LocalsOK, BoxWaiters, RingOK, RingTypeOK, TypeOK

LEMMA EntryType == RingOK => entry \in 0 .. Size /\ Size \in Nat
BY Constants DEF RingOK, RingTypeOK

(* The caller of a put or a take goes on; an interrupt has none.           *)
Mover(t) == cur = t /\ \E to \in {"post", "run"} : Goto(t, to)

MovesOn(places) ==
  \/ pc' = pc
  \/ \E t \in Thread :
       Mover(t) /\ (pc[t] = "run" \/ (pc[t] \in places /\ error[t] = "RT_EOK"))

LEMMA MoverFacts ==
  ASSUME BoxInv, MovesOn({"send_woken"}) \/ MovesOn({"recv_woken"})
  PROVE  /\ pc' \in [Thread -> Places]
         /\ \A t \in Thread : pc'[t] # pc[t] => /\ stat[t] = "ready" /\ pc'[t] \in {"post", "run"}
                                               /\ pc[t] \in {"run", "send_woken", "recv_woken"}
BY DEF MovesOn, Mover, Goto, BoxInv, Threads, ThreadTypeOK, Coherent, Places, Entering

(* The list at which nobody is woken: whoever was on the way to what the   *)
(* caller took or filled was the caller.                                   *)
LEMMA OtherListFacts ==
  ASSUME BoxInv, NEW q, NEW S, NEW S1, NEW T, WaitsAt(q, S), MovesOn(S1), UNCHANGED error,
         \/ S = Sending /\ T = Receiving /\ S1 = {"send_woken"}
         \/ S = Receiving /\ T = Sending /\ S1 = {"recv_woken"},
         \A t \in Thread : stat'[t] # stat[t] => pc[t] \in T,
         \A t \in Thread : stat[t] = "ready" => stat'[t] = "ready"
  PROVE  /\ \A t \in Thread : Occurs(q, t) <=> stat'[t] = "suspend" /\ pc'[t] \in S
         /\ Cardinality(Coming(S)') >= Cardinality(Coming(S)) - 1
<1> USE DEF WaitsAt
<1>1. /\ pc' \in [Thread -> Places]
      /\ \A t \in Thread : pc'[t] # pc[t] => /\ stat[t] = "ready" /\ pc'[t] \in {"post", "run"}
                                            /\ pc[t] \in {"run", "send_woken", "recv_woken"}
  BY MoverFacts
<1>2. \A t \in Thread : Occurs(q, t) <=> stat'[t] = "suspend" /\ pc'[t] \in S
  BY <1>1 DEF Receiving, Sending
<1>3. CASE \E t \in Thread : Mover(t) /\ pc[t] \in S1 /\ error[t] = "RT_EOK"
  <2>1. PICK t \in Thread : Mover(t) /\ pc[t] \in S1 /\ error[t] = "RT_EOK"
    BY <1>3
  <2>2. stat[t] = "ready" /\ stat'[t] = "ready"
    BY <2>1 DEF Mover, BoxInv, Threads, Coherent, Entering
  <2>3. pc'[t] \notin S /\ pc[t] \in S /\ \A u \in Thread : u # t => pc'[u] = pc[u]
    BY <2>1 DEF Mover, Goto, BoxInv, Threads, ThreadTypeOK, Receiving, Sending
  <2>4. Comes(t, S) /\ ~ Comes(t, S)' /\ \A u \in Thread : u # t => (Comes(u, S)' <=> Comes(u, S))
    BY <2>1, <2>2, <2>3 DEF Comes, Receiving, Sending
  <2>5. Cardinality(Coming(S)') = Cardinality(Coming(S)) - 1
    BY <2>4, OneLessComing
  <2> QED BY <1>2, <2>5, ComingFinite
<1>4. CASE ~ \E t \in Thread : Mover(t) /\ pc[t] \in S1 /\ error[t] = "RT_EOK"
  <2>1. \A u \in Thread : pc'[u] \in S <=> pc[u] \in S
    <3>1. CASE pc' = pc
      BY <3>1
    <3>2. CASE \E t \in Thread : Mover(t) /\ pc[t] = "run"
      <4>1. PICK t \in Thread : Mover(t) /\ pc[t] = "run"
        BY <3>2
      <4>2. pc'[t] \in {"post", "run"} /\ \A u \in Thread : u # t => pc'[u] = pc[u]
        BY <4>1 DEF Mover, Goto, BoxInv, Threads, ThreadTypeOK
      <4>3. "run" \notin S /\ "post" \notin S
        BY DEF Receiving, Sending
      <4> QED BY <4>1, <4>2, <4>3
    <3> QED BY <1>4, <3>1, <3>2 DEF MovesOn
  <2>2. Coming(S)' = Coming(S)
    <3>1. ASSUME NEW u \in Thread PROVE Comes(u, S)' <=> Comes(u, S)
      BY <2>1 DEF Comes, Receiving, Sending
    <3> QED BY <3>1, SameComing
  <2> QED BY <1>2, <2>2, ComingFinite
<1> QED BY <1>3, <1>4

LEMMA PutWaiters ==
  ASSUME BoxInv, RingOK, NEW v, PutMail(v), UNCHANGED <<prio, error>>,
         MovesOn({"send_woken"})
  PROVE  /\ pc' \in [Thread -> Places] /\ stat' \in [Thread -> {"ready", "suspend"}]
         /\ armed' \subseteq Thread /\ \A t \in armed' : stat'[t] = "suspend"
         /\ \A t \in Thread : stat[t] = "ready" => stat'[t] = "ready"
         /\ BoxWaiters' /\ Covered'
<1> USE DEF BoxInv, Threads, BoxWaiters
<1>1. /\ pc' \in [Thread -> Places]
      /\ \A t \in Thread : pc'[t] \in Receiving <=> pc[t] \in Receiving
  BY MoverFacts DEF MovesOn, Mover, Goto, Receiving, ThreadTypeOK
<1>2. WaitsAt(receivers, Receiving) /\ WaitsAt(senders, Sending)
      /\ SortedByPriority(receivers) /\ SortedByPriority(senders)
  BY DEF WaitersAreBlocked, Receiving, Sending, WaitsAt
<1>3. WakeOne(receivers, receivers') /\ ~ Full /\ entry' = entry + 1 /\ senders' = senders
  BY DEF PutMail, WakeOne
<1>4. /\ stat' \in [Thread -> {"ready", "suspend"}]
      /\ armed' \subseteq Thread /\ \A t \in armed' : stat'[t] = "suspend"
      /\ \A t \in Thread : stat'[t] # stat[t] => pc[t] \in Receiving
      /\ \A t \in Thread : stat[t] = "ready" => stat'[t] = "ready"
      /\ receivers' \in Seq(Thread) /\ NoDuplicates(receivers')
      /\ \A t \in Thread : Occurs(receivers', t) <=> stat'[t] = "suspend" /\ pc'[t] \in Receiving
      /\ Cardinality(Coming(Receiving)')
           = IF receivers # <<>> THEN Cardinality(Coming(Receiving)) + 1
             ELSE Cardinality(Coming(Receiving))
  BY <1>1, <1>2, <1>3, WakeOneFacts
<1>5. /\ \A t \in Thread : Occurs(senders, t) <=> stat'[t] = "suspend" /\ pc'[t] \in Sending
      /\ Cardinality(Coming(Sending)') >= Cardinality(Coming(Sending)) - 1
  BY <1>2, <1>4, OtherListFacts
<1>6. SortedByPriority(receivers)'
  <2>1. receivers' = receivers \/ (receivers # <<>> /\ receivers' = Tail(receivers))
    BY <1>3 DEF WakeOne
  <2>2. SortedByPriority(receivers) /\ (receivers # <<>> => SortedByPriority(Tail(receivers)))
    BY <1>2, TailSorted DEF WaitsAt
  <2> QED BY <2>1, <2>2 DEF SortedByPriority
<1>7. BoxWaiters'
  <2>1. SortedByPriority(senders)'
    BY <1>2, <1>3 DEF SortedByPriority
  <2> QED BY <1>2, <1>3, <1>4, <1>5, <1>6, <2>1 DEF WaitersAreBlocked, WaitsAt, Receiving, Sending
<1>8. Covered'
  <2>1. entry \in 0 .. Size /\ Size \in Nat
    BY EntryType
  <2>2. /\ Cardinality(Coming(Receiving)) \in Nat /\ Cardinality(Coming(Receiving)') \in Nat
        /\ Cardinality(Coming(Sending)) \in Nat /\ Cardinality(Coming(Sending)') \in Nat
    BY ComingFinite, ComingFiniteNext
  <2>3. receivers' # <<>> => receivers # <<>>
    BY <1>3 DEF WakeOne
  <2> QED BY <1>3, <1>4, <1>5, <2>1, <2>2, <2>3 DEF Covered
<1> QED BY <1>1, <1>4, <1>7, <1>8

LEMMA TakeWaiters ==
  ASSUME BoxInv, RingOK, NEW c, TakeMail(c), UNCHANGED <<prio, error>>,
         MovesOn({"recv_woken"})
  PROVE  /\ pc' \in [Thread -> Places] /\ stat' \in [Thread -> {"ready", "suspend"}]
         /\ armed' \subseteq Thread /\ \A t \in armed' : stat'[t] = "suspend"
         /\ \A t \in Thread : stat[t] = "ready" => stat'[t] = "ready"
         /\ BoxWaiters' /\ Covered'
<1> USE DEF BoxInv, Threads, BoxWaiters
<1>1. /\ pc' \in [Thread -> Places]
      /\ \A t \in Thread : pc'[t] \in Sending <=> pc[t] \in Sending
  BY MoverFacts DEF MovesOn, Mover, Goto, Sending, ThreadTypeOK
<1>2. WaitsAt(senders, Sending) /\ WaitsAt(receivers, Receiving)
      /\ SortedByPriority(senders) /\ SortedByPriority(receivers)
  BY DEF WaitersAreBlocked, Sending, Receiving, WaitsAt
<1>3. WakeOne(senders, senders') /\ entry > 0 /\ entry' = entry - 1 /\ receivers' = receivers
  BY DEF TakeMail, WakeOne
<1>4. /\ stat' \in [Thread -> {"ready", "suspend"}]
      /\ armed' \subseteq Thread /\ \A t \in armed' : stat'[t] = "suspend"
      /\ \A t \in Thread : stat'[t] # stat[t] => pc[t] \in Sending
      /\ \A t \in Thread : stat[t] = "ready" => stat'[t] = "ready"
      /\ senders' \in Seq(Thread) /\ NoDuplicates(senders')
      /\ \A t \in Thread : Occurs(senders', t) <=> stat'[t] = "suspend" /\ pc'[t] \in Sending
      /\ Cardinality(Coming(Sending)')
           = IF senders # <<>> THEN Cardinality(Coming(Sending)) + 1
             ELSE Cardinality(Coming(Sending))
  BY <1>1, <1>2, <1>3, WakeOneFacts
<1>5. /\ \A t \in Thread : Occurs(receivers, t) <=> stat'[t] = "suspend" /\ pc'[t] \in Receiving
      /\ Cardinality(Coming(Receiving)') >= Cardinality(Coming(Receiving)) - 1
  BY <1>2, <1>4, OtherListFacts
<1>6. SortedByPriority(senders)'
  <2>1. senders' = senders \/ (senders # <<>> /\ senders' = Tail(senders))
    BY <1>3 DEF WakeOne
  <2>2. SortedByPriority(senders) /\ (senders # <<>> => SortedByPriority(Tail(senders)))
    BY <1>2, TailSorted DEF WaitsAt
  <2> QED BY <2>1, <2>2 DEF SortedByPriority
<1>7. BoxWaiters'
  <2>1. SortedByPriority(receivers)'
    BY <1>2, <1>3 DEF SortedByPriority
  <2> QED BY <1>2, <1>3, <1>4, <1>5, <1>6, <2>1 DEF WaitersAreBlocked, WaitsAt, Sending, Receiving
<1>8. Covered'
  <2>1. entry \in 0 .. Size /\ Size \in Nat
    BY EntryType
  <2>2. /\ Cardinality(Coming(Sending)) \in Nat /\ Cardinality(Coming(Sending)') \in Nat
        /\ Cardinality(Coming(Receiving)) \in Nat /\ Cardinality(Coming(Receiving)') \in Nat
    BY ComingFinite, ComingFiniteNext
  <2>3. senders' # <<>> => senders # <<>>
    BY <1>3 DEF WakeOne
  <2> QED BY <1>3, <1>4, <1>5, <2>1, <2>2, <2>3 DEF Covered
<1> QED BY <1>1, <1>4, <1>7, <1>8

(* The caller is the current thread and READY, in no wait list.            *)
LEMMA CallerFacts ==
  ASSUME BoxInv, NEW t \in Thread, cur = t, pc[t] \in {"run", "send_woken", "recv_woken"}
  PROVE  /\ stat[t] = "ready" /\ pc[t] \notin Entering
         /\ ~ Occurs(receivers, t) /\ ~ Occurs(senders, t)
BY DEF BoxInv, Threads, Coherent, Entering, BoxWaiters, WaitersAreBlocked

(* A put or a take is done.                                                *)
LEMMA MovedOn ==
  ASSUME BoxInv, BoxWaiters', Covered', LocalsOK', UNCHANGED <<prio, error>>,
         pc' \in [Thread -> Places], stat' \in [Thread -> {"ready", "suspend"}],
         armed' \subseteq Thread, \A t \in armed' : stat'[t] = "suspend",
         \A t \in Thread : stat[t] = "ready" => stat'[t] = "ready",
         \/ cur' = cur /\ MovesOn({"send_woken", "recv_woken"})
         \/ Dispatch
  PROVE  BoxInv'
<1> USE DEF BoxInv, Threads
<1>1. cur' \in Thread \union {Idle}
  BY DispatchFacts DEF ThreadTypeOK
<1>2. ThreadTypeOK(Places)'
  BY <1>1 DEF ThreadTypeOK
<1>3. \A t \in Thread : stat'[t] = "suspend" => stat[t] = "suspend"
  BY DEF ThreadTypeOK
<1>4. cur' \in Thread /\ pc'[cur'] \notin Entering => stat'[cur'] = "ready"
  <2>1. CASE Dispatch
    BY <2>1, DispatchFacts
  <2>2. CASE cur' = cur /\ pc' = pc
    BY <2>2 DEF Coherent
  <2>3. CASE cur' = cur /\ \E t \in Thread : Mover(t) /\ pc[t] \in {"run", "send_woken", "recv_woken"}
    BY <2>3, CallerFacts DEF Mover
  <2> QED BY <2>1, <2>2, <2>3 DEF MovesOn
<1>5. Coherent(Entering)'
  BY <1>3, <1>4 DEF Coherent
<1> QED BY <1>2, <1>5

(* A step that moves nobody to or from a wait list.                        *)
LEMMA StillWaiting ==
  ASSUME BoxInv, UNCHANGED <<stat, prio, receivers, senders>>,
         \A t \in Thread : \/ stat[t] = "ready"
                           \/ /\ pc'[t] \in Receiving <=> pc[t] \in Receiving
                              /\ pc'[t] \in Sending <=> pc[t] \in Sending
  PROVE  BoxWaiters'
BY DEF BoxInv, BoxWaiters, WaitersAreBlocked, SortedByPriority, Receiving, Sending

(* A step that puts nothing in and takes nothing out: it may take a thread *)
(* that is not on its way from one place to another, or let one wait for   *)
(* what is not there.                                                      *)
LEMMA StillCovered ==
  ASSUME BoxInv, RingOK, entry' = entry,
         \/ entry = 0
         \/ /\ receivers' # <<>> => receivers # <<>>
            /\ \A t \in Thread : Comes(t, Receiving)' <=> Comes(t, Receiving),
         \/ entry = Size
         \/ /\ senders' # <<>> => senders # <<>>
            /\ \A t \in Thread : Comes(t, Sending)' <=> Comes(t, Sending)
  PROVE  Covered'
<1>1. entry \in 0 .. Size /\ Size \in Nat
  BY EntryType
<1>2. /\ Cardinality(Coming(Receiving)') \in Nat /\ Cardinality(Coming(Sending)') \in Nat
  BY ComingFiniteNext
<1>3. receivers' # <<>> => entry <= Cardinality(Coming(Receiving)')
  <2>1. CASE entry = 0
    BY <1>2, <2>1
  <2>2. CASE /\ receivers' # <<>> => receivers # <<>>
             /\ \A t \in Thread : Comes(t, Receiving)' <=> Comes(t, Receiving)
    <3>1. Coming(Receiving)' = Coming(Receiving)
      BY <2>2, SameComing
    <3> QED BY <2>2, <3>1 DEF BoxInv, Covered
  <2> QED BY <2>1, <2>2
<1>4. senders' # <<>> => Size - entry <= Cardinality(Coming(Sending)')
  <2>1. CASE entry = Size
    BY <1>1, <1>2, <2>1
  <2>2. CASE /\ senders' # <<>> => senders # <<>>
             /\ \A t \in Thread : Comes(t, Sending)' <=> Comes(t, Sending)
    <3>1. Coming(Sending)' = Coming(Sending)
      BY <2>2, SameComing
    <3> QED BY <2>2, <3>1 DEF BoxInv, Covered
  <2> QED BY <2>1, <2>2
<1> QED BY <1>3, <1>4 DEF Covered

(* rt_schedule() after a call has put itself to sleep, or at its end.      *)
LEMMA ScheduleBox ==
  ASSUME BoxInv, RingOK, NEW t \in Thread,
         SendSchedule(t) \/ RecvSchedule(t) \/ PostSchedule(t)
  PROVE  BoxInv'
<1> USE DEF BoxInv
<1>1. PICK from, to \in Places :
        /\ Reschedule(t, from, to)
        /\ from \in Receiving <=> to \in Receiving
        /\ from \in Sending <=> to \in Sending
  BY DEF SendSchedule, RecvSchedule, PostSchedule, Receiving, Sending, Places
<1>2. UNCHANGED boxVars
  BY DEF SendSchedule, RecvSchedule, PostSchedule
<1>3. /\ ThreadTypeOK(Places)' /\ Coherent(Entering)'
      /\ UNCHANGED <<stat, prio, armed, error>>
      /\ pc[t] = from /\ pc'[t] = to /\ \A u \in Thread : u # t => pc'[u] = pc[u]
  BY <1>1, RescheduleFacts DEF Threads
<1>4. \A u \in Thread : /\ pc'[u] \in Receiving <=> pc[u] \in Receiving
                        /\ pc'[u] \in Sending <=> pc[u] \in Sending
  BY <1>1, <1>3
<1>5. BoxWaiters'
  BY <1>2, <1>3, <1>4, StillWaiting DEF boxVars
<1>6. Covered'
  <2>1. \A u \in Thread : /\ Comes(u, Receiving)' <=> Comes(u, Receiving)
                          /\ Comes(u, Sending)' <=> Comes(u, Sending)
    BY <1>3, <1>4 DEF Comes
  <2> QED BY <1>2, <2>1, StillCovered DEF boxVars, ring
<1>7. LocalsOK'
  BY <1>2 DEF boxVars, LocalsOK
<1> QED BY <1>3, <1>5, <1>6, <1>7 DEF Threads

(* rt_mb_send_wait, from its start or after a wake-up.                     *)
LEMMA SendBodyBox ==
  ASSUME BoxInv, RingOK, NEW t \in Thread, NEW v \in Mail, NEW w \in Waits,
         cur = t, pc[t] = "run" \/ (pc[t] = "send_woken" /\ error[t] = "RT_EOK"),
         SendBody(t, v, w)
  PROVE  BoxInv'
<1>1. /\ stat[t] = "ready" /\ pc[t] \notin Entering
      /\ ~ Occurs(receivers, t) /\ ~ Occurs(senders, t)
  BY CallerFacts
<1>2. CASE SendNow(t, v)
  <2>1. PICK to : to \in {"post", "run"} /\ Goto(t, to)
    BY <1>2 DEF SendNow
  <2>2. MovesOn({"send_woken"}) /\ MovesOn({"send_woken", "recv_woken"})
    BY <2>1 DEF MovesOn, Mover
  <2>3. PutMail(v) /\ UNCHANGED <<prio, cur, error, mail>>
    BY <1>2 DEF SendNow
  <2>4. /\ pc' \in [Thread -> Places] /\ stat' \in [Thread -> {"ready", "suspend"}]
        /\ armed' \subseteq Thread /\ \A u \in armed' : stat'[u] = "suspend"
        /\ \A u \in Thread : stat[u] = "ready" => stat'[u] = "ready"
        /\ BoxWaiters' /\ Covered'
    BY <2>2, <2>3, PutWaiters
  <2>5. LocalsOK'
    BY <2>3 DEF PutMail, LocalsOK, BoxInv
  <2> QED BY <2>2, <2>3, <2>4, <2>5, MovedOn
<1>3. CASE SendFull(t, w)
  <2>1. /\ Goto(t, "run") /\ UNCHANGED <<stat, prio, cur, armed>> /\ UNCHANGED boxVars
        /\ entry = Size
    BY <1>3 DEF SendFull, Full
  <2>2. error' \in [Thread -> Errors] /\ \A u \in Thread : u # t => error'[u] = error[u]
    BY <1>3 DEF SendFull, BoxInv, Threads, ThreadTypeOK, Errors
  <2>3. /\ ThreadTypeOK(Places)' /\ Coherent(Entering)'
        /\ pc'[t] = "run" /\ \A u \in Thread : u # t => pc'[u] = pc[u]
    BY <1>1, <2>1, <2>2, RunnerFacts DEF BoxInv, Threads, Places
  <2>4. BoxWaiters'
    BY <1>1, <2>1, <2>3, StillWaiting DEF boxVars
  <2>5. \A u \in Thread : Comes(u, Receiving)' <=> Comes(u, Receiving)
    BY <2>1, <2>2, <2>3 DEF Comes, Receiving
  <2>6. Covered'
    BY <2>1, <2>5, StillCovered DEF boxVars, ring
  <2>7. LocalsOK'
    BY <2>1 DEF boxVars, LocalsOK, BoxInv
  <2> QED BY <2>3, <2>4, <2>6, <2>7 DEF BoxInv, Threads
<1>4. CASE SendBlock(t, v, w)
  <2>1. /\ Block(t, w = "some", "send_wait") /\ UNCHANGED <<prio, cur>>
        /\ senders' = Enqueued(senders, t) /\ UNCHANGED <<ring, receivers>> /\ entry = Size
    BY <1>4 DEF SendBlock, Full
  <2>2. PICK timed \in BOOLEAN, to \in Places \intersect Entering :
          Block(t, timed, to) /\ to = "send_wait"
    BY <2>1 DEF Places, Entering
  <2>3. /\ ThreadTypeOK(Places)' /\ Coherent(Entering)'
        /\ stat'[t] = "suspend" /\ pc'[t] = "send_wait"
        /\ \A u \in Thread : u # t =>
             pc'[u] = pc[u] /\ stat'[u] = stat[u] /\ error'[u] = error[u]
    BY <1>1, <2>1, <2>2, BlockFacts DEF BoxInv, Threads
  <2>4. /\ senders \in Seq(Thread) /\ receivers \in Seq(Thread) /\ prio \in [Thread -> Nat]
        /\ WaitersAreBlocked
    BY DEF BoxInv, Threads, ThreadTypeOK, BoxWaiters
  <2>5. /\ senders' \in Seq(Thread) /\ NoDuplicates(senders')
        /\ \A x : Occurs(senders', x) <=> x = t \/ Occurs(senders, x)
    BY <1>1, <2>1, <2>4, EnqueuedFacts DEF WaitersAreBlocked
  <2>6. SortedByPriority(senders)' /\ SortedByPriority(receivers)'
    <3>1. SortedByPriority(Enqueued(senders, t)) /\ SortedByPriority(receivers)
      BY <2>4, EnqueuedSorted DEF WaitersAreBlocked
    <3> QED BY <2>1, <3>1 DEF SortedByPriority
  <2>7. BoxWaiters'
    BY <1>1, <2>1, <2>3, <2>4, <2>5, <2>6 DEF BoxWaiters, WaitersAreBlocked
  <2>8. \A u \in Thread : Comes(u, Receiving)' <=> Comes(u, Receiving)
    BY <2>3 DEF Comes, Receiving
  <2>9. Covered'
    BY <2>1, <2>8, StillCovered DEF ring
  <2>10. LocalsOK'
    BY <1>4 DEF SendBlock, LocalsOK, BoxInv
  <2> QED BY <2>3, <2>7, <2>9, <2>10 DEF BoxInv, Threads
<1> QED BY <1>2, <1>3, <1>4 DEF SendBody

(* rt_mb_recv, likewise.                                                   *)
LEMMA RecvBodyBox ==
  ASSUME BoxInv, RingOK, NEW t \in Thread, NEW w \in Waits,
         cur = t, pc[t] = "run" \/ (pc[t] = "recv_woken" /\ error[t] = "RT_EOK"),
         RecvBody(t, w)
  PROVE  BoxInv'
<1>1. /\ stat[t] = "ready" /\ pc[t] \notin Entering
      /\ ~ Occurs(receivers, t) /\ ~ Occurs(senders, t)
  BY CallerFacts
<1>2. CASE RecvNow(t)
  <2>1. PICK to : to \in {"post", "run"} /\ Goto(t, to)
    BY <1>2 DEF RecvNow
  <2>2. MovesOn({"recv_woken"}) /\ MovesOn({"send_woken", "recv_woken"})
    BY <2>1 DEF MovesOn, Mover
  <2>3. TakeMail(t) /\ UNCHANGED <<prio, cur, error>>
    BY <1>2 DEF RecvNow
  <2>4. /\ pc' \in [Thread -> Places] /\ stat' \in [Thread -> {"ready", "suspend"}]
        /\ armed' \subseteq Thread /\ \A u \in armed' : stat'[u] = "suspend"
        /\ \A u \in Thread : stat[u] = "ready" => stat'[u] = "ready"
        /\ BoxWaiters' /\ Covered'
    BY <2>2, <2>3, TakeWaiters
  <2>5. LocalsOK'
    <3>1. pool[out] \in Mail
      BY <2>3, TakeRing DEF TakeMail
    <3> QED BY <2>3, <3>1 DEF TakeMail, LocalsOK, BoxInv
  <2> QED BY <2>2, <2>3, <2>4, <2>5, MovedOn
<1>3. CASE RecvEmpty(t, w)
  <2>1. /\ Goto(t, "run") /\ UNCHANGED <<stat, prio, cur, armed>> /\ UNCHANGED boxVars
        /\ entry = 0
    BY <1>3 DEF RecvEmpty
  <2>2. error' \in [Thread -> Errors] /\ \A u \in Thread : u # t => error'[u] = error[u]
    BY <1>3 DEF RecvEmpty, BoxInv, Threads, ThreadTypeOK, Errors
  <2>3. /\ ThreadTypeOK(Places)' /\ Coherent(Entering)'
        /\ pc'[t] = "run" /\ \A u \in Thread : u # t => pc'[u] = pc[u]
    BY <1>1, <2>1, <2>2, RunnerFacts DEF BoxInv, Threads, Places
  <2>4. BoxWaiters'
    BY <1>1, <2>1, <2>3, StillWaiting DEF boxVars
  <2>5. \A u \in Thread : Comes(u, Sending)' <=> Comes(u, Sending)
    BY <2>1, <2>2, <2>3 DEF Comes, Sending
  <2>6. Covered'
    BY <2>1, <2>5, StillCovered DEF boxVars, ring
  <2>7. LocalsOK'
    BY <2>1 DEF boxVars, LocalsOK, BoxInv
  <2> QED BY <2>3, <2>4, <2>6, <2>7 DEF BoxInv, Threads
<1>4. CASE RecvBlock(t, w)
  <2>1. /\ Block(t, w = "some", "recv_wait") /\ UNCHANGED <<prio, cur>>
        /\ receivers' = Enqueued(receivers, t) /\ UNCHANGED <<ring, senders>> /\ entry = 0
    BY <1>4 DEF RecvBlock
  <2>2. PICK timed \in BOOLEAN, to \in Places \intersect Entering :
          Block(t, timed, to) /\ to = "recv_wait"
    BY <2>1 DEF Places, Entering
  <2>3. /\ ThreadTypeOK(Places)' /\ Coherent(Entering)'
        /\ stat'[t] = "suspend" /\ pc'[t] = "recv_wait"
        /\ \A u \in Thread : u # t =>
             pc'[u] = pc[u] /\ stat'[u] = stat[u] /\ error'[u] = error[u]
    BY <1>1, <2>1, <2>2, BlockFacts DEF BoxInv, Threads
  <2>4. /\ senders \in Seq(Thread) /\ receivers \in Seq(Thread) /\ prio \in [Thread -> Nat]
        /\ WaitersAreBlocked
    BY DEF BoxInv, Threads, ThreadTypeOK, BoxWaiters
  <2>5. /\ receivers' \in Seq(Thread) /\ NoDuplicates(receivers')
        /\ \A x : Occurs(receivers', x) <=> x = t \/ Occurs(receivers, x)
    BY <1>1, <2>1, <2>4, EnqueuedFacts DEF WaitersAreBlocked
  <2>6. SortedByPriority(senders)' /\ SortedByPriority(receivers)'
    <3>1. SortedByPriority(Enqueued(receivers, t)) /\ SortedByPriority(senders)
      BY <2>4, EnqueuedSorted DEF WaitersAreBlocked
    <3> QED BY <2>1, <3>1 DEF SortedByPriority
  <2>7. BoxWaiters'
    BY <1>1, <2>1, <2>3, <2>4, <2>5, <2>6 DEF BoxWaiters, WaitersAreBlocked
  <2>8. \A u \in Thread : Comes(u, Sending)' <=> Comes(u, Sending)
    BY <2>3 DEF Comes, Sending
  <2>9. Covered'
    BY <2>1, <2>8, StillCovered DEF ring
  <2>10. LocalsOK'
    BY <1>4 DEF RecvBlock, LocalsOK, BoxInv
  <2> QED BY <2>3, <2>7, <2>9, <2>10 DEF BoxInv, Threads
<1> QED BY <1>2, <1>3, <1>4 DEF RecvBody

(* The interrupt handler: rt_mb_send and rt_mb_recv without a wait.        *)
LEMMA IsrBox ==
  ASSUME BoxInv, RingOK, (\E v \in Mail : SendFromIsr(v)) \/ RecvFromIsr
  PROVE  BoxInv'
<1>1. MovesOn({"send_woken"}) /\ MovesOn({"recv_woken"}) /\ MovesOn({"send_woken", "recv_woken"})
      /\ UNCHANGED <<prio, error>> /\ (cur' = cur \/ Dispatch)
  BY DEF SendFromIsr, RecvFromIsr, MovesOn
<1>2. /\ pc' \in [Thread -> Places] /\ stat' \in [Thread -> {"ready", "suspend"}]
      /\ armed' \subseteq Thread /\ \A u \in armed' : stat'[u] = "suspend"
      /\ \A u \in Thread : stat[u] = "ready" => stat'[u] = "ready"
      /\ BoxWaiters' /\ Covered'
  <2>1. CASE \E v \in Mail : SendFromIsr(v)
    <3>1. PICK v \in Mail : PutMail(v)
      BY <2>1 DEF SendFromIsr
    <3> QED BY <1>1, <3>1, PutWaiters
  <2>2. CASE RecvFromIsr
    <3>1. TakeMail(Isr)
      BY <2>2 DEF RecvFromIsr
    <3> QED BY <1>1, <3>1, TakeWaiters
  <2> QED BY <2>1, <2>2
<1>3. LocalsOK'
  <2>1. CASE \E v \in Mail : SendFromIsr(v)
    BY <2>1 DEF SendFromIsr, PutMail, LocalsOK, BoxInv
  <2>2. CASE RecvFromIsr
    <3>1. pool[out] \in Mail
      BY <2>2, TakeRing DEF RecvFromIsr, TakeMail
    <3> QED BY <2>2, <3>1 DEF RecvFromIsr, TakeMail, LocalsOK, BoxInv
  <2> QED BY <2>1, <2>2
<1> QED BY <1>1, <1>2, <1>3, MovedOn

(* A call that returns its error, or goes on with a detach; the detach and *)
(* the return of a failed call wake nobody.                                *)
LEMMA RunnerBox ==
  ASSUME BoxInv, RingOK, NEW t \in Thread, Failed(t) \/ Detach(t) \/ DrainTest(t)
  PROVE  BoxInv'
<1>1. PICK to \in Places \ (Receiving \union Sending) : Goto(t, to)
  BY DEF Failed, Detach, DrainTest, Places, Receiving, Sending
<1>2. /\ cur = t /\ UNCHANGED <<stat, prio, cur, armed, error>>
      /\ UNCHANGED <<ring, receivers, senders, timeout, mail, got>>
      /\ alive' \in BOOLEAN
  BY DEF Failed, Detach, DrainTest, Running, boxVars, BoxInv, LocalsOK
<1>3. pc[t] \notin Entering /\ (pc[t] \in Receiving \union Sending => error[t] # "RT_EOK")
  BY DEF Failed, Detach, DrainTest, Running, Entering, Receiving, Sending
<1>4. error' \in [Thread -> Errors] /\ \A u \in Thread : u # t => error'[u] = error[u]
  BY <1>2 DEF BoxInv, Threads, ThreadTypeOK
<1>5. /\ ThreadTypeOK(Places)' /\ Coherent(Entering)' /\ stat[t] = "ready"
      /\ pc'[t] = to /\ \A u \in Thread : u # t => pc'[u] = pc[u]
  BY <1>1, <1>2, <1>3, <1>4, RunnerFacts DEF BoxInv, Threads
<1>6. BoxWaiters'
  BY <1>2, <1>5, StillWaiting
<1>7. \A u \in Thread : /\ Comes(u, Receiving)' <=> Comes(u, Receiving)
                        /\ Comes(u, Sending)' <=> Comes(u, Sending)
  BY <1>1, <1>2, <1>3, <1>5 DEF Comes
<1>8. Covered'
  BY <1>2, <1>7, StillCovered DEF ring
<1>9. LocalsOK'
  BY <1>2 DEF BoxInv, LocalsOK
<1> QED BY <1>5, <1>6, <1>8, <1>9 DEF BoxInv, Threads

(* RT_IPC_CMD_RESET leaves nobody waiting.                                 *)
LEMMA ResetBox ==
  ASSUME BoxInv, RingOK, NEW t \in Thread, Reset(t)
  PROVE  BoxInv'
<1>1. /\ cur = t /\ pc[t] = "run" /\ WakeAll(receivers \o senders) /\ Goto(t, "post")
      /\ receivers' = <<>> /\ senders' = <<>>
      /\ UNCHANGED <<prio, cur, alive, timeout, mail, got>>
  BY DEF Reset, Running
<1>2. stat[t] = "ready"
  BY <1>1, CallerFacts
<1>3. /\ stat' \in [Thread -> {"ready", "suspend"}] /\ error' \in [Thread -> Errors]
      /\ \A u \in Thread :
           /\ stat'[u] = IF Occurs(receivers \o senders, u) THEN "ready" ELSE stat[u]
           /\ error'[u] = IF Occurs(receivers \o senders, u) THEN "RT_ERROR" ELSE error[u]
      /\ armed' \subseteq Thread /\ \A u \in armed' : stat'[u] = "suspend"
  BY <1>1, WakeAllFacts DEF BoxInv, Threads
<1>4. \A u \in Thread :
        Occurs(receivers \o senders, u) <=> Occurs(receivers, u) \/ Occurs(senders, u)
  BY ConcatOccurs DEF BoxInv, BoxWaiters
<1>5. /\ pc' \in [Thread -> Places] /\ pc'[t] = "post"
      /\ \A u \in Thread : u # t => pc'[u] = pc[u]
  BY <1>1 DEF Goto, BoxInv, Threads, ThreadTypeOK, Places
<1>6. ThreadTypeOK(Places)' /\ Coherent(Entering)'
  <2>1. ThreadTypeOK(Places)'
    BY <1>1, <1>3, <1>5 DEF BoxInv, Threads, ThreadTypeOK
  <2>2. Coherent(Entering)'
    BY <1>1, <1>2, <1>3 DEF BoxInv, Threads, Coherent
  <2> QED BY <2>1, <2>2
<1>7. BoxWaiters'
  <2>1. \A u \in Thread : ~ (stat'[u] = "suspend" /\ pc'[u] \in Receiving \union Sending)
    <3> TAKE u \in Thread
    <3>1. CASE u = t
      BY <1>5, <3>1 DEF Receiving, Sending
    <3>2. CASE u # t /\ stat'[u] = "suspend" /\ pc'[u] \in Receiving \union Sending
      <4>1. stat[u] = "suspend" /\ ~ Occurs(receivers, u) /\ ~ Occurs(senders, u)
            /\ pc[u] \in Receiving \union Sending
        BY <1>3, <1>4, <1>5, <3>2
      <4> QED BY <4>1 DEF BoxInv, BoxWaiters, WaitersAreBlocked, Receiving, Sending
    <3> QED BY <3>1, <3>2
  <2>2. \A u : ~ Occurs(<<>>, u)
    BY DEF Occurs
  <2>3. NoDuplicates(<<>>) /\ <<>> \in Seq(Thread) /\ Len(<<>>) = 0
    BY DEF NoDuplicates
  <2> QED BY <1>1, <2>1, <2>2, <2>3
       DEF BoxWaiters, WaitersAreBlocked, SortedByPriority, Receiving, Sending
<1>8. Covered'
  BY <1>1 DEF Covered
<1>9. LocalsOK'
  BY <1>1 DEF BoxInv, LocalsOK
<1> QED BY <1>6, <1>7, <1>8, <1>9 DEF BoxInv, Threads

(* rt_mb_detach wakes one more waiter, with an error.                      *)
LEMMA DrainOneBox ==
  ASSUME BoxInv, RingOK, NEW t \in Thread, DrainOne(t)
  PROVE  BoxInv'
<1>1. PICK q, u :
        /\ q \in {receivers, senders} /\ u = Head(q) /\ q # <<>> /\ Wake(u)
        /\ error' = [error EXCEPT ![u] = "RT_ERROR"]
        /\ \/ q = receivers /\ receivers' = Tail(q) /\ senders' = senders
           \/ q = senders /\ senders' = Tail(q) /\ receivers' = receivers
  BY DEF DrainOne
<1>2. /\ cur = t /\ pc[t] \in {"drain_recv_one", "drain_send_one"}
      /\ \E to \in {"drain_recv", "drain_send"} : Goto(t, to)
      /\ UNCHANGED <<prio, cur, ring, alive, timeout, mail, got>>
  BY DEF DrainOne
<1>3. /\ pc' \in [Thread -> Places]
      /\ pc'[t] \in {"drain_recv", "drain_send"} /\ \A x \in Thread : x # t => pc'[x] = pc[x]
      /\ pc[t] \notin Receiving \union Sending \union Entering
  BY <1>2 DEF BoxInv, Threads, ThreadTypeOK, Goto, Places, Receiving, Sending, Entering
<1>4. WaitsAt(receivers, Receiving) /\ WaitsAt(senders, Sending)
      /\ SortedByPriority(receivers) /\ SortedByPriority(senders)
  BY DEF BoxInv, BoxWaiters, WaitersAreBlocked, Receiving, Sending, WaitsAt
<1>5. /\ u \in Thread /\ Occurs(q, u)
      /\ stat[u] = "suspend" /\ error[u] = "RT_EOK" /\ stat'[u] = "ready"
      /\ stat' \in [Thread -> {"ready", "suspend"}]
      /\ \A x \in Thread : x # u => stat'[x] = stat[x]
      /\ armed' \subseteq armed /\ \A x \in armed' : stat'[x] = "suspend"
      /\ Tail(q) \in Seq(Thread) /\ NoDuplicates(Tail(q))
      /\ \A x : Occurs(Tail(q), x) <=> Occurs(q, x) /\ x # u
  <2>1. q \in Seq(Thread) /\ NoDuplicates(q) /\ \A x \in Thread : Occurs(q, x) => stat[x] = "suspend"
    BY <1>1, <1>4 DEF WaitsAt
  <2> QED BY <1>1, <2>1, WakeFirstFacts DEF BoxInv, Threads
<1>6. /\ error' \in [Thread -> Errors] /\ error'[u] = "RT_ERROR"
      /\ \A x \in Thread : x # u => error'[x] = error[x]
  BY <1>1, <1>5 DEF BoxInv, Threads, ThreadTypeOK, Errors
<1>7. stat[t] = "ready" /\ u # t
  BY <1>2, <1>3, <1>5 DEF BoxInv, Threads, Coherent
<1>8. ThreadTypeOK(Places)' /\ Coherent(Entering)'
  <2>1. ThreadTypeOK(Places)'
    BY <1>2, <1>3, <1>5, <1>6 DEF BoxInv, Threads, ThreadTypeOK
  <2>2. Coherent(Entering)'
    BY <1>2, <1>5, <1>6, <1>7 DEF BoxInv, Threads, Coherent
  <2> QED BY <2>1, <2>2
<1>9. BoxWaiters'
  <2>1. /\ SortedByPriority(receivers)' /\ SortedByPriority(senders)'
    <3>1. /\ SortedByPriority(receivers) /\ SortedByPriority(senders) /\ SortedByPriority(Tail(q))
      BY <1>1, <1>4, TailSorted DEF WaitsAt
    <3> QED BY <1>1, <1>2, <3>1 DEF SortedByPriority
  <2>2. /\ receivers' \in Seq(Thread) /\ NoDuplicates(receivers')
        /\ senders' \in Seq(Thread) /\ NoDuplicates(senders')
    BY <1>1, <1>4, <1>5 DEF WaitsAt
  <2>3. ASSUME NEW x \in Thread
        PROVE  /\ Occurs(receivers', x) <=> stat'[x] = "suspend" /\ pc'[x] \in Receiving
               /\ Occurs(senders', x) <=> stat'[x] = "suspend" /\ pc'[x] \in Sending
    <3>1. x # u => /\ Occurs(receivers', x) <=> Occurs(receivers, x)
                   /\ Occurs(senders', x) <=> Occurs(senders, x)
      BY <1>1, <1>5
    <3>2. x = u => ~ Occurs(receivers', x) /\ ~ Occurs(senders', x)
      <4>1. ~ (Occurs(receivers, u) /\ Occurs(senders, u))
        BY <1>4, <1>5 DEF WaitsAt, Receiving, Sending
      <4> QED BY <1>1, <1>5, <4>1
    <3>3. CASE x = u
      BY <1>5, <3>2, <3>3
    <3>4. CASE x = t
      <4>1. pc'[x] \notin Receiving /\ pc'[x] \notin Sending
        BY <1>3, <3>4 DEF Receiving, Sending
      <4> QED BY <1>3, <1>4, <1>7, <3>1, <3>4, <4>1 DEF WaitsAt
    <3>5. CASE x # u /\ x # t
      BY <1>3, <1>4, <1>5, <3>1, <3>5 DEF WaitsAt
    <3> QED BY <3>3, <3>4, <3>5
  <2> QED BY <2>1, <2>2, <2>3 DEF BoxWaiters, WaitersAreBlocked, Receiving, Sending
<1>10. Covered'
  <2>1. (receivers' # <<>> => receivers # <<>>) /\ (senders' # <<>> => senders # <<>>)
    BY <1>1
  <2>2. \A x \in Thread : /\ Comes(x, Receiving)' <=> Comes(x, Receiving)
                          /\ Comes(x, Sending)' <=> Comes(x, Sending)
    BY <1>3, <1>5, <1>6, <1>7 DEF Comes, Receiving, Sending
  <2> QED BY <1>2, <2>1, <2>2, StillCovered DEF ring
<1>11. LocalsOK'
  BY <1>2 DEF BoxInv, LocalsOK
<1> QED BY <1>8, <1>9, <1>10, <1>11 DEF BoxInv, Threads

(* A waiter whose time is over leaves its list with -RT_ETIMEOUT.          *)
LEMMA TimeoutBox ==
  ASSUME BoxInv, RingOK, NEW u \in Thread, Timeout(u)
  PROVE  BoxInv'
<1>1. /\ TimeoutOf(u) /\ receivers' = ListRemove(receivers, u)
      /\ senders' = ListRemove(senders, u) /\ UNCHANGED <<ring, alive, timeout, mail, got>>
  BY DEF Timeout
<1>2. /\ ThreadTypeOK(Places)' /\ Coherent(Entering)' /\ UNCHANGED <<prio, pc>>
      /\ stat[u] = "suspend" /\ stat'[u] = "ready" /\ error'[u] = "RT_ETIMEOUT"
      /\ \A t \in Thread : t # u => stat'[t] = stat[t] /\ error'[t] = error[t]
  BY <1>1, TimeoutFacts DEF BoxInv, Threads
<1>3. WaitsAt(receivers, Receiving) /\ WaitsAt(senders, Sending)
      /\ SortedByPriority(receivers) /\ SortedByPriority(senders)
  BY DEF BoxInv, BoxWaiters, WaitersAreBlocked, Receiving, Sending, WaitsAt
<1>4. /\ receivers' \in Seq(Thread) /\ NoDuplicates(receivers')
      /\ senders' \in Seq(Thread) /\ NoDuplicates(senders')
      /\ \A x : Occurs(receivers', x) <=> Occurs(receivers, x) /\ x # u
      /\ \A x : Occurs(senders', x) <=> Occurs(senders, x) /\ x # u
  BY <1>1, <1>3, RemoveFacts DEF WaitsAt
<1>5. BoxWaiters'
  <2>1. SortedByPriority(ListRemove(receivers, u)) /\ SortedByPriority(ListRemove(senders, u))
    BY <1>3, RemoveSorted DEF WaitsAt
  <2>2. SortedByPriority(receivers)' /\ SortedByPriority(senders)'
    BY <1>1, <1>2, <2>1 DEF SortedByPriority
  <2> QED BY <1>2, <1>3, <1>4, <2>2 DEF BoxWaiters, WaitersAreBlocked, WaitsAt, Receiving, Sending
<1>6. Covered'
  <2>1. \A q \in Seq(Thread) : q = <<>> => \A x : ~ Occurs(q, x)
    BY DEF Occurs
  <2>2. \A q \in Seq(Thread) : q # <<>> => Occurs(q, q[1])
    BY DEF Occurs
  <2>3. (receivers' # <<>> => receivers # <<>>) /\ (senders' # <<>> => senders # <<>>)
    BY <1>3, <1>4, <2>1, <2>2 DEF WaitsAt
  <2>4. \A x \in Thread : /\ Comes(x, Receiving)' <=> Comes(x, Receiving)
                          /\ Comes(x, Sending)' <=> Comes(x, Sending)
    BY <1>2 DEF Comes
  <2> QED BY <1>1, <2>3, <2>4, StillCovered DEF ring
<1>7. LocalsOK'
  BY <1>1 DEF BoxInv, LocalsOK
<1> QED BY <1>2, <1>5, <1>6, <1>7 DEF BoxInv, Threads

(* No call, interrupt or time-out breaks the invariant.                    *)
LEMMA NextBox ==
  ASSUME QueueInv, BoxInv, [Next]_vars
  PROVE  BoxInv'
<1>0. RingOK /\ SendersHoldMail
  BY DEF QueueInv
<1>1. ASSUME NEW t \in Thread, NEW w \in Waits, NEW v \in Mail, Send(t, v, w)
      PROVE  BoxInv'
  BY <1>0, <1>1, SendBodyBox DEF Send, Running
<1>2. ASSUME NEW t \in Thread, NEW w \in Waits, Recv(t, w)
      PROVE  BoxInv'
  BY <1>0, <1>2, RecvBodyBox DEF Recv, Running
<1>3. ASSUME NEW t \in Thread, SendAgain(t)
      PROVE  BoxInv'
  <2>1. mail[t] \in Mail
    BY <1>0, <1>3 DEF SendersHoldMail, SendAgain, At
  <2>2. PICK w \in Recomputed(timeout[t]) : SendBody(t, mail[t], w)
    BY <1>3 DEF SendAgain
  <2>3. w \in Waits
    BY DEF BoxInv, LocalsOK, Recomputed, Waits
  <2> QED BY <1>0, <1>3, <2>1, <2>2, <2>3, SendBodyBox DEF SendAgain, At
<1>4. ASSUME NEW t \in Thread, RecvAgain(t)
      PROVE  BoxInv'
  <2>1. PICK w \in Recomputed(timeout[t]) : RecvBody(t, w)
    BY <1>4 DEF RecvAgain
  <2>2. w \in Waits
    BY DEF BoxInv, LocalsOK, Recomputed, Waits
  <2> QED BY <1>0, <1>4, <2>1, <2>2, RecvBodyBox DEF RecvAgain, At
<1>5. ASSUME NEW t \in Thread, Reset(t)
      PROVE  BoxInv'
  BY <1>0, <1>5, ResetBox
<1>6. ASSUME NEW t \in Thread, Quiet(t)
      PROVE  BoxInv'
  BY <1>0, <1>6, ScheduleBox, RunnerBox, DrainOneBox, TimeoutBox DEF Quiet
<1>7. ASSUME NEW v \in Mail, SendFromIsr(v)
      PROVE  BoxInv'
  BY <1>0, <1>7, IsrBox
<1>8. CASE RecvFromIsr
  BY <1>0, <1>8, IsrBox
<1>9. CASE SliceEnd /\ UNCHANGED boxVars
  <2>1. /\ ThreadTypeOK(Places)' /\ Coherent(Entering)'
        /\ UNCHANGED <<stat, prio, armed, error, pc>>
    BY <1>9, SliceFacts DEF BoxInv, Threads
  <2>2. BoxWaiters'
    BY <1>9, <2>1, StillWaiting DEF boxVars
  <2>3. \A x \in Thread : /\ Comes(x, Receiving)' <=> Comes(x, Receiving)
                          /\ Comes(x, Sending)' <=> Comes(x, Sending)
    BY <2>1 DEF Comes
  <2>4. Covered'
    BY <1>0, <1>9, <2>3, StillCovered DEF boxVars, ring
  <2>5. LocalsOK'
    BY <1>9 DEF boxVars, BoxInv, LocalsOK
  <2> QED BY <2>1, <2>2, <2>4, <2>5 DEF BoxInv, Threads
<1>10. CASE UNCHANGED vars
  <2>1. /\ UNCHANGED <<stat, prio, armed, error, pc, cur>>
        /\ UNCHANGED <<receivers, senders, entry, alive, timeout, mail, got>>
    BY <1>10 DEF vars, boxVars, ring, threadVars
  <2>2. BoxWaiters'
    BY <2>1, StillWaiting
  <2>3. \A x \in Thread : /\ Comes(x, Receiving)' <=> Comes(x, Receiving)
                          /\ Comes(x, Sending)' <=> Comes(x, Sending)
    BY <2>1 DEF Comes
  <2>4. Covered'
    BY <1>0, <2>1, <2>3, StillCovered
  <2>5. LocalsOK' /\ Threads'
    BY <2>1 DEF BoxInv, LocalsOK, Threads, ThreadTypeOK, Coherent
  <2> QED BY <2>2, <2>4, <2>5 DEF BoxInv
<1> QED
  BY <1>1, <1>2, <1>3, <1>4, <1>5, <1>6, <1>7, <1>8, <1>9, <1>10, Zenon DEF Next, Quiet

LEMMA InitBox == Init => BoxInv
<1> SUFFICES ASSUME Init PROVE BoxInv
  OBVIOUS
<1>1. Threads
  BY IpcAssumption
     DEF Init, ThreadInit, Threads, ThreadTypeOK, Coherent, Places, Errors, Entering
<1>2. LocalsOK
  BY DEF Init, LocalsOK, Waits
<1>3. BoxWaiters /\ Covered
  <2>1. \A u : ~ Occurs(<<>>, u)
    BY DEF Occurs
  <2>2. NoDuplicates(<<>>) /\ <<>> \in Seq(Thread) /\ Len(<<>>) = 0
    BY DEF NoDuplicates
  <2>3. \A t \in Thread : stat[t] = "ready"
    BY DEF Init, ThreadInit
  <2> QED BY <2>1, <2>2, <2>3
       DEF Init, BoxWaiters, WaitersAreBlocked, SortedByPriority, Covered
<1> QED BY <1>1, <1>2, <1>3 DEF BoxInv

LEMMA BoxInvHolds == Spec => [](RingOK /\ BoxInv)
<1>1. Init => QueueInv /\ BoxInv
  BY InitStep, InitBox
<1>2. QueueInv /\ BoxInv /\ [Next]_vars => QueueInv' /\ BoxInv'
  BY NextStep, NextBox DEF QueueStep, QueueInv
<1>3. QueueInv => RingOK
  BY DEF QueueInv
<1> QED BY <1>1, <1>2, <1>3, PTL DEF Spec

(* Every variable of the mailbox keeps its type.                           *)
THEOREM MailboxTypeCorrect == Spec => []TypeOK
BY BoxInvHolds, BoxInvMeans, PTL

(* No wake-up is lost: rt_mb_send_wait and rt_mb_recv wake one thread for  *)
(* each mail and each free slot, whatever takes it before that thread      *)
(* runs, so nobody sleeps beside a mail or a slot that no woken thread     *)
(* comes for; and a wait list holds exactly the threads blocked in that    *)
(* call, once, in the order of the object's flag.                          *)
THEOREM MailboxLosesNoWakeup == Spec => []NoLostWakeup
BY BoxInvHolds, BoxInvMeans, PTL
----------------------------------------------------------------------------
(* The event object for any flags, threads and requests.                   *)
(* The walk of rt_event_send, up to the i-th waiter.                       *)
EvWalk(f, q, e, n) ==
  f = [i \in 0 .. n |-> IF i = 0 THEN WalkStart(q, e) ELSE Visit(f[i - 1], q[i])]

LEMMA EvWalkExists ==
  ASSUME NEW q, NEW e, NEW n \in Nat
  PROVE  \E f : EvWalk(f, q, e, n)
<1>1. SUFFICES ASSUME {k \in Nat : ~ \E f : EvWalk(f, q, e, k)} # {} PROVE FALSE
  OBVIOUS
<1>2. {k \in Nat : ~ \E f : EvWalk(f, q, e, k)} \in SUBSET Nat
  OBVIOUS
<1>3. PICK k \in {j \in Nat : ~ \E f : EvWalk(f, q, e, j)} :
        \A j \in {j \in Nat : ~ \E f : EvWalk(f, q, e, j)} : k <= j
  BY <1>1, <1>2, LeastNatural
<1>4. k # 0
  <2>1. EvWalk([i \in 0 .. 0 |-> WalkStart(q, e)], q, e, 0)
    BY DEF EvWalk
  <2> QED BY <1>3, <2>1
<1>5. k - 1 \in Nat /\ ~ (k <= k - 1) /\ (k - 1) + 1 = k
  BY <1>3, <1>4
<1>6. PICK f : EvWalk(f, q, e, k - 1)
  BY <1>3, <1>5
<1> DEFINE g == [i \in 0 .. k |-> IF i = k THEN Visit(f[k - 1], q[k]) ELSE f[i]]
<1>7. g = [i \in 0 .. k |-> IF i = 0 THEN WalkStart(q, e) ELSE Visit(g[i - 1], q[i])]
  <2>1. \A i \in 0 .. k - 1 : f[i] = IF i = 0 THEN WalkStart(q, e) ELSE Visit(f[i - 1], q[i])
    BY <1>6 DEF EvWalk
  <2>2. ASSUME NEW i \in 0 .. k
        PROVE  g[i] = IF i = 0 THEN WalkStart(q, e) ELSE Visit(g[i - 1], q[i])
    <3>1. CASE i = k
      <4>1. k - 1 \in 0 .. k /\ k - 1 # k /\ k # 0
        BY <1>4, <1>5
      <4>2. g[k - 1] = f[k - 1] /\ g[k] = Visit(f[k - 1], q[k])
        BY <4>1
      <4> QED BY <3>1, <4>1, <4>2
    <3>2. CASE i # k
      <4>1. i \in 0 .. k - 1 /\ g[i] = f[i]
        BY <1>5, <3>2
      <4>2. i # 0 => i - 1 \in 0 .. k /\ i - 1 # k /\ g[i - 1] = f[i - 1]
        BY <1>5, <4>1
      <4> QED BY <2>1, <4>1, <4>2
    <3> QED BY <3>1, <3>2
  <2> QED BY <2>2
<1>8. EvWalk(g, q, e, k)
  BY <1>7 DEF EvWalk
<1> QED BY <1>3, <1>8

LEMMA ServedIsWalk ==
  ASSUME NEW q \in Seq(Thread), NEW e
  PROVE  \E f : /\ f[0] = WalkStart(q, e)
                /\ \A i \in 1 .. Len(q) : f[i] = Visit(f[i - 1], q[i])
                /\ Served(q, e) = f[Len(q)]
<1> DEFINE n == Len(q)
           f == CHOOSE g : EvWalk(g, q, e, n)
<1>1. EvWalk(f, q, e, n)
  <2>1. n \in Nat
    OBVIOUS
  <2>2. \E g : EvWalk(g, q, e, n)
    BY <2>1, EvWalkExists
  <2> QED BY <2>2
<1>2. Served(q, e) = f[n]
  BY DEF Served, EvWalk
<1> HIDE DEF f
<1>3. f = [i \in 0 .. n |-> IF i = 0 THEN WalkStart(q, e) ELSE Visit(f[i - 1], q[i])]
  BY <1>1 DEF EvWalk
<1>4. \A i \in 0 .. n : f[i] = IF i = 0 THEN WalkStart(q, e) ELSE Visit(f[i - 1], q[i])
  BY <1>3
<1>5. 0 \in 0 .. n /\ \A i \in 1 .. n : i \in 0 .. n /\ i # 0
  OBVIOUS
<1> HIDE DEF n
<1>6. f[0] = WalkStart(q, e) /\ \A i \in 1 .. n : f[i] = Visit(f[i - 1], q[i])
  BY <1>4, <1>5
<1> QED BY <1>2, <1>6 DEF n

(* What holds when the walk over q with the flags e has come to i: each    *)
(* thread served got what it asked for and left the list, and, if it       *)
(* clears, its flags are gone; the others that were visited would still    *)
(* not be served.                                                          *)
EvGot(gain, rest) ==
  \A t \in Thread :
    /\ gain[t] \subseteq eventSet[t]
    /\ eventInfo[t].and /\ gain[t] # {} => gain[t] = eventSet[t]
    /\ eventInfo[t].clear => gain[t] \intersect rest = {}

EvApart(gain) ==
  \A t, u \in Thread :
    t # u /\ eventInfo[t].clear /\ eventInfo[u].clear => gain[t] \intersect gain[u] = {}

EvLeft(gain, left, q) ==
  /\ left \in Seq(Thread) /\ NoDuplicates(left)
  /\ \A t \in Thread : Occurs(left, t) <=> Occurs(q, t) /\ gain[t] = {}

EvSeen(gain, rest, q, i) ==
  /\ \A t \in Thread : gain[t] # {} => \E j \in 1 .. i : q[j] = t
  /\ \A j \in 1 .. i : gain[q[j]] = {} => ~ Received(eventSet[q[j]], eventInfo[q[j]], rest)

EvVisited(w, q, e, i) ==
  /\ w.set \subseteq e /\ w.got \in [Thread -> SUBSET Flag]
  /\ EvGot(w.got, w.set) /\ EvApart(w.got)
  /\ EvLeft(w.got, w.left, q) /\ EvSeen(w.got, w.set, q, i)

EvLocals ==
  /\ set \subseteq Flag /\ evAlive \in BOOLEAN
  /\ eventSet \in [Thread -> SUBSET Flag] /\ eventInfo \in [Thread -> Options]

(* Fewer flags do not satisfy a receiver that more did not.                *)
LEMMA ReceivedLess ==
  ASSUME NEW s, NEW opt, NEW e, NEW f \in SUBSET e, Received(s, opt, f)
  PROVE  Received(s, opt, e)
<1>1. CASE opt.and
  BY <1>1 DEF Received
<1>2. CASE ~ opt.and
  BY <1>2 DEF Received
<1> QED BY <1>1, <1>2

(* What a receiver that asks for something gets is something.              *)
LEMMA ReceivedSome ==
  ASSUME NEW s, NEW opt, NEW e, Received(s, opt, e), s # {}
  PROVE  s \intersect e # {} /\ (opt.and => s \intersect e = s)
<1>1. CASE opt.and
  BY <1>1 DEF Received
<1>2. CASE ~ opt.and
  BY <1>2 DEF Received
<1> QED BY <1>1, <1>2

LEMMA VisitFacts ==
  ASSUME EvLocals, NEW q \in Seq(Thread), NoDuplicates(q), NEW e \in SUBSET Flag, NEW i \in Nat,
         NEW w, EvVisited(w, q, e, i), i + 1 \in 1 .. Len(q), eventSet[q[i + 1]] # {}
  PROVE  EvVisited(Visit(w, q[i + 1]), q, e, i + 1)
<1> DEFINE t == q[i + 1]
           r == Visit(w, t)
           gain == eventSet[t] \intersect w.set
           rest == IF eventInfo[t].clear THEN w.set \ gain ELSE w.set
<1>1. t \in Thread /\ Occurs(q, t) /\ \A j \in 1 .. i : q[j] \in Thread /\ q[j] # t
  <2>1. i + 1 \in 1 .. Len(q) /\ \A j \in 1 .. i : j \in 1 .. Len(q) /\ j # i + 1
    OBVIOUS
  <2> QED BY <2>1 DEF NoDuplicates, Occurs
<1>2. \A j \in 1 .. i + 1 : j = i + 1 \/ j \in 1 .. i
  OBVIOUS
<1>3. \A j \in 1 .. i : j \in 1 .. i + 1
  OBVIOUS
<1>4. i + 1 \in 1 .. i + 1
  OBVIOUS
<1>5. w.got[t] = {} /\ Occurs(w.left, t)
  BY <1>1 DEF EvVisited, EvSeen, EvLeft
<1>6. CASE ~ Received(eventSet[t], eventInfo[t], w.set)
  <2>1. r = w
    BY <1>6 DEF Visit
  <2> HIDE DEF r
  <2>2. EvSeen(w.got, w.set, q, i + 1)
    BY <1>2, <1>3, <1>6 DEF EvVisited, EvSeen
  <2>3. EvVisited(r, q, e, i + 1)
    BY <2>1, <2>2 DEF EvVisited
  <2> QED BY <2>3 DEF r
<1>7. CASE Received(eventSet[t], eventInfo[t], w.set)
  <2>1. gain # {} /\ (eventInfo[t].and => gain = eventSet[t]) /\ gain \subseteq w.set
    BY <1>7, ReceivedSome
  <2>2. /\ r.set = rest /\ r.got = [w.got EXCEPT ![t] = gain] /\ r.left = ListRemove(w.left, t)
    BY <1>7 DEF Visit
  <2> HIDE DEF r
  <2>3. /\ rest \subseteq w.set /\ w.set \subseteq e
        /\ eventInfo[t].clear => gain \intersect rest = {}
    BY DEF EvVisited
  <2>4. /\ r.got \in [Thread -> SUBSET Flag] /\ r.got[t] = gain
        /\ \A u \in Thread : u # t => r.got[u] = w.got[u]
    BY <1>1, <2>2, <2>3 DEF EvVisited
  <2> HIDE DEF rest
  <2>5. EvGot(r.got, r.set)
    <3>1. ASSUME NEW u \in Thread
          PROVE  /\ r.got[u] \subseteq eventSet[u]
                 /\ eventInfo[u].and /\ r.got[u] # {} => r.got[u] = eventSet[u]
                 /\ eventInfo[u].clear => r.got[u] \intersect r.set = {}
      <4>1. CASE u = t
        BY <2>1, <2>2, <2>3, <2>4, <4>1
      <4>2. CASE u # t
        <5>1. /\ w.got[u] \subseteq eventSet[u]
              /\ eventInfo[u].and /\ w.got[u] # {} => w.got[u] = eventSet[u]
              /\ eventInfo[u].clear => w.got[u] \intersect w.set = {}
          BY DEF EvVisited, EvGot
        <5> QED BY <2>2, <2>3, <2>4, <4>2, <5>1
      <4> QED BY <4>1, <4>2
    <3> QED BY <3>1 DEF EvGot
  <2>6. EvApart(r.got)
    <3>1. ASSUME NEW u \in Thread, u # t, eventInfo[u].clear
          PROVE  gain \intersect w.got[u] = {}
      BY <2>1, <3>1 DEF EvVisited, EvGot
    <3>2. ASSUME NEW u \in Thread, NEW v \in Thread, u # v, eventInfo[u].clear, eventInfo[v].clear
          PROVE  w.got[u] \intersect w.got[v] = {}
      BY <3>2 DEF EvVisited, EvApart
    <3> QED BY <2>4, <3>1, <3>2 DEF EvApart
  <2>7. EvLeft(r.got, r.left, q)
    <3>1. w.left \in Seq(Thread) /\ NoDuplicates(w.left)
          /\ \A u \in Thread : Occurs(w.left, u) <=> Occurs(q, u) /\ w.got[u] = {}
      BY DEF EvVisited, EvLeft
    <3>2. /\ r.left \in Seq(Thread) /\ NoDuplicates(r.left)
          /\ \A u : Occurs(r.left, u) <=> Occurs(w.left, u) /\ u # t
      BY <2>2, <3>1, RemoveFacts
    <3> QED BY <2>1, <2>4, <3>1, <3>2 DEF EvLeft
  <2>8. EvSeen(r.got, r.set, q, i + 1)
    <3>1. \A u \in Thread : w.got[u] # {} => \E j \in 1 .. i : q[j] = u
      BY DEF EvVisited, EvSeen
    <3>2. ASSUME NEW j \in 1 .. i, r.got[q[j]] = {}
          PROVE  ~ Received(eventSet[q[j]], eventInfo[q[j]], r.set)
      <4>1. w.got[q[j]] = {}
        BY <1>1, <2>4, <3>2
      <4>2. ~ Received(eventSet[q[j]], eventInfo[q[j]], w.set)
        BY <4>1 DEF EvVisited, EvSeen
      <4> QED BY <2>2, <2>3, <4>2, ReceivedLess
    <3>3. r.got[q[i + 1]] # {}
      BY <2>1, <2>4
    <3>4. ASSUME NEW u \in Thread, r.got[u] # {} PROVE \E j \in 1 .. i + 1 : q[j] = u
      BY <1>3, <1>4, <2>4, <3>1, <3>4
    <3> QED BY <1>2, <3>2, <3>3, <3>4 DEF EvSeen
  <2>9. r.set \subseteq e
    BY <2>2, <2>3
  <2>10. EvVisited(r, q, e, i + 1)
    BY <2>4, <2>5, <2>6, <2>7, <2>8, <2>9 DEF EvVisited
  <2> QED BY <2>10 DEF r
<1> QED BY <1>6, <1>7

LEMMA ServedFacts ==
  ASSUME EvLocals, NEW q \in Seq(Thread), NoDuplicates(q), NEW e \in SUBSET Flag,
         \A t \in Thread : Occurs(q, t) => eventSet[t] # {}
  PROVE  EvVisited(Served(q, e), q, e, Len(q))
<1>1. PICK f : /\ f[0] = WalkStart(q, e)
               /\ \A i \in 1 .. Len(q) : f[i] = Visit(f[i - 1], q[i])
               /\ Served(q, e) = f[Len(q)]
  BY ServedIsWalk
<1>2. EvVisited(f[0], q, e, 0)
  <2>1. WalkStart(q, e).set = e /\ WalkStart(q, e).got = [t \in Thread |-> {}]
        /\ WalkStart(q, e).left = q
    BY DEF WalkStart
  <2>2. \A t \in Thread : WalkStart(q, e).got[t] = {}
    BY <2>1
  <2> QED BY <1>1, <2>1, <2>2 DEF EvVisited, EvGot, EvApart, EvLeft, EvSeen
<1>3. ASSUME NEW i \in 1 .. Len(q), EvVisited(f[i - 1], q, e, i - 1)
      PROVE  EvVisited(f[i], q, e, i)
  <2>1. PICK k \in Nat : k = i - 1 /\ k + 1 = i
    OBVIOUS
  <2>2. q[i] \in Thread /\ Occurs(q, q[i])
    BY DEF Occurs
  <2>3. f[i] = Visit(f[k], q[k + 1]) /\ EvVisited(f[k], q, e, k) /\ k + 1 \in 1 .. Len(q)
    BY <1>1, <1>3, <2>1
  <2> QED BY <2>1, <2>2, <2>3, VisitFacts
<1>4. \A i \in 0 .. Len(q) : EvVisited(f[i], q, e, i)
  <2>1. SUFFICES ASSUME {i \in 0 .. Len(q) : ~ EvVisited(f[i], q, e, i)} # {} PROVE FALSE
    OBVIOUS
  <2>2. {i \in 0 .. Len(q) : ~ EvVisited(f[i], q, e, i)} \in SUBSET Nat
    OBVIOUS
  <2>3. PICK k \in {i \in 0 .. Len(q) : ~ EvVisited(f[i], q, e, i)} :
          \A j \in {i \in 0 .. Len(q) : ~ EvVisited(f[i], q, e, i)} : k <= j
    BY <2>1, <2>2, LeastNatural
  <2>4. k # 0
    BY <1>2, <2>3
  <2>5. k \in 1 .. Len(q) /\ k - 1 \in 0 .. Len(q) /\ ~ (k <= k - 1)
    BY <2>3, <2>4
  <2>6. EvVisited(f[k - 1], q, e, k - 1)
    BY <2>3, <2>5
  <2> QED BY <1>3, <2>3, <2>5, <2>6
<1>5. Len(q) \in 0 .. Len(q)
  OBVIOUS
<1> QED BY <1>1, <1>4, <1>5
----------------------------------------------------------------------------
(* The inductive invariant: whoever is in the wait list asks for something *)
(* and does not have it.                                                   *)
EvWaiting == {"ev_wait", "ev_woken"}
EvEntering == {"ev_wait"}
EvThreads == ThreadTypeOK(EventPlaces) /\ Coherent(EvEntering)
EvUnserved ==
  \A t \in Thread : Occurs(evWaiters, t) =>
    eventSet[t] # {} /\ ~ Received(eventSet[t], eventInfo[t], set)

EvInv == EvThreads /\ EvLocals /\ WaitsAt(evWaiters, EvWaiting) /\ EvUnserved

LEMMA EvInvMeans ==
  ASSUME EvInv
  PROVE  EventTypeOK /\ EventNoneOverlooked
BY DEF EvInv, EvThreads, EvLocals, WaitsAt, EvWaiting, EvUnserved, EventTypeOK,
       EventNoneOverlooked

(* A step that takes nobody off the list without an error gives nothing.   *)
LEMMA NothingGiven ==
  ASSUME \A t \in Thread : Occurs(evWaiters, t) =>
           Occurs(evWaiters', t) \/ error'[t] # "RT_EOK"
  PROVE  GivenOnce
BY DEF GivenOnce

LEMMA EvCaller ==
  ASSUME EvInv, NEW t \in Thread, cur = t, pc[t] \notin EvEntering
  PROVE  stat[t] = "ready" /\ ~ Occurs(evWaiters, t)
BY DEF EvInv, EvThreads, Coherent, WaitsAt

(* The same threads wait, for the same, and no flag is raised.             *)
LEMMA StillUnserved ==
  ASSUME EvInv, set' \subseteq set,
         \A t \in Thread : Occurs(evWaiters', t) =>
           Occurs(evWaiters, t) /\ eventSet'[t] = eventSet[t] /\ eventInfo'[t] = eventInfo[t]
  PROVE  EvUnserved'
<1>1. ASSUME NEW t \in Thread, Occurs(evWaiters', t)
      PROVE  eventSet'[t] # {} /\ ~ Received(eventSet'[t], eventInfo'[t], set')
  <2>1. /\ Occurs(evWaiters, t) /\ eventSet'[t] = eventSet[t] /\ eventInfo'[t] = eventInfo[t]
        /\ eventSet[t] # {} /\ ~ Received(eventSet[t], eventInfo[t], set)
    BY <1>1 DEF EvInv, EvUnserved
  <2> QED BY <2>1, ReceivedLess
<1>2. EvUnserved' <=> \A t \in Thread : Occurs(evWaiters', t) =>
                        eventSet'[t] # {} /\ ~ Received(eventSet'[t], eventInfo'[t], set')
  BY DEF EvUnserved, Received
<1> QED BY <1>1, <1>2

(* A step of one thread that is not waiting.                               *)
LEMMA EvRunner ==
  ASSUME EvInv, NEW t \in Thread, NEW to \in EventPlaces, to \notin EvWaiting,
         cur = t, pc[t] \notin EvEntering, Goto(t, to),
         UNCHANGED <<stat, prio, cur, armed, evWaiters>>,
         error' \in [Thread -> Errors], \A u \in Thread : u # t => error'[u] = error[u],
         EvLocals', set' \subseteq set,
         \A u \in Thread : u # t => eventSet'[u] = eventSet[u] /\ eventInfo'[u] = eventInfo[u]
  PROVE  EvInv' /\ GivenOnce
<1>1. /\ ThreadTypeOK(EventPlaces)' /\ Coherent(EvEntering)'
      /\ stat[t] = "ready"
      /\ pc'[t] = to /\ \A u \in Thread : u # t => pc'[u] = pc[u]
  BY RunnerFacts DEF EvInv, EvThreads
<1>2. WaitsAt(evWaiters, EvWaiting)'
  BY <1>1 DEF EvInv, WaitsAt
<1>3. ~ Occurs(evWaiters, t)
  BY EvCaller
<1>4. EvUnserved'
  BY <1>3, StillUnserved
<1> QED BY <1>1, <1>2, <1>4, NothingGiven DEF EvInv, EvThreads

(* rt_event_recv.                                                          *)
LEMMA RecvStep ==
  ASSUME EvInv, NEW t \in Thread, NEW ask \in Asks, NEW w \in EventWaits,
         EventRecv(t, ask[1], ask[2], w)
  PROVE  EvInv' /\ GivenOnce
<1>0. PICK s \in FlagSets, opt \in Options : s = ask[1] /\ opt = ask[2]
  <2>1. ask \in FlagSets \X Options
    BY EventAssumption
  <2> QED BY <2>1
<1>1. /\ cur = t /\ pc[t] = "run" /\ pc[t] \notin EvEntering /\ stat[t] = "ready"
      /\ ~ Occurs(evWaiters, t) /\ s \subseteq Flag /\ s # {}
      /\ "run" \in EventPlaces /\ "run" \notin EvWaiting
  <2>1. cur = t /\ pc[t] = "run" /\ pc[t] \notin EvEntering
    <3>1. Running(t)
      BY DEF EventRecv
    <3> QED BY <3>1 DEF Running, EvEntering
  <2>2. "run" \in EventPlaces /\ "run" \notin EvWaiting /\ s \subseteq Flag /\ s # {}
    BY DEF EvWaiting, EventPlaces, FlagSets
  <2> QED BY <2>1, <2>2, EvCaller
<1>2. /\ eventSet \in [Thread -> SUBSET Flag] /\ eventInfo \in [Thread -> Options]
      /\ error \in [Thread -> Errors] /\ pc \in [Thread -> EventPlaces]
  BY DEF EvInv, EvLocals, EvThreads, ThreadTypeOK
<1>3. CASE EventRecvNow(t, s, opt) \/ EventRecvNothing(t, s, opt)
  <2>1. /\ UNCHANGED <<stat, prio, cur, armed, pc, evWaiters, evAlive>> /\ set' \subseteq set
        /\ error' \in [Thread -> Errors] /\ \A u \in Thread : u # t => error'[u] = error[u]
        /\ eventSet' \in [Thread -> SUBSET Flag] /\ eventInfo' \in [Thread -> Options]
        /\ \A u \in Thread : u # t => eventSet'[u] = eventSet[u] /\ eventInfo'[u] = eventInfo[u]
    <3>1. CASE EventRecvNow(t, s, opt)
      BY <1>1, <1>2, <3>1 DEF EventRecvNow, Errors
    <3>2. CASE EventRecvNothing(t, s, opt)
      BY <1>2, <3>2 DEF EventRecvNothing, Errors
    <3> QED BY <1>3, <3>1, <3>2
  <2>2. Goto(t, "run")
    BY <1>1, <1>2, <2>1 DEF Goto
  <2>3. EvLocals'
    BY <2>1 DEF EvInv, EvLocals
  <2> QED BY <1>1, <2>1, <2>2, <2>3, EvRunner
<1>4. CASE EventRecvBlock(t, s, opt, w)
  <2>1. /\ ~ Received(s, opt, set) /\ Block(t, w = "some", "ev_wait")
        /\ UNCHANGED <<prio, cur, set, evAlive>>
        /\ evWaiters' = Enqueued(evWaiters, t)
        /\ eventSet' = [eventSet EXCEPT ![t] = s] /\ eventInfo' = [eventInfo EXCEPT ![t] = opt]
    BY <1>4 DEF EventRecvBlock
  <2>2. PICK timed \in BOOLEAN, to \in EventPlaces \intersect EvEntering :
          Block(t, timed, to) /\ to = "ev_wait"
    BY <2>1 DEF EventPlaces, EvEntering
  <2>3. /\ ThreadTypeOK(EventPlaces)' /\ Coherent(EvEntering)'
        /\ stat'[t] = "suspend" /\ pc'[t] = "ev_wait"
        /\ \A u \in Thread : u # t =>
             pc'[u] = pc[u] /\ stat'[u] = stat[u] /\ error'[u] = error[u]
    BY <1>1, <2>1, <2>2, BlockFacts DEF EvInv, EvThreads
  <2>4. /\ evWaiters' \in Seq(Thread) /\ NoDuplicates(evWaiters')
        /\ \A x : Occurs(evWaiters', x) <=> x = t \/ Occurs(evWaiters, x)
    BY <1>1, <2>1, EnqueuedFacts DEF EvInv, EvThreads, ThreadTypeOK, WaitsAt
  <2>5. WaitsAt(evWaiters, EvWaiting)'
    BY <2>3, <2>4 DEF EvInv, WaitsAt, EvWaiting
  <2>6. /\ eventSet' \in [Thread -> SUBSET Flag] /\ eventInfo' \in [Thread -> Options]
        /\ eventSet'[t] = s /\ eventInfo'[t] = opt
        /\ \A u \in Thread : u # t => eventSet'[u] = eventSet[u] /\ eventInfo'[u] = eventInfo[u]
    BY <1>1, <1>2, <2>1
  <2>7. EvLocals'
    BY <2>1, <2>6 DEF EvInv, EvLocals
  <2>8. ASSUME NEW u \in Thread, Occurs(evWaiters', u)
        PROVE  eventSet'[u] # {} /\ ~ Received(eventSet'[u], eventInfo'[u], set')
    <3>1. CASE u = t
      BY <1>1, <2>1, <2>6, <3>1
    <3>2. CASE u # t
      <4>1. eventSet[u] # {} /\ ~ Received(eventSet[u], eventInfo[u], set)
        BY <2>4, <2>8, <3>2 DEF EvInv, EvUnserved
      <4> QED BY <2>1, <2>6, <3>2, <4>1
    <3> QED BY <3>1, <3>2
  <2>9. EvUnserved'
    BY <2>8 DEF EvUnserved, Received
  <2> QED BY <2>3, <2>4, <2>5, <2>7, <2>9, NothingGiven DEF EvInv, EvThreads
<1>5. EventRecvNow(t, s, opt) \/ EventRecvNothing(t, s, opt) \/ EventRecvBlock(t, s, opt, w)
  <2>1. EventRecv(t, s, opt, w)
    BY <1>0
  <2> QED BY <2>1 DEF EventRecv
<1> QED BY <1>3, <1>4, <1>5

(* rt_event_send.                                                          *)
LEMMA RaiseStep ==
  ASSUME EvInv, NEW s \in FlagSets, NEW woken \in SUBSET Thread, RaiseFlags(s, woken),
         \/ \E t \in Thread, to \in {"ev_post", "run"} :
              cur = t /\ pc[t] = "run" /\ Goto(t, to) /\ UNCHANGED cur
         \/ pc' = pc /\ (Dispatch \/ UNCHANGED cur)
  PROVE  EvInv' /\ GivenOnce
<1>1. /\ set \union s \in SUBSET Flag
      /\ evWaiters \in Seq(Thread) /\ NoDuplicates(evWaiters)
      /\ eventSet \in [Thread -> SUBSET Flag]
      /\ \A t \in Thread : Occurs(evWaiters, t) <=> stat[t] = "suspend" /\ pc[t] \in EvWaiting
      /\ \A t \in Thread : Occurs(evWaiters, t) => eventSet[t] # {}
  BY DEF EvInv, EvLocals, EvUnserved, WaitsAt, FlagSets
<1>2. PICK w : w = Served(evWaiters, set \union s)
  OBVIOUS
<1>3. EvVisited(w, evWaiters, set \union s, Len(evWaiters))
  BY <1>1, <1>2, ServedFacts DEF EvInv
<1>4. /\ w.set \subseteq Flag /\ w.got \in [Thread -> SUBSET Flag]
      /\ EvGot(w.got, w.set) /\ EvApart(w.got)
      /\ EvLeft(w.got, w.left, evWaiters) /\ EvSeen(w.got, w.set, evWaiters, Len(evWaiters))
  BY <1>1, <1>3 DEF EvVisited
<1>5. /\ woken = {t \in Thread : w.got[t] # {}} /\ set' = w.set /\ evWaiters' = w.left
      /\ eventSet' = [t \in Thread |-> IF t \in woken THEN w.got[t] ELSE eventSet[t]]
      /\ stat' = [t \in Thread |-> IF t \in woken THEN "ready" ELSE stat[t]]
      /\ armed' = armed \ woken
      /\ UNCHANGED <<prio, error, evAlive, eventInfo>>
  BY <1>2 DEF RaiseFlags
<1>6. /\ \A t \in Thread : t \in woken <=> w.got[t] # {}
      /\ \A t \in woken : Occurs(evWaiters, t)
      /\ evWaiters' \in Seq(Thread) /\ NoDuplicates(evWaiters')
      /\ \A t \in Thread : Occurs(evWaiters', t) <=> Occurs(evWaiters, t) /\ t \notin woken
  BY <1>4, <1>5 DEF EvLeft, EvSeen, Occurs
<1>7. /\ eventSet' \in [Thread -> SUBSET Flag]
      /\ \A t \in Thread : eventSet'[t] = IF t \in woken THEN w.got[t] ELSE eventSet[t]
      /\ stat' \in [Thread -> {"ready", "suspend"}]
      /\ \A t \in Thread : stat'[t] = IF t \in woken THEN "ready" ELSE stat[t]
      /\ armed' \subseteq armed /\ \A t \in armed' : t \notin woken
  BY <1>1, <1>4, <1>5 DEF EvInv, EvThreads, ThreadTypeOK
<1>8. EvLocals'
  BY <1>4, <1>5, <1>7 DEF EvInv, EvLocals
<1>9. EvUnserved'
  <2>1. ASSUME NEW t \in Thread, Occurs(evWaiters', t)
        PROVE  eventSet'[t] # {} /\ ~ Received(eventSet'[t], eventInfo'[t], set')
    <3>1. Occurs(evWaiters, t) /\ t \notin woken /\ w.got[t] = {}
      BY <1>6, <2>1
    <3>2. PICK j \in 1 .. Len(evWaiters) : evWaiters[j] = t
      BY <3>1 DEF Occurs
    <3>3. ~ Received(eventSet[t], eventInfo[t], w.set)
      BY <1>4, <3>1, <3>2 DEF EvSeen
    <3> QED BY <1>1, <1>5, <1>7, <3>1, <3>3
  <2> QED BY <2>1 DEF EvUnserved, Received
<1>10. /\ pc' \in [Thread -> EventPlaces]
       /\ \A t \in Thread : pc'[t] \in EvWaiting <=> pc[t] \in EvWaiting
       /\ \A t \in Thread : pc'[t] # pc[t] => cur = t /\ pc[t] = "run" /\ cur' = cur
  BY DEF EvInv, EvThreads, ThreadTypeOK, Goto, EventPlaces, EvWaiting
<1>11. WaitsAt(evWaiters, EvWaiting)'
  BY <1>1, <1>6, <1>7, <1>10 DEF WaitsAt
<1>12. EvThreads'
  <2>1. cur' \in Thread \union {Idle}
    BY DispatchFacts DEF EvInv, EvThreads, ThreadTypeOK
  <2>2. ThreadTypeOK(EventPlaces)'
    BY <1>5, <1>7, <1>10, <2>1 DEF EvInv, EvThreads, ThreadTypeOK
  <2>3. /\ \A t \in Thread : stat'[t] = "suspend" => error'[t] = "RT_EOK"
        /\ \A t \in armed' : stat'[t] = "suspend"
    BY <1>5, <1>7 DEF EvInv, EvThreads, Coherent, ThreadTypeOK
  <2>4. cur' \in Thread /\ pc'[cur'] \notin EvEntering => stat'[cur'] = "ready"
    <3>1. CASE Dispatch
      BY <3>1, DispatchFacts
    <3>2. CASE cur' = cur
      <4>1. cur \in Thread /\ pc[cur] \notin EvEntering => stat[cur] = "ready"
        BY DEF EvInv, EvThreads, Coherent
      <4>2. cur \in Thread /\ pc'[cur] \notin EvEntering => pc[cur] \notin EvEntering
        BY <1>10 DEF EvEntering
      <4> QED BY <1>7, <3>2, <4>1, <4>2
    <3> QED BY <3>1, <3>2
  <2> QED BY <2>2, <2>3, <2>4 DEF EvThreads, Coherent
<1>13. GivenOnce
  <2>1. \A t \in Thread : Occurs(evWaiters, t) /\ ~ Occurs(evWaiters', t) => t \in woken
    BY <1>6
  <2>2. \A t \in woken : eventSet'[t] = w.got[t] /\ w.got[t] # {}
    BY <1>6, <1>7
  <2>3. ASSUME NEW t \in woken
        PROVE  /\ eventSet'[t] # {} /\ eventSet'[t] \subseteq eventSet[t]
               /\ eventInfo[t].and => eventSet'[t] = eventSet[t]
               /\ eventInfo[t].clear => eventSet'[t] \intersect set' = {}
    BY <1>4, <1>5, <2>2 DEF EvGot
  <2>4. ASSUME NEW t \in woken, NEW u \in woken, t # u, eventInfo[t].clear, eventInfo[u].clear
        PROVE  eventSet'[t] \intersect eventSet'[u] = {}
    BY <1>4, <2>2, <2>4 DEF EvApart
  <2> QED BY <2>1, <2>3, <2>4 DEF GivenOnce
<1> QED BY <1>8, <1>9, <1>11, <1>12, <1>13 DEF EvInv

(* RT_IPC_CMD_RESET.                                                       *)
LEMMA EvResetStep ==
  ASSUME EvInv, NEW t \in Thread, EventReset(t)
  PROVE  EvInv' /\ GivenOnce
<1>1. /\ cur = t /\ pc[t] = "run" /\ WakeAll(evWaiters) /\ evWaiters' = <<>> /\ set' = {}
      /\ Goto(t, "ev_post") /\ UNCHANGED <<prio, cur, evAlive, eventSet, eventInfo>>
  BY DEF EventReset, Running
<1>2. /\ stat' \in [Thread -> {"ready", "suspend"}] /\ error' \in [Thread -> Errors]
      /\ \A x \in Thread :
           /\ stat'[x] = IF Occurs(evWaiters, x) THEN "ready" ELSE stat[x]
           /\ error'[x] = IF Occurs(evWaiters, x) THEN "RT_ERROR" ELSE error[x]
      /\ armed' \subseteq Thread /\ \A x \in armed' : stat'[x] = "suspend"
  BY <1>1, WakeAllFacts DEF EvInv, EvThreads
<1>3. /\ pc' \in [Thread -> EventPlaces] /\ pc'[t] = "ev_post"
      /\ \A x \in Thread : x # t => pc'[x] = pc[x]
  BY <1>1 DEF EvInv, EvThreads, ThreadTypeOK, Goto, EventPlaces
<1>4. stat[t] = "ready"
  BY <1>1, EvCaller DEF EvEntering
<1>5. ThreadTypeOK(EventPlaces)'
  BY <1>1, <1>2, <1>3 DEF EvInv, EvThreads, ThreadTypeOK
<1>6. Coherent(EvEntering)'
  BY <1>1, <1>2, <1>3, <1>4 DEF EvInv, EvThreads, Coherent
<1>7. evWaiters' \in Seq(Thread) /\ NoDuplicates(evWaiters') /\ \A x : ~ Occurs(evWaiters', x)
  BY <1>1, EmptyFacts
<1>8. \A x \in Thread : ~ (stat'[x] = "suspend" /\ pc'[x] \in EvWaiting)
  BY <1>1, <1>2, <1>3 DEF EvInv, WaitsAt, EvWaiting
<1>9. WaitsAt(evWaiters, EvWaiting)'
  BY <1>7, <1>8 DEF WaitsAt
<1>10. EvLocals'
  BY <1>1 DEF EvInv, EvLocals
<1>11. EvUnserved'
  BY <1>7 DEF EvUnserved
<1>12. GivenOnce
  BY <1>2, NothingGiven
<1> QED BY <1>5, <1>6, <1>9, <1>10, <1>11, <1>12 DEF EvInv, EvThreads

(* rt_event_detach wakes one more waiter, with an error.                   *)
LEMMA EvDrainOneStep ==
  ASSUME EvInv, NEW t \in Thread, EventDrainOne(t)
  PROVE  EvInv' /\ GivenOnce
<1>1. PICK u : u = Head(evWaiters)
  OBVIOUS
<1>2. /\ cur = t /\ pc[t] = "ev_drain_one" /\ evWaiters # <<>> /\ Wake(u)
      /\ error' = [error EXCEPT ![u] = "RT_ERROR"] /\ evWaiters' = Tail(evWaiters)
      /\ Goto(t, "ev_drain") /\ UNCHANGED <<prio, cur, set, evAlive, eventSet, eventInfo>>
  BY <1>1 DEF EventDrainOne, At
<1>3. /\ evWaiters \in Seq(Thread) /\ NoDuplicates(evWaiters)
      /\ \A x \in Thread : Occurs(evWaiters, x) <=> stat[x] = "suspend" /\ pc[x] \in EvWaiting
  BY DEF EvInv, WaitsAt
<1>4. /\ u \in Thread /\ Occurs(evWaiters, u)
      /\ stat[u] = "suspend" /\ error[u] = "RT_EOK" /\ stat'[u] = "ready"
      /\ stat' \in [Thread -> {"ready", "suspend"}]
      /\ \A x \in Thread : x # u => stat'[x] = stat[x]
      /\ armed' \subseteq armed /\ \A x \in armed' : stat'[x] = "suspend"
      /\ evWaiters' \in Seq(Thread) /\ NoDuplicates(evWaiters')
      /\ \A x : Occurs(evWaiters', x) <=> Occurs(evWaiters, x) /\ x # u
  BY <1>1, <1>2, <1>3, WakeFirstFacts DEF EvInv, EvThreads
<1>5. /\ pc' \in [Thread -> EventPlaces] /\ pc'[t] = "ev_drain"
      /\ \A x \in Thread : x # t => pc'[x] = pc[x]
  BY <1>2 DEF EvInv, EvThreads, ThreadTypeOK, Goto, EventPlaces
<1>6. /\ error' \in [Thread -> Errors] /\ error'[u] = "RT_ERROR"
      /\ \A x \in Thread : x # u => error'[x] = error[x]
  BY <1>2, <1>4 DEF EvInv, EvThreads, ThreadTypeOK, Errors
<1>7. stat[t] = "ready" /\ u # t
  BY <1>2, <1>4 DEF EvInv, EvThreads, Coherent, EvEntering
<1>8. ThreadTypeOK(EventPlaces)'
  BY <1>2, <1>4, <1>5, <1>6 DEF EvInv, EvThreads, ThreadTypeOK
<1>9. Coherent(EvEntering)'
  BY <1>2, <1>4, <1>6, <1>7 DEF EvInv, EvThreads, Coherent
<1>10. WaitsAt(evWaiters, EvWaiting)'
  BY <1>2, <1>3, <1>4, <1>5 DEF WaitsAt, EvWaiting
<1>11. EvUnserved'
  BY <1>2, <1>4, StillUnserved
<1>12. EvLocals'
  BY <1>2 DEF EvInv, EvLocals
<1>13. GivenOnce
  BY <1>4, <1>6, NothingGiven
<1> QED BY <1>8, <1>9, <1>10, <1>11, <1>12, <1>13 DEF EvInv, EvThreads

(* A receiver whose time is over leaves the list with -RT_ETIMEOUT.        *)
LEMMA EvTimeoutStep ==
  ASSUME EvInv, NEW u \in Thread, EventTimeout(u)
  PROVE  EvInv' /\ GivenOnce
<1>1. /\ TimeoutOf(u) /\ evWaiters' = ListRemove(evWaiters, u)
      /\ UNCHANGED <<set, evAlive, eventSet, eventInfo>>
  BY DEF EventTimeout
<1>2. /\ ThreadTypeOK(EventPlaces)' /\ Coherent(EvEntering)' /\ UNCHANGED <<prio, pc>>
      /\ stat[u] = "suspend" /\ stat'[u] = "ready" /\ error'[u] = "RT_ETIMEOUT"
      /\ \A t \in Thread : t # u => stat'[t] = stat[t] /\ error'[t] = error[t]
  BY <1>1, TimeoutFacts DEF EvInv, EvThreads
<1>3. evWaiters \in Seq(Thread) /\ NoDuplicates(evWaiters)
  BY DEF EvInv, WaitsAt
<1>4. /\ evWaiters' \in Seq(Thread) /\ NoDuplicates(evWaiters')
      /\ \A x : Occurs(evWaiters', x) <=> Occurs(evWaiters, x) /\ x # u
  BY <1>1, <1>3, RemoveFacts
<1>5. WaitsAt(evWaiters, EvWaiting)'
  BY <1>2, <1>4 DEF EvInv, WaitsAt
<1>6. EvUnserved'
  BY <1>1, <1>4, StillUnserved
<1>7. EvLocals'
  BY <1>1 DEF EvInv, EvLocals
<1>8. GivenOnce
  BY <1>2, <1>4, NothingGiven
<1> QED BY <1>2, <1>5, <1>6, <1>7, <1>8 DEF EvInv, EvThreads

(* rt_schedule() after a call has put itself to sleep, or at its end.      *)
LEMMA EvScheduleStep ==
  ASSUME EvInv, NEW t \in Thread, EventRecvSchedule(t) \/ EventPostSchedule(t)
  PROVE  EvInv' /\ GivenOnce
<1>1. PICK from, to \in EventPlaces :
        Reschedule(t, from, to) /\ (from \in EvWaiting <=> to \in EvWaiting)
  BY DEF EventRecvSchedule, EventPostSchedule, EvWaiting, EventPlaces
<1>2. UNCHANGED <<set, evWaiters, evAlive, eventSet, eventInfo>>
  BY DEF EventRecvSchedule, EventPostSchedule, eventVars
<1>3. /\ ThreadTypeOK(EventPlaces)' /\ Coherent(EvEntering)'
      /\ UNCHANGED <<stat, prio, armed, error>>
      /\ pc[t] = from /\ pc'[t] = to /\ \A u \in Thread : u # t => pc'[u] = pc[u]
  BY <1>1, RescheduleFacts DEF EvInv, EvThreads
<1>4. \A u \in Thread : pc'[u] \in EvWaiting <=> pc[u] \in EvWaiting
  BY <1>1, <1>3
<1>5. WaitsAt(evWaiters, EvWaiting)'
  BY <1>2, <1>3, <1>4 DEF EvInv, WaitsAt
<1>6. EvUnserved' /\ EvLocals'
  BY <1>2, StillUnserved DEF EvInv, EvLocals
<1>7. GivenOnce
  BY <1>2, NothingGiven
<1> QED BY <1>3, <1>5, <1>6, <1>7 DEF EvInv, EvThreads

LEMMA EvNextStep ==
  ASSUME EvInv, [EventNext]_<<threadVars, eventVars>>
  PROVE  EvInv' /\ [GivenOnce]_<<threadVars, eventVars>>
<1>1. ASSUME NEW t \in Thread, EventRecvSchedule(t) \/ EventPostSchedule(t)
      PROVE  EvInv' /\ GivenOnce
  BY <1>1, EvScheduleStep
<1>2. ASSUME NEW t \in Thread, EventRecvReturn(t) \/ EventDetach(t) \/ EventDrainTest(t)
      PROVE  EvInv' /\ GivenOnce
  <2>1. PICK to \in EventPlaces \ EvWaiting : Goto(t, to)
    BY <1>2 DEF EventRecvReturn, EventDetach, EventDrainTest, EventPlaces, EvWaiting
  <2>2. /\ cur = t /\ UNCHANGED <<stat, prio, cur, armed, error, evWaiters>>
        /\ UNCHANGED <<set, eventSet, eventInfo>> /\ pc[t] \notin EvEntering
    BY <1>2 DEF EventRecvReturn, EventDetach, EventDrainTest, Running, At, eventVars, EvEntering
  <2>3. EvLocals'
    BY <1>2, <2>2 DEF EventRecvReturn, EventDetach, EventDrainTest, eventVars, EvInv, EvLocals
  <2>4. error' \in [Thread -> Errors] /\ \A u \in Thread : u # t => error'[u] = error[u]
    BY <2>2 DEF EvInv, EvThreads, ThreadTypeOK
  <2> QED BY <2>1, <2>2, <2>3, <2>4, EvRunner
<1>3. ASSUME NEW t \in Thread, EventReset(t)
      PROVE  EvInv' /\ GivenOnce
  BY <1>3, EvResetStep
<1>4. ASSUME NEW t \in Thread, EventDrainOne(t)
      PROVE  EvInv' /\ GivenOnce
  BY <1>4, EvDrainOneStep
<1>5. ASSUME NEW t \in Thread, EventTimeout(t)
      PROVE  EvInv' /\ GivenOnce
  BY <1>5, EvTimeoutStep
<1>6. ASSUME NEW t \in Thread, NEW s \in FlagSets, EventSend(t, s)
      PROVE  EvInv' /\ GivenOnce
  <2>1. PICK woken \in SUBSET Thread :
          RaiseFlags(s, woken) /\ Goto(t, IF woken = {} THEN "run" ELSE "ev_post")
    BY <1>6 DEF EventSend
  <2>2. PICK to \in {"ev_post", "run"} : Goto(t, to)
    BY <2>1
  <2>3. cur = t /\ pc[t] = "run" /\ UNCHANGED cur
    BY <1>6 DEF EventSend, Running
  <2> QED BY <2>1, <2>2, <2>3, RaiseStep
<1>7. ASSUME NEW s \in FlagSets, EventSendFromIsr(s)
      PROVE  EvInv' /\ GivenOnce
  <2>1. PICK woken \in SUBSET Thread :
          RaiseFlags(s, woken) /\ pc' = pc /\ (Dispatch \/ UNCHANGED cur)
    BY <1>7 DEF EventSendFromIsr
  <2> QED BY <2>1, RaiseStep
<1>8. ASSUME NEW t \in Thread, NEW ask \in Asks, NEW w \in EventWaits,
             EventRecv(t, ask[1], ask[2], w)
      PROVE  EvInv' /\ GivenOnce
  BY <1>8, RecvStep
<1>9. CASE SliceEnd /\ UNCHANGED eventVars
  <2>1. /\ EvThreads' /\ UNCHANGED <<stat, prio, armed, error, pc>>
        /\ UNCHANGED <<set, evWaiters, evAlive, eventSet, eventInfo>>
    BY <1>9, SliceFacts DEF EvInv, EvThreads, eventVars
  <2>2. EvLocals' /\ WaitsAt(evWaiters, EvWaiting)' /\ EvUnserved'
    BY <2>1, StillUnserved DEF EvInv, EvLocals, WaitsAt
  <2> QED BY <2>1, <2>2, NothingGiven DEF EvInv
<1>10. CASE UNCHANGED <<threadVars, eventVars>>
  <2>1. /\ UNCHANGED <<stat, prio, cur, armed, error, pc>>
        /\ UNCHANGED <<set, evWaiters, evAlive, eventSet, eventInfo>>
    BY <1>10 DEF threadVars, eventVars
  <2>2. EvUnserved'
    BY <2>1, StillUnserved
  <2>3. EvThreads' /\ EvLocals' /\ WaitsAt(evWaiters, EvWaiting)'
    BY <2>1 DEF EvInv, EvThreads, ThreadTypeOK, Coherent, EvLocals, WaitsAt
  <2> QED BY <1>10, <2>2, <2>3 DEF EvInv
<1> QED
  BY <1>1, <1>2, <1>3, <1>4, <1>5, <1>6, <1>7, <1>8, <1>9, <1>10, Zenon DEF EventNext

LEMMA EvInitStep == EventInit => EvInv
<1> SUFFICES ASSUME EventInit PROVE EvInv
  OBVIOUS
<1>1. EvThreads
  BY IpcAssumption
     DEF EventInit, ThreadInit, EvThreads, ThreadTypeOK, Coherent, EventPlaces, Errors, EvEntering
<1>2. EvLocals
  BY DEF EventInit, EvLocals, Options
<1>3. evWaiters = <<>> /\ \A t \in Thread : stat[t] = "ready"
  BY DEF EventInit, ThreadInit
<1>4. evWaiters \in Seq(Thread) /\ NoDuplicates(evWaiters) /\ \A x : ~ Occurs(evWaiters, x)
  BY <1>3, EmptyFacts
<1> QED BY <1>1, <1>2, <1>3, <1>4 DEF EvInv, WaitsAt, EvUnserved

LEMMA EvInvHolds == EventSpec => []EvInv
<1>1. EvInv /\ [EventNext]_<<threadVars, eventVars>> => EvInv'
  BY EvNextStep
<1> QED BY <1>1, EvInitStep, PTL DEF EventSpec

(* Every variable of the event object keeps its type.                      *)
THEOREM EventTypeCorrect == EventSpec => []EventTypeOK
BY EvInvHolds, EvInvMeans, PTL

(* Nobody is overlooked by rt_event_send: whatever is sent, received and   *)
(* cleared, a thread in the wait list lacks what it waits for, and the     *)
(* list holds exactly the threads blocked in rt_event_recv.                *)
THEOREM EventOverlooksNobody == EventSpec => []EventNoneOverlooked
BY EvInvHolds, EvInvMeans, PTL

(* What rt_event_send gives is what was asked for, and no flag goes to two *)
(* receivers that clear it, or stays raised after one.                     *)
THEOREM EventFlagsGivenOnce == EventSpec => EventGivesOnce
<1>1. EvInv /\ [EventNext]_<<threadVars, eventVars>> => [GivenOnce]_<<threadVars, eventVars>>
  BY EvNextStep
<1> QED BY <1>1, EvInvHolds, PTL DEF EventSpec, EventGivesOnce
----------------------------------------------------------------------------
(* The memory pool for any number of blocks, threads and owners.           *)
(* The free blocks form one chain from block_list, as long as the count    *)
(* says; every other block is with exactly one owner and names the pool.   *)
FreeBlocks(c) ==
  /\ c \in Seq(PoolBlock) /\ NoDuplicates(c) /\ Len(c) = freeCount
  /\ Chain(c, word, blockList, NullBlock)
  /\ \A b \in PoolBlock : Occurs(c, b) \/ \E o \in MpOwner : b \in taken[o]

PoolInv ==
  /\ word \in [PoolBlock -> PoolBlock \union {NullBlock, ThePool}]
  /\ taken \in [MpOwner -> SUBSET PoolBlock]
  /\ \A o \in MpOwner :
       /\ \A b \in taken[o] : word[b] = ThePool
       /\ \A p \in MpOwner \ {o} : taken[o] \intersect taken[p] = {}
  /\ \E c : FreeBlocks(c)

LEMMA PoolConstants ==
  /\ NullBlock \notin PoolBlock /\ ThePool \notin PoolBlock /\ NullBlock # ThePool
  /\ Cardinality(PoolBlock) \in Nat /\ Cardinality(PoolBlock) > 0
  /\ \A c \in Seq(PoolBlock) : NoDuplicates(c) =>
       /\ Len(c) <= Cardinality(PoolBlock)
       /\ Len(c) = Cardinality(PoolBlock) => \A b \in PoolBlock : Occurs(c, b)
<1>1. Cardinality(PoolBlock) \in Nat /\ Cardinality(PoolBlock) > 0
  BY MempoolAssumption, FS_CardinalityType, FS_EmptySet
<1>2. \A c \in Seq(PoolBlock) : NoDuplicates(c) =>
        /\ Len(c) <= Cardinality(PoolBlock)
        /\ Len(c) = Cardinality(PoolBlock) => \A b \in PoolBlock : Occurs(c, b)
  BY MempoolAssumption, NoLongerThanSet
<1> QED BY <1>1, <1>2, MempoolAssumption

(* No word of a block on the free chain names the pool.                    *)
LEMMA FreeIsNotTaken ==
  ASSUME PoolInv, NEW c, FreeBlocks(c), NEW b, Occurs(c, b)
  PROVE  b \in PoolBlock /\ word[b] # ThePool /\ \A o \in MpOwner : b \notin taken[o]
<1>1. PICK i \in 1 .. Len(c) : c[i] = b
  BY DEF Occurs
<1>2. c \in Seq(PoolBlock) /\ b \in PoolBlock
  BY <1>1 DEF FreeBlocks
<1>3. word[b] = IF i = Len(c) THEN NullBlock ELSE c[i + 1]
  BY <1>1 DEF FreeBlocks, Chain
<1>4. i # Len(c) => c[i + 1] \in PoolBlock
  BY <1>2
<1> QED BY <1>2, <1>3, <1>4, PoolConstants DEF PoolInv

(* What the invariant says of the free chain of RtMempool.                 *)
LEMMA PoolInvMeans ==
  ASSUME PoolInv
  PROVE  /\ BlocksConserved
         /\ blockList \in PoolBlock \union {NullBlock}
         /\ freeCount \in 0 .. Cardinality(PoolBlock)
<1>1. PICK c : FreeBlocks(c)
  BY DEF PoolInv
<1>2. /\ c \in Seq(PoolBlock) /\ Len(c) = freeCount /\ freeCount \in Nat
      /\ Chain(c, word, blockList, NullBlock)
  BY <1>1 DEF FreeBlocks
<1>3. FreeChain = c
  <2>1. Walked(blockList, Len(c), word) = c
    BY <1>2, WalkIsChain
  <2>2. FreeChain = Walked(blockList, freeCount, word)
    BY DEF FreeChain, Walked
  <2> QED BY <1>2, <2>1, <2>2
<1>4. freeCount \in 0 .. Cardinality(PoolBlock)
  BY <1>1, <1>2, PoolConstants DEF FreeBlocks
<1>5. /\ freeCount = 0 => c = <<>> /\ blockList = NullBlock
      /\ freeCount # 0 => /\ c # <<>> /\ 1 \in 1 .. Len(c) /\ freeCount \in 1 .. Len(c)
                          /\ blockList = c[1] /\ word[c[freeCount]] = NullBlock
  <2>1. c = <<>> <=> freeCount = 0
    BY <1>2
  <2>2. freeCount # 0 => 1 \in 1 .. Len(c) /\ freeCount \in 1 .. Len(c)
    BY <1>2
  <2> QED BY <1>2, <2>1, <2>2 DEF Chain
<1>6. blockList \in PoolBlock \union {NullBlock}
  BY <1>2, <1>5
<1>7. {c[i] : i \in 1 .. freeCount} \union UNION {taken[o] : o \in MpOwner} = PoolBlock
  <2>1. \A i \in 1 .. freeCount : c[i] \in PoolBlock
    BY <1>2
  <2>2. \A b \in PoolBlock : (\E i \in 1 .. freeCount : c[i] = b) \/ \E o \in MpOwner : b \in taken[o]
    BY <1>1 DEF FreeBlocks, Occurs
  <2>3. \A o \in MpOwner : taken[o] \subseteq PoolBlock
    BY DEF PoolInv
  <2> QED BY <2>1, <2>2, <2>3
<1>8. BlocksConserved
  BY <1>3, <1>5, <1>7 DEF BlocksConserved, PoolInv
<1> QED BY <1>4, <1>6, <1>8

(* rt_mp_alloc takes the first free block.                                 *)
LEMMA TakeBlockPool ==
  ASSUME PoolInv, NEW o \in MpOwner, TakeBlock(o)
  PROVE  PoolInv'
<1>1. PICK c : FreeBlocks(c)
  BY DEF PoolInv
<1>2. /\ c \in Seq(PoolBlock) /\ NoDuplicates(c) /\ Len(c) = freeCount
      /\ Chain(c, word, blockList, NullBlock) /\ c # <<>>
  BY <1>1 DEF FreeBlocks, TakeBlock
<1>3. /\ blockList = Head(c) /\ blockList \in PoolBlock
      /\ Chain(Tail(c), word, word[blockList], NullBlock)
      /\ Tail(c) \in Seq(PoolBlock) /\ NoDuplicates(Tail(c))
      /\ \A x : Occurs(Tail(c), x) <=> Occurs(c, x) /\ x # blockList
      /\ Occurs(c, blockList)
  BY <1>2, ChainWithoutFirst, TailFacts
<1>4. /\ word' = [word EXCEPT ![blockList] = ThePool] /\ blockList' = word[blockList]
      /\ freeCount' = freeCount - 1
      /\ taken' = [taken EXCEPT ![o] = @ \union {blockList}]
  BY DEF TakeBlock
<1>5. Chain(Tail(c), word', blockList', NullBlock)
  <2>1. \A x : Occurs(Tail(c), x) => word'[x] = word[x]
    <3> TAKE x
    <3>1. CASE Occurs(Tail(c), x)
      <4>1. x # blockList /\ x \in PoolBlock
        BY <1>1, <1>3, <3>1, FreeIsNotTaken
      <4> QED BY <1>4, <4>1 DEF PoolInv
    <3> QED BY <3>1
  <2>2. Chain(Tail(c), word', word[blockList], NullBlock)
    BY <1>3, <2>1, ChainElsewhere
  <2> QED BY <1>4, <2>2
<1>6. \A p \in MpOwner : taken'[p] = IF p = o THEN taken[p] \union {blockList} ELSE taken[p]
  BY <1>4 DEF PoolInv
<1>7. FreeBlocks(Tail(c))'
  <2>1. Len(Tail(c)) = freeCount'
    BY <1>2, <1>4
  <2>2. \A b \in PoolBlock : Occurs(Tail(c), b) \/ \E p \in MpOwner : b \in taken'[p]
    BY <1>1, <1>3, <1>6 DEF FreeBlocks
  <2> QED BY <1>3, <1>5, <2>1, <2>2 DEF FreeBlocks
<1>8. /\ word' \in [PoolBlock -> PoolBlock \union {NullBlock, ThePool}]
      /\ taken' \in [MpOwner -> SUBSET PoolBlock]
  BY <1>3, <1>4 DEF PoolInv
<1>9. ASSUME NEW p \in MpOwner
      PROVE  /\ \A b \in taken'[p] : word'[b] = ThePool
             /\ \A r \in MpOwner \ {p} : taken'[p] \intersect taken'[r] = {}
  <2>1. \A r \in MpOwner : blockList \notin taken[r]
    BY <1>1, <1>3, FreeIsNotTaken
  <2>2. \A b \in taken'[p] : word'[b] = ThePool
    BY <1>3, <1>4, <1>6 DEF PoolInv
  <2> QED BY <1>6, <2>1, <2>2 DEF PoolInv
<1> QED BY <1>7, <1>8, <1>9 DEF PoolInv

(* rt_mp_free puts a block before the first free one.                      *)
LEMMA PutBlockPool ==
  ASSUME PoolInv, NEW o \in MpOwner, NEW b \in PoolBlock, PutBlock(o, b)
  PROVE  PoolInv'
<1>1. PICK c : FreeBlocks(c)
  BY DEF PoolInv
<1>2. /\ c \in Seq(PoolBlock) /\ NoDuplicates(c) /\ Len(c) = freeCount
      /\ Chain(c, word, blockList, NullBlock)
  BY <1>1 DEF FreeBlocks
<1>3. /\ b \in taken[o] /\ word' = [word EXCEPT ![b] = blockList] /\ blockList' = b
      /\ freeCount' = freeCount + 1 /\ taken' = [taken EXCEPT ![o] = @ \ {b}]
  BY DEF PutBlock
<1>4. ~ Occurs(c, b)
  BY <1>1, <1>3, FreeIsNotTaken
<1>5. PICK d : d = <<b>> \o c
  OBVIOUS
<1>6. /\ d \in Seq(PoolBlock) /\ Len(d) = Len(c) + 1 /\ NoDuplicates(d)
      /\ \A x : Occurs(d, x) <=> x = b \/ Occurs(c, x)
  BY <1>2, <1>4, <1>5, PushFacts
<1>7. word'[b] = blockList /\ \A x \in PoolBlock : x # b => word'[x] = word[x]
  BY <1>3 DEF PoolInv
<1>8. Chain(d, word', blockList', NullBlock)
  <2>1. \A x : Occurs(c, x) => word'[x] = word[x]
    BY <1>1, <1>4, <1>7, FreeIsNotTaken
  <2>2. Chain(<<b>> \o c, word', b, NullBlock)
    BY <1>2, <1>7, <2>1, ChainWithFirst
  <2> QED BY <1>3, <1>5, <2>2
<1>9. \A p \in MpOwner : taken'[p] = IF p = o THEN taken[p] \ {b} ELSE taken[p]
  BY <1>3 DEF PoolInv
<1>10. FreeBlocks(d)'
  <2>1. \A x \in PoolBlock : Occurs(d, x) \/ \E p \in MpOwner : x \in taken'[p]
    BY <1>1, <1>6, <1>9 DEF FreeBlocks
  <2> QED BY <1>2, <1>3, <1>6, <1>8, <2>1 DEF FreeBlocks
<1>11. blockList \in PoolBlock \union {NullBlock}
  BY PoolInvMeans
<1>12. /\ word' \in [PoolBlock -> PoolBlock \union {NullBlock, ThePool}]
       /\ taken' \in [MpOwner -> SUBSET PoolBlock]
  BY <1>3, <1>11 DEF PoolInv
<1>13. ASSUME NEW p \in MpOwner
       PROVE  /\ \A x \in taken'[p] : word'[x] = ThePool
              /\ \A r \in MpOwner \ {p} : taken'[p] \intersect taken'[r] = {}
  <2>1. \A x \in taken'[p] : x # b /\ x \in taken[p] /\ x \in PoolBlock
    BY <1>3, <1>9 DEF PoolInv
  <2>2. \A x \in taken'[p] : word'[x] = ThePool
    BY <1>7, <2>1 DEF PoolInv
  <2> QED BY <1>9, <2>2 DEF PoolInv
<1> QED BY <1>10, <1>12, <1>13 DEF PoolInv

(* rt_mp_init chains all the blocks.                                       *)
LEMMA InitPool == MpInit => PoolInv
<1> SUFFICES ASSUME MpInit PROVE PoolInv
  OBVIOUS
<1> DEFINE n == Cardinality(PoolBlock)
           laid == CHOOSE q \in [1 .. n -> PoolBlock] : NoDuplicates(q)
<1>1. n \in Nat /\ n > 0
  BY PoolConstants
<1>2. laid \in [1 .. n -> PoolBlock] /\ NoDuplicates(laid)
  <2>1. ExistsBijection(1 .. n, PoolBlock)
    BY MempoolAssumption, FS_CardinalityType
  <2>2. PICK f \in Bijection(1 .. n, PoolBlock) : TRUE
    BY <2>1 DEF ExistsBijection
  <2>3. f \in [1 .. n -> PoolBlock] /\ \A i, j \in 1 .. n : f[i] = f[j] => i = j
    BY <2>2 DEF Bijection, Injection, IsInjective
  <2>4. NoDuplicates(f)
    <3>1. Len(f) = n
      BY <1>1, <2>3
    <3> QED BY <2>3, <3>1 DEF NoDuplicates
  <2> QED BY <2>3, <2>4
<1> HIDE DEF laid
<1>3. PICK c \in Seq(PoolBlock) : c = laid /\ Len(c) = n /\ NoDuplicates(c)
  BY <1>1, <1>2
<1>4. /\ word = [b \in PoolBlock |-> IF b = c[Len(c)] THEN NullBlock ELSE c[Position(c, b) + 1]]
      /\ blockList = c[1] /\ freeCount = n /\ taken = [o \in MpOwner |-> {}]
  BY <1>3 DEF MpInit, laid
<1>5. \A i \in 1 .. n : c[i] \in PoolBlock /\ Position(c, c[i]) = i
  BY <1>3, PositionOf
<1>6. \A i \in 1 .. n : word[c[i]] = IF i = n THEN NullBlock ELSE c[i + 1]
  <2> TAKE i \in 1 .. n
  <2>1. c[i] = c[n] <=> i = n
    BY <1>1, <1>3 DEF NoDuplicates
  <2> QED BY <1>3, <1>4, <1>5, <2>1
<1>7. \A b \in PoolBlock : Occurs(c, b)
  BY <1>3, PoolConstants
<1>8. c # <<>>
  BY <1>1, <1>3
<1>9. FreeBlocks(c)
  BY <1>3, <1>4, <1>6, <1>7, <1>8 DEF FreeBlocks, Chain
<1>10. word \in [PoolBlock -> PoolBlock \union {NullBlock, ThePool}]
  <2>1. ASSUME NEW b \in PoolBlock
        PROVE  word[b] \in PoolBlock \union {NullBlock, ThePool}
    <3>1. PICK i \in 1 .. n : c[i] = b
      BY <1>3, <1>7 DEF Occurs
    <3>2. i # n => i + 1 \in 1 .. n
      BY <1>1
    <3> QED BY <1>5, <1>6, <3>1, <3>2
  <2> QED BY <1>4, <2>1
<1> QED BY <1>4, <1>9, <1>10 DEF PoolInv
----------------------------------------------------------------------------
(* The threads: the list holds those blocked in rt_mp_alloc, and each free *)
(* block has one that was woken for it as long as somebody waits.          *)
MpEntering == {"mp_wait"}
MpWaiting == {"mp_wait", "mp_woken"}

MpThreads == ThreadTypeOK(MpPlaces) /\ Coherent(MpEntering)

MpLocals == mpAlive \in BOOLEAN /\ mpTime \in [Thread -> MpWaits]

MpCovered == mpWaiters # <<>> => freeCount <= Cardinality(Coming(MpWaiting))

MpInv == MpThreads /\ MpLocals /\ WaitsAt(mpWaiters, MpWaiting) /\ MpCovered

LEMMA MpInvMeans ==
  ASSUME PoolInv, MpInv
  PROVE  MpTypeOK /\ MpNoLostWakeup
<1>1. MpOnTheirWay = Coming(MpWaiting)
  BY DEF MpOnTheirWay, Coming, Comes, MpWaiting
<1>2. MpNoLostWakeup
  BY <1>1 DEF MpInv, MpCovered, MpNoLostWakeup, WaitsAt, MpWaiting
<1>3. MpTypeOK
  BY PoolInvMeans DEF PoolInv, MpInv, MpThreads, MpLocals, WaitsAt, MpTypeOK
<1> QED BY <1>2, <1>3

LEMMA FreeCountType == PoolInv => freeCount \in Nat
BY PoolInvMeans, PoolConstants

(* A thread that is current and not in the middle of a block.              *)
LEMMA MpCaller ==
  ASSUME MpInv, NEW t \in Thread, cur = t, pc[t] \notin MpEntering
  PROVE  stat[t] = "ready" /\ ~ Occurs(mpWaiters, t)
BY DEF MpInv, MpThreads, Coherent, WaitsAt

(* A step of one thread that is not waiting; it may have been on its way.  *)
LEMMA MpRunner ==
  ASSUME MpInv, PoolInv, NEW t \in Thread, NEW to \in MpPlaces, to \notin MpWaiting,
         cur = t, pc[t] \notin MpEntering, Goto(t, to),
         UNCHANGED <<stat, prio, cur, armed, mpWaiters>>,
         error' \in [Thread -> Errors], \A u \in Thread : u # t => error'[u] = error[u],
         MpLocals',
         \/ freeCount = 0 /\ freeCount' = 0
         \/ freeCount' = freeCount - 1
         \/ freeCount' = freeCount /\ ~ Comes(t, MpWaiting)
  PROVE  MpInv'
<1>1. /\ ThreadTypeOK(MpPlaces)' /\ Coherent(MpEntering)'
      /\ stat[t] = "ready"
      /\ pc'[t] = to /\ \A u \in Thread : u # t => pc'[u] = pc[u]
  BY RunnerFacts DEF MpInv, MpThreads
<1>2. WaitsAt(mpWaiters, MpWaiting)'
  BY <1>1 DEF MpInv, WaitsAt
<1>3. ~ Comes(t, MpWaiting)' /\ \A u \in Thread : u # t =>
         (Comes(u, MpWaiting)' <=> Comes(u, MpWaiting))
  BY <1>1 DEF Comes
<1>4. Cardinality(Coming(MpWaiting)) \in Nat /\ Cardinality(Coming(MpWaiting)') \in Nat
      /\ freeCount \in Nat
  BY ComingFinite, ComingFiniteNext, FreeCountType
<1>5. CASE Comes(t, MpWaiting)
  <2>1. Cardinality(Coming(MpWaiting)') = Cardinality(Coming(MpWaiting)) - 1
    BY <1>3, <1>5, OneLessComing
  <2>2. MpCovered'
    BY <1>4, <1>5, <2>1 DEF MpInv, MpCovered
  <2> QED BY <1>1, <1>2, <2>2 DEF MpInv, MpThreads
<1>6. CASE ~ Comes(t, MpWaiting)
  <2>1. Coming(MpWaiting)' = Coming(MpWaiting)
    BY <1>3, <1>6, SameComing
  <2>2. MpCovered'
    BY <1>4, <2>1 DEF MpInv, MpCovered
  <2> QED BY <1>1, <1>2, <2>2 DEF MpInv, MpThreads
<1> QED BY <1>5, <1>6

(* A step after which the same threads wait and the same come, or fewer    *)
(* wait.                                                                   *)
LEMMA MpStay ==
  ASSUME MpInv, MpThreads', MpLocals', freeCount' = freeCount,
         WaitsAt(mpWaiters, MpWaiting)', mpWaiters' # <<>> => mpWaiters # <<>>,
         \A t \in Thread : Comes(t, MpWaiting)' <=> Comes(t, MpWaiting)
  PROVE  MpInv'
<1>1. Coming(MpWaiting)' = Coming(MpWaiting)
  BY SameComing
<1>2. MpCovered'
  BY <1>1 DEF MpInv, MpCovered
<1> QED BY <1>2 DEF MpInv

(* rt_mp_alloc, from its start or after a wake-up.                         *)
LEMMA AllocBodyStep ==
  ASSUME MpInv, PoolInv, NEW t \in Thread, NEW w \in MpWaits, cur = t,
         pc[t] = "run" \/ (pc[t] = "mp_woken" /\ error[t] = "RT_EOK"), MpAllocBody(t, w)
  PROVE  MpInv' /\ PoolInv'
<1>1. stat[t] = "ready" /\ ~ Occurs(mpWaiters, t) /\ pc[t] \notin MpEntering
  BY MpCaller DEF MpEntering
<1>2. "run" \in MpPlaces /\ "run" \notin MpWaiting
  BY DEF MpPlaces, MpWaiting
<1>3. CASE MpAllocNow(t)
  <2>1. /\ TakeBlock(t) /\ Goto(t, "run") /\ freeCount' = freeCount - 1
        /\ UNCHANGED <<stat, prio, cur, armed, mpWaiters, error, mpAlive, mpTime>>
    BY <1>3 DEF MpAllocNow, TakeBlock
  <2>2. PoolInv'
    BY <2>1, TakeBlockPool DEF MpOwner
  <2>3. MpLocals' /\ error' \in [Thread -> Errors]
    BY <2>1 DEF MpInv, MpThreads, ThreadTypeOK, MpLocals
  <2> QED BY <1>1, <1>2, <2>1, <2>2, <2>3, MpRunner
<1>4. CASE MpAllocNothing(t, w)
  <2>1. /\ Goto(t, "run") /\ freeCount = 0 /\ freeCount' = 0
        /\ UNCHANGED <<stat, prio, cur, armed, mpWaiters>> /\ UNCHANGED poolVars
    BY <1>4 DEF MpAllocNothing, poolVars
  <2>2. PoolInv'
    BY <2>1 DEF poolVars, PoolInv, FreeBlocks
  <2>3. MpLocals' /\ error' \in [Thread -> Errors] /\ \A u \in Thread : u # t => error'[u] = error[u]
    BY <1>4, <2>1 DEF MpAllocNothing, MpInv, MpThreads, ThreadTypeOK, MpLocals, poolVars, Errors
  <2> QED BY <1>1, <1>2, <2>1, <2>2, <2>3, MpRunner
<1>5. CASE MpAllocBlock(t, w)
  <2>1. /\ Block(t, w = "some", "mp_wait") /\ UNCHANGED <<prio, cur>>
        /\ mpWaiters' = <<t>> \o mpWaiters /\ freeCount = 0 /\ freeCount' = 0
        /\ UNCHANGED <<word, blockList, freeCount, taken>>
    BY <1>5 DEF MpAllocBlock
  <2>2. PICK timed \in BOOLEAN, to \in MpPlaces \intersect MpEntering :
          Block(t, timed, to) /\ to = "mp_wait"
    BY <2>1 DEF MpPlaces, MpEntering
  <2>3. /\ ThreadTypeOK(MpPlaces)' /\ Coherent(MpEntering)'
        /\ stat'[t] = "suspend" /\ pc'[t] = "mp_wait"
        /\ \A u \in Thread : u # t =>
             pc'[u] = pc[u] /\ stat'[u] = stat[u] /\ error'[u] = error[u]
    BY <1>1, <2>1, <2>2, BlockFacts DEF MpInv, MpThreads
  <2>4. /\ mpWaiters' \in Seq(Thread) /\ NoDuplicates(mpWaiters')
        /\ \A x : Occurs(mpWaiters', x) <=> x = t \/ Occurs(mpWaiters, x)
    BY <1>1, <2>1, PushFacts DEF MpInv, WaitsAt
  <2>5. WaitsAt(mpWaiters, MpWaiting)'
    BY <2>3, <2>4 DEF MpInv, WaitsAt, MpWaiting
  <2>6. MpCovered'
    BY <2>1, ComingFiniteNext DEF MpCovered
  <2>7. MpLocals'
    BY <1>5 DEF MpAllocBlock, MpLocals, MpInv
  <2>8. PoolInv'
    BY <2>1 DEF PoolInv, FreeBlocks
  <2> QED BY <2>3, <2>5, <2>6, <2>7, <2>8 DEF MpInv, MpThreads
<1> QED BY <1>3, <1>4, <1>5 DEF MpAllocBody

(* rt_mp_free wakes the first waiter, whose error number is RT_EOK as      *)
(* rt_thread_suspend has left it.                                          *)
LEMMA FreeStep ==
  ASSUME MpInv, PoolInv, NEW o \in MpOwner, NEW b \in PoolBlock, PutBlock(o, b),
         UNCHANGED prio,
         \/ \E t \in Thread, to \in {"mp_post", "run"} :
              cur = t /\ pc[t] = "run" /\ Goto(t, to) /\ UNCHANGED cur
         \/ pc' = pc /\ (Dispatch \/ UNCHANGED cur)
  PROVE  MpInv' /\ PoolInv'
<1>1. PoolInv'
  BY PutBlockPool
<1>2. /\ freeCount' = freeCount + 1 /\ UNCHANGED <<mpAlive, mpTime>>
      /\ WakeOne(mpWaiters, mpWaiters')
      /\ mpWaiters # <<>> => error' = [error EXCEPT ![Head(mpWaiters)] = "RT_EOK"]
      /\ mpWaiters = <<>> => error' = error
  BY DEF PutBlock, WakeOne
<1>3. WaitsAt(mpWaiters, MpWaiting) /\ error \in [Thread -> Errors] /\ pc \in [Thread -> MpPlaces]
  BY DEF MpInv, MpThreads, ThreadTypeOK
<1>4. error' = error
  <2>1. CASE mpWaiters # <<>>
    <3>1. Head(mpWaiters) \in Thread /\ Occurs(mpWaiters, Head(mpWaiters))
      BY <1>3, <2>1, TailFacts DEF WaitsAt
    <3>2. PICK u \in Thread : u = Head(mpWaiters) /\ error[u] = "RT_EOK"
      BY <3>1 DEF MpInv, MpThreads, Coherent, WaitsAt
    <3>3. error' = [error EXCEPT ![u] = "RT_EOK"]
      BY <1>2, <2>1, <3>2
    <3> QED BY <1>3, <3>2, <3>3
  <2> QED BY <1>2, <2>1
<1>5. /\ pc' \in [Thread -> MpPlaces] /\ \A t \in Thread : pc'[t] \in MpWaiting <=> pc[t] \in MpWaiting
      /\ \A t \in Thread : pc'[t] # pc[t] => cur = t /\ pc[t] = "run" /\ cur' = cur
  BY <1>3 DEF Goto, MpPlaces, MpWaiting
<1>6. /\ stat' \in [Thread -> {"ready", "suspend"}]
      /\ armed' \subseteq Thread /\ \A t \in armed' : stat'[t] = "suspend"
      /\ \A t \in Thread : stat[t] = "ready" => stat'[t] = "ready"
      /\ mpWaiters' \in Seq(Thread) /\ NoDuplicates(mpWaiters')
      /\ \A t \in Thread : Occurs(mpWaiters', t) <=> stat'[t] = "suspend" /\ pc'[t] \in MpWaiting
      /\ Cardinality(Coming(MpWaiting)')
           = IF mpWaiters # <<>> THEN Cardinality(Coming(MpWaiting)) + 1
             ELSE Cardinality(Coming(MpWaiting))
  BY <1>2, <1>3, <1>4, <1>5, WakeOneFacts DEF MpInv, MpThreads
<1>7. WaitsAt(mpWaiters, MpWaiting)'
  BY <1>6 DEF WaitsAt
<1>8. MpCovered'
  <2>1. Cardinality(Coming(MpWaiting)) \in Nat /\ freeCount \in Nat
    BY ComingFinite, FreeCountType
  <2>2. mpWaiters' # <<>> => mpWaiters # <<>>
    BY <1>2 DEF WakeOne
  <2> QED BY <1>2, <1>6, <2>1, <2>2 DEF MpInv, MpCovered
<1>9. MpLocals'
  BY <1>2 DEF MpInv, MpLocals
<1>10. MpThreads'
  <2>1. cur' \in Thread \union {Idle}
    BY DispatchFacts DEF MpInv, MpThreads, ThreadTypeOK
  <2>2. ThreadTypeOK(MpPlaces)'
    BY <1>4, <1>5, <1>6, <2>1 DEF MpInv, MpThreads, ThreadTypeOK
  <2>3. \A t \in Thread : stat'[t] = "suspend" => error'[t] = "RT_EOK"
    BY <1>4, <1>6 DEF MpInv, MpThreads, Coherent, ThreadTypeOK
  <2>4. cur' \in Thread /\ pc'[cur'] \notin MpEntering => stat'[cur'] = "ready"
    <3>1. CASE Dispatch
      BY <3>1, DispatchFacts
    <3>2. CASE cur' = cur
      <4>1. cur \in Thread /\ pc[cur] \notin MpEntering => stat[cur] = "ready"
        BY DEF MpInv, MpThreads, Coherent
      <4>2. cur \in Thread /\ pc'[cur] \notin MpEntering => pc[cur] \notin MpEntering
        BY <1>5 DEF MpEntering
      <4> QED BY <1>6, <3>2, <4>1, <4>2
    <3> QED BY <3>1, <3>2
  <2> QED BY <1>6, <2>2, <2>3, <2>4 DEF MpThreads, Coherent
<1> QED BY <1>1, <1>7, <1>8, <1>9, <1>10 DEF MpInv

(* rt_mp_detach wakes one more waiter, with an error.                      *)
LEMMA MpDrainOneStep ==
  ASSUME MpInv, NEW t \in Thread, MpDrainOne(t)
  PROVE  MpInv'
<1>1. PICK u : u = Head(mpWaiters)
  OBVIOUS
<1>2. /\ cur = t /\ pc[t] = "mp_drain_one" /\ mpWaiters # <<>> /\ Wake(u)
      /\ error' = [error EXCEPT ![u] = "RT_ERROR"] /\ mpWaiters' = Tail(mpWaiters)
      /\ Goto(t, "mp_drain") /\ UNCHANGED <<prio, cur, freeCount, mpAlive, mpTime>>
  BY <1>1 DEF MpDrainOne, At
<1>3. /\ mpWaiters \in Seq(Thread) /\ NoDuplicates(mpWaiters)
      /\ \A x \in Thread : Occurs(mpWaiters, x) <=> stat[x] = "suspend" /\ pc[x] \in MpWaiting
  BY DEF MpInv, WaitsAt
<1>4. /\ u \in Thread /\ Occurs(mpWaiters, u)
      /\ stat[u] = "suspend" /\ error[u] = "RT_EOK" /\ stat'[u] = "ready"
      /\ stat' \in [Thread -> {"ready", "suspend"}]
      /\ \A x \in Thread : x # u => stat'[x] = stat[x]
      /\ armed' \subseteq armed /\ \A x \in armed' : stat'[x] = "suspend"
      /\ mpWaiters' \in Seq(Thread) /\ NoDuplicates(mpWaiters')
      /\ \A x : Occurs(mpWaiters', x) <=> Occurs(mpWaiters, x) /\ x # u
  BY <1>1, <1>2, <1>3, WakeFirstFacts DEF MpInv, MpThreads
<1>5. /\ pc' \in [Thread -> MpPlaces] /\ pc'[t] = "mp_drain"
      /\ \A x \in Thread : x # t => pc'[x] = pc[x]
  BY <1>2 DEF MpInv, MpThreads, ThreadTypeOK, Goto, MpPlaces
<1>6. /\ error' \in [Thread -> Errors] /\ error'[u] = "RT_ERROR"
      /\ \A x \in Thread : x # u => error'[x] = error[x]
  BY <1>2, <1>4 DEF MpInv, MpThreads, ThreadTypeOK, Errors
<1>7. stat[t] = "ready" /\ u # t
  BY <1>2, <1>4 DEF MpInv, MpThreads, Coherent, MpEntering
<1>8. ThreadTypeOK(MpPlaces)'
  BY <1>2, <1>4, <1>5, <1>6 DEF MpInv, MpThreads, ThreadTypeOK
<1>9. Coherent(MpEntering)'
  BY <1>2, <1>4, <1>6, <1>7 DEF MpInv, MpThreads, Coherent
<1>10. WaitsAt(mpWaiters, MpWaiting)'
  BY <1>2, <1>3, <1>4, <1>5 DEF WaitsAt, MpWaiting
<1>11. \A x \in Thread : Comes(x, MpWaiting)' <=> Comes(x, MpWaiting)
  BY <1>2, <1>4, <1>5, <1>6 DEF Comes, MpWaiting
<1>12. MpLocals'
  BY <1>2 DEF MpInv, MpLocals
<1> QED BY <1>2, <1>8, <1>9, <1>10, <1>11, <1>12, MpStay DEF MpThreads

(* A waiter whose time is over leaves its list with -RT_ETIMEOUT.          *)
LEMMA MpTimeoutStep ==
  ASSUME MpInv, NEW u \in Thread, MpTimeout(u)
  PROVE  MpInv'
<1>1. /\ TimeoutOf(u) /\ mpWaiters' = ListRemove(mpWaiters, u)
      /\ UNCHANGED <<freeCount, mpAlive, mpTime>>
  BY DEF MpTimeout
<1>2. /\ ThreadTypeOK(MpPlaces)' /\ Coherent(MpEntering)' /\ UNCHANGED <<prio, pc>>
      /\ stat[u] = "suspend" /\ stat'[u] = "ready" /\ error'[u] = "RT_ETIMEOUT"
      /\ \A t \in Thread : t # u => stat'[t] = stat[t] /\ error'[t] = error[t]
  BY <1>1, TimeoutFacts DEF MpInv, MpThreads
<1>3. mpWaiters \in Seq(Thread) /\ NoDuplicates(mpWaiters)
  BY DEF MpInv, WaitsAt
<1>4. /\ mpWaiters' \in Seq(Thread) /\ NoDuplicates(mpWaiters')
      /\ \A x : Occurs(mpWaiters', x) <=> Occurs(mpWaiters, x) /\ x # u
  BY <1>1, <1>3, RemoveFacts
<1>5. WaitsAt(mpWaiters, MpWaiting)'
  BY <1>2, <1>4 DEF MpInv, WaitsAt
<1>6. mpWaiters' # <<>> => mpWaiters # <<>>
  BY <1>3, <1>4, EmptyFacts
<1>7. \A x \in Thread : Comes(x, MpWaiting)' <=> Comes(x, MpWaiting)
  BY <1>2 DEF Comes
<1>8. MpLocals'
  BY <1>1 DEF MpInv, MpLocals
<1> QED BY <1>1, <1>2, <1>5, <1>6, <1>7, <1>8, MpStay DEF MpThreads

(* rt_schedule() after a call has put itself to sleep, or at its end.      *)
LEMMA MpScheduleStep ==
  ASSUME MpInv, NEW t \in Thread, MpAllocSchedule(t) \/ MpPostSchedule(t)
  PROVE  MpInv'
<1>1. PICK from, to \in MpPlaces :
        Reschedule(t, from, to) /\ (from \in MpWaiting <=> to \in MpWaiting)
  BY DEF MpAllocSchedule, MpPostSchedule, MpWaiting, MpPlaces
<1>2. UNCHANGED <<freeCount, mpWaiters, mpAlive, mpTime>>
  BY DEF MpAllocSchedule, MpPostSchedule, poolVars
<1>3. /\ ThreadTypeOK(MpPlaces)' /\ Coherent(MpEntering)'
      /\ UNCHANGED <<stat, prio, armed, error>>
      /\ pc[t] = from /\ pc'[t] = to /\ \A u \in Thread : u # t => pc'[u] = pc[u]
  BY <1>1, RescheduleFacts DEF MpInv, MpThreads
<1>4. \A u \in Thread : pc'[u] \in MpWaiting <=> pc[u] \in MpWaiting
  BY <1>1, <1>3
<1>5. WaitsAt(mpWaiters, MpWaiting)'
  BY <1>2, <1>3, <1>4 DEF MpInv, WaitsAt
<1>6. \A u \in Thread : Comes(u, MpWaiting)' <=> Comes(u, MpWaiting)
  BY <1>3, <1>4 DEF Comes
<1>7. MpLocals'
  BY <1>2 DEF MpInv, MpLocals
<1> QED BY <1>2, <1>3, <1>5, <1>6, <1>7, MpStay DEF MpThreads

LEMMA MpNextStep ==
  ASSUME MpInv, PoolInv, [MpNext]_<<threadVars, poolVars>>
  PROVE  MpInv' /\ PoolInv'
<1>0. UNCHANGED <<word, blockList, freeCount, taken>> => PoolInv'
  BY DEF PoolInv, FreeBlocks
<1>1. ASSUME NEW t \in Thread, NEW w \in MpWaits, MpAlloc(t, w)
      PROVE  MpInv' /\ PoolInv'
  BY <1>1, AllocBodyStep DEF MpAlloc, Running
<1>2. ASSUME NEW t \in Thread, MpAllocAgain(t)
      PROVE  MpInv' /\ PoolInv'
  <2>1. PICK w \in MpRecomputed(mpTime[t]) : MpAllocBody(t, w)
    BY <1>2 DEF MpAllocAgain
  <2>2. w \in MpWaits
    BY DEF MpInv, MpLocals, MpRecomputed, MpWaits
  <2> QED BY <1>2, <2>1, <2>2, AllocBodyStep DEF MpAllocAgain, At
<1>3. ASSUME NEW t \in Thread, MpAllocSchedule(t) \/ MpPostSchedule(t)
      PROVE  MpInv' /\ PoolInv'
  BY <1>0, <1>3, MpScheduleStep DEF MpAllocSchedule, MpPostSchedule, poolVars
<1>4. ASSUME NEW t \in Thread, MpAllocFailed(t) \/ MpDetach(t) \/ MpDrainTest(t)
      PROVE  MpInv' /\ PoolInv'
  <2>1. PICK to \in MpPlaces \ MpWaiting : Goto(t, to)
    BY <1>4 DEF MpAllocFailed, MpDetach, MpDrainTest, MpPlaces, MpWaiting
  <2>2. /\ cur = t /\ UNCHANGED <<stat, prio, cur, armed, error, mpWaiters, mpTime>>
        /\ UNCHANGED <<word, blockList, freeCount, taken>>
        /\ pc[t] \notin MpEntering /\ ~ Comes(t, MpWaiting)
    BY <1>4 DEF MpAllocFailed, MpDetach, MpDrainTest, Running, At, poolVars, MpEntering,
                MpWaiting, Comes
  <2>3. MpLocals'
    BY <1>4 DEF MpAllocFailed, MpDetach, MpDrainTest, poolVars, MpInv, MpLocals
  <2>4. error' \in [Thread -> Errors] /\ \A u \in Thread : u # t => error'[u] = error[u]
    BY <2>2 DEF MpInv, MpThreads, ThreadTypeOK
  <2>5. MpInv'
    BY <2>1, <2>2, <2>3, <2>4, MpRunner
  <2> QED BY <1>0, <2>2, <2>5
<1>5. ASSUME NEW t \in Thread, MpDrainOne(t)
      PROVE  MpInv' /\ PoolInv'
  BY <1>0, <1>5, MpDrainOneStep DEF MpDrainOne
<1>6. ASSUME NEW t \in Thread, MpTimeout(t)
      PROVE  MpInv' /\ PoolInv'
  BY <1>0, <1>6, MpTimeoutStep DEF MpTimeout
<1>7. ASSUME NEW t \in Thread, NEW b \in PoolBlock, MpFree(t, b)
      PROVE  MpInv' /\ PoolInv'
  <2>1. PICK to : to \in {"mp_post", "run"} /\ Goto(t, to)
    BY <1>7 DEF MpFree
  <2> QED BY <1>7, <2>1, FreeStep DEF MpFree, Running, MpOwner
<1>8. ASSUME NEW b \in PoolBlock, MpFreeFromIsr(b)
      PROVE  MpInv' /\ PoolInv'
  BY <1>8, FreeStep DEF MpFreeFromIsr, MpOwner
<1>9. CASE MpAllocFromIsr
  <2>1. /\ TakeBlock(MpIsr) /\ UNCHANGED <<stat, prio, cur, armed, error, pc>>
        /\ UNCHANGED <<mpWaiters, mpAlive, mpTime>> /\ freeCount' = freeCount - 1
    BY <1>9 DEF MpAllocFromIsr, threadVars, TakeBlock
  <2>2. PoolInv'
    BY <2>1, TakeBlockPool DEF MpOwner
  <2>3. MpThreads' /\ MpLocals' /\ WaitsAt(mpWaiters, MpWaiting)'
    BY <2>1 DEF MpInv, MpThreads, ThreadTypeOK, Coherent, MpLocals, WaitsAt
  <2>4. Coming(MpWaiting)' = Coming(MpWaiting)
    BY <2>1 DEF Coming, Comes
  <2>5. MpCovered'
    BY <2>1, <2>4, ComingFinite, FreeCountType DEF MpInv, MpCovered
  <2> QED BY <2>2, <2>3, <2>5 DEF MpInv
<1>10. CASE SliceEnd /\ UNCHANGED poolVars
  <2>1. /\ MpThreads' /\ UNCHANGED <<stat, prio, armed, error, pc>>
        /\ UNCHANGED <<word, blockList, freeCount, taken, mpWaiters, mpAlive, mpTime>>
    BY <1>10, SliceFacts DEF MpInv, MpThreads, poolVars
  <2>2. MpLocals' /\ WaitsAt(mpWaiters, MpWaiting)'
        /\ \A x \in Thread : Comes(x, MpWaiting)' <=> Comes(x, MpWaiting)
    BY <2>1 DEF MpInv, MpLocals, WaitsAt, Comes
  <2> QED BY <1>0, <2>1, <2>2, MpStay
<1>11. CASE UNCHANGED <<threadVars, poolVars>>
  <2>1. /\ UNCHANGED <<stat, prio, cur, armed, error, pc>>
        /\ UNCHANGED <<word, blockList, freeCount, taken, mpWaiters, mpAlive, mpTime>>
    BY <1>11 DEF threadVars, poolVars
  <2>2. /\ MpThreads' /\ MpLocals' /\ WaitsAt(mpWaiters, MpWaiting)'
        /\ \A x \in Thread : Comes(x, MpWaiting)' <=> Comes(x, MpWaiting)
    BY <2>1 DEF MpInv, MpThreads, ThreadTypeOK, Coherent, MpLocals, WaitsAt, Comes
  <2> QED BY <1>0, <2>1, <2>2, MpStay
<1> QED
  BY <1>1, <1>2, <1>3, <1>4, <1>5, <1>6, <1>7, <1>8, <1>9, <1>10, <1>11, Zenon DEF MpNext

LEMMA MpInitStep == MpInit => MpInv /\ PoolInv
<1> SUFFICES ASSUME MpInit PROVE MpInv /\ PoolInv
  OBVIOUS
<1>1. PoolInv
  BY InitPool
<1>2. MpThreads
  BY IpcAssumption
     DEF MpInit, ThreadInit, MpThreads, ThreadTypeOK, Coherent, MpPlaces, Errors, MpEntering
<1>3. MpLocals /\ mpWaiters = <<>> /\ \A t \in Thread : stat[t] = "ready"
  BY DEF MpInit, ThreadInit, MpLocals, MpWaits
<1>4. WaitsAt(mpWaiters, MpWaiting)
  <2>1. mpWaiters \in Seq(Thread) /\ NoDuplicates(mpWaiters) /\ \A x : ~ Occurs(mpWaiters, x)
    BY <1>3, EmptyFacts
  <2> QED BY <1>3, <2>1 DEF WaitsAt
<1> QED BY <1>1, <1>2, <1>3, <1>4 DEF MpInv, MpCovered

LEMMA MpInvHolds == MpSpec => [](PoolInv /\ MpInv)
<1>1. MpInit => PoolInv /\ MpInv
  BY MpInitStep
<1>2. PoolInv /\ MpInv /\ [MpNext]_<<threadVars, poolVars>> => PoolInv' /\ MpInv'
  BY MpNextStep
<1> QED BY <1>1, <1>2, PTL DEF MpSpec

(* Every variable of the memory pool keeps its type; block_free_count      *)
(* stays within the number of blocks.                                      *)
THEOREM MempoolTypeCorrect == MpSpec => []MpTypeOK
BY MpInvHolds, MpInvMeans, PTL

(* No block is lost or given twice: each is on the free chain, once, or    *)
(* with the one owner rt_mp_alloc gave it to, whose block still names the  *)
(* pool, whatever threads and interrupt handlers allocate and free.        *)
THEOREM MempoolConservesBlocks == MpSpec => []BlocksConserved
<1>1. PoolInv => BlocksConserved
  BY PoolInvMeans
<1> QED BY <1>1, MpInvHolds, PTL

(* No wake-up of the pool is lost: nobody sleeps in rt_mp_alloc beside a   *)
(* free block that no woken thread comes for.                              *)
THEOREM MempoolLosesNoWakeup == MpSpec => []MpNoLostWakeup
BY MpInvHolds, MpInvMeans, PTL
----------------------------------------------------------------------------
(* The message queue for any number of blocks, messages and threads.       *)
(* The blocks of two lists and a set, each in one of them.                 *)
Parts(q, f, held) ==
  /\ q \in Seq(MsgBlock) /\ NoDuplicates(q) /\ f \in Seq(MsgBlock) /\ NoDuplicates(f)
  /\ held \subseteq MsgBlock
  /\ \A b \in MsgBlock :
       /\ Occurs(q, b) \/ Occurs(f, b) \/ b \in held
       /\ ~ (Occurs(q, b) /\ Occurs(f, b))
       /\ ~ (Occurs(q, b) /\ b \in held)
       /\ ~ (Occurs(f, b) /\ b \in held)

LEMMA PartsSwap ==
  ASSUME NEW q, NEW f, NEW held, Parts(q, f, held)
  PROVE  Parts(f, q, held)
BY DEF Parts

(* A block moves from one place to another.                                *)
LEMMA PartsOut ==
  ASSUME NEW q, NEW f, NEW held, Parts(q, f, held), q # <<>>
  PROVE  /\ Head(q) \in MsgBlock /\ Occurs(q, Head(q)) /\ Head(q) \notin held
         /\ ~ Occurs(f, Head(q))
         /\ Parts(Tail(q), f, held \union {Head(q)}) /\ Len(Tail(q)) = Len(q) - 1
<1>1. q \in Seq(MsgBlock) /\ NoDuplicates(q)
  BY DEF Parts
<1>2. PICK b, d : b = Head(q) /\ d = Tail(q)
  OBVIOUS
<1>3. /\ b \in MsgBlock /\ Occurs(q, b) /\ d \in Seq(MsgBlock) /\ NoDuplicates(d)
      /\ \A x : Occurs(d, x) <=> Occurs(q, x) /\ x # b
  BY <1>1, <1>2, TailFacts
<1>4. b \notin held /\ ~ Occurs(f, b)
  BY <1>3 DEF Parts
<1>5. Parts(d, f, held \union {b})
  BY <1>3, <1>4 DEF Parts
<1>6. Len(Tail(q)) = Len(q) - 1
  BY <1>1
<1> QED BY <1>2, <1>3, <1>4, <1>5, <1>6

LEMMA PartsIn ==
  ASSUME NEW q, NEW f, NEW held, Parts(q, f, held), NEW b \in held, NEW d \in Seq(MsgBlock),
         NoDuplicates(d), \A x : Occurs(d, x) <=> x = b \/ Occurs(q, x)
  PROVE  Parts(d, f, held \ {b})
BY DEF Parts

(* Which blocks are in the hands of threads, each in those of one.         *)
Held == {msg[t] : t \in Copying}
HeldOnce == \A t, u \in Copying : msg[t] = msg[u] => t = u

Chains(q, f) ==
  /\ Parts(q, f, Held) /\ Len(q) = msgEntry
  /\ Chain(q, next, msgHead, NoBlock) /\ Chain(f, next, msgFree, NoBlock)
  /\ msgTail = IF q = <<>> THEN NoBlock ELSE q[Len(q)]

BlockInv ==
  /\ next \in [MsgBlock -> MsgBlock \union {NoBlock}]
  /\ msg \in [Thread -> MsgBlock \union {NoBlock}]
  /\ pc \in [Thread -> MqPlaces]
  /\ HeldOnce
  /\ \E q, f : Chains(q, f)

LEMMA BlockConstants ==
  /\ NoBlock \notin MsgBlock /\ Cardinality(MsgBlock) \in Nat /\ Cardinality(MsgBlock) > 0
  /\ MqIsr \notin Thread /\ NoMessage \notin Message
<1>1. Cardinality(MsgBlock) \in Nat /\ Cardinality(MsgBlock) > 0
  BY MsgQueueAssumption, FS_CardinalityType, FS_EmptySet
<1> QED BY <1>1, MsgQueueAssumption

(* The nodes of a list without duplicates are as many as it is long.       *)
LEMMA NodesOf ==
  ASSUME NEW S, NEW q \in Seq(S), NoDuplicates(q)
  PROVE  /\ IsFiniteSet({q[i] : i \in 1 .. Len(q)})
         /\ Cardinality({q[i] : i \in 1 .. Len(q)}) = Len(q)
<1>1. PICK n \in Nat : n = Len(q)
  OBVIOUS
<1> DEFINE T == {q[i] : i \in 1 .. n}
<1>2. q \in Bijection(1 .. n, T)
  <2>1. q \in [1 .. n -> S] /\ DOMAIN q = 1 .. n
    BY <1>1
  <2>2. q \in [1 .. n -> T] /\ \A x \in T : \E i \in 1 .. n : q[i] = x
    BY <2>1
  <2>3. \A a, b \in 1 .. n : q[a] = q[b] => a = b
    BY <1>1 DEF NoDuplicates
  <2> HIDE DEF T
  <2> QED BY <2>1, <2>2, <2>3 DEF Bijection, Injection, IsInjective, Surjection
<1>3. Cardinality(T) = n /\ IsFiniteSet(T)
  <2>1. ExistsBijection(1 .. n, T)
    BY <1>2 DEF ExistsBijection
  <2> HIDE DEF T
  <2> QED BY <2>1, FS_CountingElements, FS_NatBijection
<1> QED BY <1>1, <1>3

(* The three places hold all the blocks, so their sizes add up.            *)
LEMMA SizesAddUp ==
  ASSUME NEW q, NEW f, Chains(q, f), HeldOnce
  PROVE  /\ Len(q) \in Nat /\ Len(f) \in Nat /\ Cardinality(Copying) \in Nat
         /\ Len(q) + Len(f) + Cardinality(Copying) = Cardinality(MsgBlock)
<1>1. Parts(q, f, Held) /\ Len(q) \in Nat /\ Len(f) \in Nat
  BY DEF Chains, Parts
<1> DEFINE Q == {q[i] : i \in 1 .. Len(q)}
           F == {f[i] : i \in 1 .. Len(f)}
<1>2. /\ IsFiniteSet(Q) /\ Cardinality(Q) = Len(q)
      /\ IsFiniteSet(F) /\ Cardinality(F) = Len(f)
  BY <1>1, NodesOf DEF Parts
<1>3. IsFiniteSet(Copying) /\ Cardinality(Copying) \in Nat
  <2>1. Copying \in SUBSET Thread
    BY DEF Copying
  <2> QED BY <2>1, IpcAssumption, FS_Subset, FS_CardinalityType
<1>4. IsFiniteSet(Held) /\ Cardinality(Held) = Cardinality(Copying)
  <2> DEFINE g == [t \in Copying |-> msg[t]]
  <2>1. g \in [Copying -> Held] /\ DOMAIN g = Copying /\ \A x \in Held : \E t \in Copying : g[t] = x
    BY DEF Held
  <2>2. \A a, b \in Copying : g[a] = g[b] => a = b
    BY DEF HeldOnce
  <2> HIDE DEF g
  <2>3. g \in Bijection(Copying, Held)
    BY <2>1, <2>2 DEF Bijection, Injection, IsInjective, Surjection
  <2>4. ExistsBijection(Copying, Held)
    BY <2>3 DEF ExistsBijection
  <2> QED BY <1>3, <2>4, FS_Bijection
<1>5. /\ Q \union F \union Held = MsgBlock
      /\ Q \intersect F = {} /\ (Q \union F) \intersect Held = {}
  <2>1. \A x : (x \in Q <=> Occurs(q, x)) /\ (x \in F <=> Occurs(f, x))
    BY DEF Occurs
  <2>2. \A x : (Occurs(q, x) \/ Occurs(f, x) \/ x \in Held) => x \in MsgBlock
    BY <1>1 DEF Parts, Occurs
  <2> HIDE DEF Q, F
  <2> QED BY <1>1, <2>1, <2>2 DEF Parts
<1> HIDE DEF Q, F
<1>6. /\ IsFiniteSet(Q \union F)
      /\ Cardinality(Q \union F) = Cardinality(Q) + Cardinality(F) - Cardinality({})
  BY <1>2, <1>5, FS_Union
<1>7. Cardinality(Q \union F \union Held)
        = Cardinality(Q \union F) + Cardinality(Held) - Cardinality({})
  BY <1>4, <1>5, <1>6, FS_Union
<1>8. Cardinality(MsgBlock) = Cardinality(Q) + Cardinality(F) - 0 + Cardinality(Held) - 0
  BY <1>5, <1>6, <1>7, FS_EmptySet, Zenon
<1>9. Cardinality(MsgBlock) = Len(q) + Len(f) - 0 + Cardinality(Copying) - 0
  BY <1>2, <1>4, <1>8
<1> QED BY <1>1, <1>3, <1>9

(* What the walks of RtMsgQueue over the two chains find.                  *)
LEMMA WalksFind ==
  ASSUME NEW q, NEW f, Chains(q, f), HeldOnce
  PROVE  Queued = q /\ Free = f
<1>1. /\ Chain(q, next, msgHead, NoBlock) /\ Chain(f, next, msgFree, NoBlock)
      /\ q \in Seq(MsgBlock) /\ f \in Seq(MsgBlock) /\ Len(q) = msgEntry
  BY DEF Chains, Parts
<1>2. Walked(msgHead, Len(q), next) = q /\ Walked(msgFree, Len(f), next) = f
  BY <1>1, WalkIsChain
<1>3. Cardinality(MsgBlock) - msgEntry - Cardinality(Copying) = Len(f)
  BY <1>1, SizesAddUp, BlockConstants
<1>4. \A b, n : ChainFrom(b, n) = Walked(b, n, next)
  BY DEF ChainFrom, Walked
<1> QED BY <1>1, <1>2, <1>3, <1>4 DEF Queued, Free

(* The same of the state after a step.                                     *)
Walks == \A q, f : Chains(q, f) /\ HeldOnce => Queued = q /\ Free = f

LEMMA WalksNow == Walks
BY WalksFind DEF Walks

LEMMA WalksNext == Walks'
BY WalksNow, PTL

LEMMA BlockInvMeans ==
  ASSUME BlockInv
  PROVE  /\ BlocksInOnePlace
         /\ {msgHead, msgTail, msgFree} \subseteq MsgBlock \union {NoBlock}
         /\ msgEntry \in 0 .. Cardinality(MsgBlock)
         /\ Free \in Seq(MsgBlock) /\ (Free = <<>> <=> msgFree = NoBlock)
<1>1. PICK q, f : Chains(q, f)
  BY DEF BlockInv
<1>2. Queued = q /\ Free = f
  BY <1>1, WalksFind DEF BlockInv
<1>3. /\ Parts(q, f, Held) /\ q \in Seq(MsgBlock) /\ f \in Seq(MsgBlock) /\ Len(q) = msgEntry
      /\ Chain(q, next, msgHead, NoBlock) /\ Chain(f, next, msgFree, NoBlock)
      /\ msgTail = IF q = <<>> THEN NoBlock ELSE q[Len(q)]
  BY <1>1 DEF Chains, Parts
<1>4. /\ Len(q) \in Nat /\ Len(f) \in Nat /\ Cardinality(Copying) \in Nat
      /\ Len(q) + Len(f) + Cardinality(Copying) = Cardinality(MsgBlock)
  BY <1>1, SizesAddUp DEF BlockInv
<1>5. /\ q = <<>> <=> msgEntry = 0
      /\ q # <<>> => 1 \in 1 .. Len(q) /\ Len(q) \in 1 .. Len(q) /\ q[1] \in MsgBlock
                     /\ q[Len(q)] \in MsgBlock
      /\ f # <<>> => 1 \in 1 .. Len(f) /\ Len(f) \in 1 .. Len(f) /\ f[1] \in MsgBlock
  BY <1>3
<1>6. /\ msgHead = IF q = <<>> THEN NoBlock ELSE q[1]
      /\ msgFree = IF f = <<>> THEN NoBlock ELSE f[1]
      /\ q # <<>> => next[q[Len(q)]] = NoBlock
      /\ f # <<>> => next[f[Len(f)]] = NoBlock
  BY <1>3, <1>5 DEF Chain
<1>7. {q[i] : i \in 1 .. Len(q)} \union {f[i] : i \in 1 .. Len(f)} \union Held = MsgBlock
  <2>1. \A x : /\ x \in {q[i] : i \in 1 .. Len(q)} <=> Occurs(q, x)
               /\ x \in {f[i] : i \in 1 .. Len(f)} <=> Occurs(f, x)
    BY DEF Occurs
  <2>2. \A x : (Occurs(q, x) \/ Occurs(f, x) \/ x \in Held) => x \in MsgBlock
    BY <1>3 DEF Parts, Occurs
  <2> QED BY <1>3, <2>1, <2>2 DEF Parts
<1>8. msgEntry + Cardinality(Copying) <= Cardinality(MsgBlock)
  BY <1>3, <1>4, BlockConstants
<1>9. BlocksInOnePlace
  BY <1>2, <1>3, <1>5, <1>6, <1>7, <1>8 DEF BlocksInOnePlace, Held
<1> QED BY <1>2, <1>3, <1>4, <1>5, <1>6, <1>9, BlockConstants
----------------------------------------------------------------------------
(* The links.  Each of the four operations on the chains moves one block   *)
(* between a chain and the hands of its caller; an interrupt handler does  *)
(* two of them at once.                                                    *)
NextType == next \in [MsgBlock -> MsgBlock \union {NoBlock}]

(* The last block of the queue, as msg_queue_tail names it.                *)
LastOf(q) == IF q = <<>> THEN NoBlock ELSE q[Len(q)]

LEMMA LastFacts ==
  ASSUME NEW q \in Seq(MsgBlock), NoDuplicates(q)
  PROVE  /\ \A i \in 1 .. Len(q) : q[i] \in MsgBlock /\ (q[i] = LastOf(q) <=> i = Len(q))
         /\ LastOf(q) \in MsgBlock => Occurs(q, LastOf(q))
         /\ LastOf(q) \in MsgBlock \union {NoBlock}
<1>1. q # <<>> => Len(q) \in 1 .. Len(q)
  OBVIOUS
<1>2. \A i \in 1 .. Len(q) : q # <<>> /\ q[i] \in MsgBlock
  OBVIOUS
<1>3. \A i, j \in 1 .. Len(q) : q[i] = q[j] => i = j
  BY DEF NoDuplicates
<1> QED BY <1>1, <1>2, <1>3, BlockConstants DEF LastOf, Occurs

(* rt_mq_send_wait links a block behind the last one, ...                  *)
LEMMA LinkLastBlocks ==
  ASSUME NEW q, NEW f, NEW held, Parts(q, f, held), NextType, NEW b \in held,
         Chain(q, next, msgHead, NoBlock), msgTail = LastOf(q), Len(q) = msgEntry,
         NEW first, Chain(f, next, first, NoBlock), LinkLast(b)
  PROVE  /\ Parts(Append(q, b), f, held \ {b}) /\ Len(Append(q, b)) = msgEntry'
         /\ Chain(Append(q, b), next', msgHead', NoBlock) /\ Chain(f, next', first, NoBlock)
         /\ msgTail' = LastOf(Append(q, b)) /\ next' \in [MsgBlock -> MsgBlock \union {NoBlock}]
<1>1. /\ q \in Seq(MsgBlock) /\ NoDuplicates(q) /\ b \in MsgBlock /\ ~ Occurs(q, b)
      /\ ~ Occurs(f, b) /\ f \in Seq(MsgBlock)
  BY DEF Parts
<1>2. /\ next' = [c \in MsgBlock |-> IF c = b THEN NoBlock ELSE IF c = msgTail THEN b ELSE next[c]]
      /\ msgTail' = b /\ msgHead' = IF msgHead = NoBlock THEN b ELSE msgHead
      /\ msgEntry' = msgEntry + 1
  BY DEF LinkLast
<1>3. PICK d : d = Append(q, b)
  OBVIOUS
<1>4. /\ d \in Seq(MsgBlock) /\ Len(d) = Len(q) + 1 /\ NoDuplicates(d)
      /\ \A x : Occurs(d, x) <=> x = b \/ Occurs(q, x)
  BY <1>1, <1>3, AppendFacts
<1>5. Parts(d, f, held \ {b})
  BY <1>4, PartsIn
<1>6. Chain(d, next', msgHead', NoBlock)
  <2>1. \A i \in 1 .. Len(q) : next'[q[i]] = IF i = Len(q) THEN b ELSE next[q[i]]
    <3> TAKE i \in 1 .. Len(q)
    <3>1. q[i] \in MsgBlock /\ (q[i] = msgTail <=> i = Len(q)) /\ q[i] # b
      BY <1>1, LastFacts DEF Occurs
    <3> QED BY <1>2, <3>1
  <2>2. next'[b] = NoBlock
    BY <1>1, <1>2
  <2>3. Chain(Append(q, b), next', IF q = <<>> THEN b ELSE msgHead, NoBlock)
    BY <1>1, <2>1, <2>2, ChainWithLast
  <2>4. msgHead' = IF q = <<>> THEN b ELSE msgHead
    <3>1. q # <<>> => msgHead \in MsgBlock
      <4>1. q # <<>> => q[1] \in MsgBlock
        BY <1>1
      <4> QED BY <4>1 DEF Chain
    <3>2. q = <<>> => msgHead = NoBlock
      BY DEF Chain
    <3> QED BY <1>2, <3>1, <3>2, BlockConstants
  <2> QED BY <1>3, <2>3, <2>4
<1>7. Chain(f, next', first, NoBlock)
  <2>1. \A x : Occurs(f, x) => next'[x] = next[x]
    <3> TAKE x
    <3>1. CASE Occurs(f, x)
      <4>1. x \in MsgBlock /\ x # b
        BY <1>1, <3>1 DEF Occurs
      <4>2. x # msgTail
        BY <1>1, <3>1, <4>1, LastFacts DEF Parts
      <4> QED BY <1>2, <4>1, <4>2
    <3> QED BY <3>1
  <2> QED BY <1>1, <2>1, ChainElsewhere
<1>8. msgTail' = LastOf(d)
  <2>1. d # <<>> /\ d[Len(d)] = b
    BY <1>1, <1>3, <1>4
  <2> QED BY <1>2, <2>1 DEF LastOf
<1>9. next' \in [MsgBlock -> MsgBlock \union {NoBlock}]
  BY <1>1, <1>2 DEF NextType
<1> QED BY <1>2, <1>3, <1>4, <1>5, <1>6, <1>7, <1>8, <1>9, Zenon

(* ... rt_mq_urgent before the first one;                                  *)
LEMMA LinkFirstBlocks ==
  ASSUME NEW q, NEW f, NEW held, Parts(q, f, held), NextType, NEW b \in held,
         Chain(q, next, msgHead, NoBlock), msgTail = LastOf(q), Len(q) = msgEntry,
         NEW first, Chain(f, next, first, NoBlock), LinkFirst(b)
  PROVE  /\ Parts(<<b>> \o q, f, held \ {b}) /\ Len(<<b>> \o q) = msgEntry'
         /\ Chain(<<b>> \o q, next', msgHead', NoBlock) /\ Chain(f, next', first, NoBlock)
         /\ msgTail' = LastOf(<<b>> \o q) /\ next' \in [MsgBlock -> MsgBlock \union {NoBlock}]
<1>1. /\ q \in Seq(MsgBlock) /\ NoDuplicates(q) /\ b \in MsgBlock /\ ~ Occurs(q, b)
      /\ ~ Occurs(f, b) /\ f \in Seq(MsgBlock)
  BY DEF Parts
<1>2. /\ next' = [next EXCEPT ![b] = msgHead] /\ msgHead' = b
      /\ msgTail' = (IF msgTail = NoBlock THEN b ELSE msgTail)
      /\ msgEntry' = msgEntry + 1
  BY DEF LinkFirst
<1>3. PICK d : d = <<b>> \o q
  OBVIOUS
<1>4. /\ d \in Seq(MsgBlock) /\ Len(d) = Len(q) + 1 /\ NoDuplicates(d)
      /\ \A x : Occurs(d, x) <=> x = b \/ Occurs(q, x)
  BY <1>1, <1>3, PushFacts
<1>5. Parts(d, f, held \ {b})
  BY <1>4, PartsIn
<1>6. /\ next'[b] = msgHead
      /\ \A x : Occurs(q, x) \/ Occurs(f, x) => next'[x] = next[x]
  <2>1. \A x : Occurs(q, x) \/ Occurs(f, x) => x \in MsgBlock /\ x # b
    BY <1>1 DEF Occurs
  <2> QED BY <1>1, <1>2, <2>1 DEF NextType
<1>7. Chain(d, next', msgHead', NoBlock)
  <2>1. Chain(<<b>> \o q, next', b, NoBlock)
    BY <1>1, <1>6, ChainWithFirst
  <2> QED BY <1>2, <1>3, <2>1
<1>8. Chain(f, next', first, NoBlock)
  BY <1>1, <1>6, ChainElsewhere
<1>9. msgTail' = LastOf(d)
  <2>1. d # <<>> /\ (q = <<>> => d[Len(d)] = b) /\ (q # <<>> => d[Len(d)] = q[Len(q)])
    BY <1>1, <1>3
  <2>2. (q = <<>> => msgTail = NoBlock) /\ (q # <<>> => msgTail = q[Len(q)] /\ q[Len(q)] \in MsgBlock)
    BY <1>1 DEF LastOf
  <2> QED BY <1>2, <2>1, <2>2, BlockConstants DEF LastOf
<1>10. next' \in [MsgBlock -> MsgBlock \union {NoBlock}]
  <2>1. msgHead \in MsgBlock \union {NoBlock}
    <3>1. q # <<>> => q[1] \in MsgBlock
      BY <1>1
    <3> QED BY <3>1 DEF Chain
  <2> QED BY <1>2, <2>1 DEF NextType
<1> QED BY <1>2, <1>3, <1>4, <1>5, <1>7, <1>8, <1>9, <1>10

(* rt_mq_recv takes the first block out, ...                               *)
LEMMA TakeFirstBlocks ==
  ASSUME NEW q, NEW f, NEW held, Parts(q, f, held),
         Chain(q, next, msgHead, NoBlock), msgTail = LastOf(q), Len(q) = msgEntry,
         TakeFirst(msgHead)
  PROVE  /\ q # <<>> /\ msgHead = Head(q) /\ msgHead \in MsgBlock /\ msgHead \notin held
         /\ Parts(Tail(q), f, held \union {msgHead}) /\ Len(Tail(q)) = msgEntry'
         /\ Chain(Tail(q), next, msgHead', NoBlock)
         /\ msgTail' = LastOf(Tail(q))
<1>1. q \in Seq(MsgBlock) /\ NoDuplicates(q) /\ q # <<>>
  BY DEF Parts, TakeFirst
<1>2. msgHead = Head(q) /\ Chain(Tail(q), next, next[msgHead], NoBlock)
  BY <1>1, ChainWithoutFirst
<1>3. /\ msgHead' = next[msgHead] /\ msgEntry' = msgEntry - 1
      /\ msgTail' = IF msgTail = msgHead THEN NoBlock ELSE msgTail
  BY DEF TakeFirst
<1>4. /\ msgHead \in MsgBlock /\ msgHead \notin held
      /\ Parts(Tail(q), f, held \union {msgHead}) /\ Len(Tail(q)) = Len(q) - 1
  BY <1>1, <1>2, PartsOut
<1>5. PICK d : d = Tail(q) /\ d \in Seq(MsgBlock) /\ Len(d) = Len(q) - 1
               /\ \A i \in 1 .. Len(q) - 1 : d[i] = q[i + 1]
  <2>1. /\ Tail(q) \in Seq(MsgBlock) /\ Len(Tail(q)) = Len(q) - 1
        /\ \A i \in 1 .. Len(q) - 1 : Tail(q)[i] = q[i + 1]
    BY <1>1
  <2> QED BY <2>1, Zenon
<1>6. msgTail' = LastOf(d)
  <2>1. msgHead = q[1] /\ Len(q) \in 1 .. Len(q) /\ 1 \in 1 .. Len(q) /\ msgTail = q[Len(q)]
    BY <1>1, <1>2 DEF LastOf
  <2>2. msgTail = msgHead <=> Len(q) = 1
    BY <1>1, <2>1 DEF NoDuplicates
  <2>3. d = <<>> <=> Len(q) = 1
    <3>1. d = <<>> <=> Len(d) = 0
      BY <1>5
    <3> QED BY <1>1, <1>5, <3>1
  <2>4. Len(q) # 1 => d[Len(d)] = q[Len(q)]
    <3>1. Len(q) # 1 => Len(q) - 1 \in 1 .. Len(q) - 1
      BY <2>1
    <3> QED BY <1>5, <3>1
  <2> QED BY <1>3, <2>1, <2>2, <2>3, <2>4 DEF LastOf
<1> QED BY <1>1, <1>2, <1>3, <1>4, <1>5, <1>6

(* ... and puts it before the first free one.                              *)
LEMMA FreeOneBlocks ==
  ASSUME NEW q, NEW f, NEW held, Parts(q, f, held), NextType, NEW b \in held,
         NEW first, Chain(q, next, first, NoBlock), Chain(f, next, msgFree, NoBlock),
         next' = [next EXCEPT ![b] = msgFree], msgFree' = b
  PROVE  /\ Parts(q, <<b>> \o f, held \ {b}) /\ Len(<<b>> \o f) = Len(f) + 1
         /\ Chain(q, next', first, NoBlock) /\ Chain(<<b>> \o f, next', msgFree', NoBlock)
         /\ next' \in [MsgBlock -> MsgBlock \union {NoBlock}]
<1>1. /\ q \in Seq(MsgBlock) /\ f \in Seq(MsgBlock) /\ NoDuplicates(f) /\ b \in MsgBlock
      /\ ~ Occurs(q, b) /\ ~ Occurs(f, b)
  BY DEF Parts
<1>2. PICK d : d = <<b>> \o f
  OBVIOUS
<1>3. /\ d \in Seq(MsgBlock) /\ Len(d) = Len(f) + 1 /\ NoDuplicates(d)
      /\ \A x : Occurs(d, x) <=> x = b \/ Occurs(f, x)
  BY <1>1, <1>2, PushFacts
<1>4. Parts(q, d, held \ {b})
  BY <1>3, PartsIn, PartsSwap
<1>5. /\ next'[b] = msgFree
      /\ \A x : Occurs(q, x) \/ Occurs(f, x) => next'[x] = next[x]
  <2>1. \A x : Occurs(q, x) \/ Occurs(f, x) => x \in MsgBlock /\ x # b
    BY <1>1 DEF Occurs
  <2> QED BY <1>1, <2>1 DEF NextType
<1>6. Chain(q, next', first, NoBlock)
  BY <1>1, <1>5, ChainElsewhere
<1>7. Chain(<<b>> \o f, next', b, NoBlock)
  <2>1. next'[b] = msgFree /\ \A x : Occurs(f, x) => next'[x] = next[x]
    BY <1>5
  <2> QED BY <1>1, <2>1, ChainWithFirst
<1>8. msgFree \in MsgBlock \union {NoBlock}
  <2>1. f # <<>> => f[1] \in MsgBlock
    BY <1>1
  <2> QED BY <2>1 DEF Chain
<1>9. next' \in [MsgBlock -> MsgBlock \union {NoBlock}]
  BY <1>8 DEF NextType
<1> QED BY <1>2, <1>3, <1>4, <1>6, <1>7, <1>9

(* Who holds a block.                                                      *)
LEMMA HoldMore ==
  ASSUME HeldOnce, msg \in [Thread -> MsgBlock \union {NoBlock}], NEW t \in Thread, t \notin Copying,
         NEW b \in MsgBlock, b \notin Held,
         msg' = [msg EXCEPT ![t] = b], Copying' = Copying \union {t}
  PROVE  Held' = Held \union {b} /\ HeldOnce' /\ msg' \in [Thread -> MsgBlock \union {NoBlock}]
<1>1. /\ msg' \in [Thread -> MsgBlock \union {NoBlock}] /\ msg'[t] = b
      /\ \A u \in Copying : u \in Thread /\ msg'[u] = msg[u] /\ msg[u] # b
  BY DEF Copying, Held
<1> QED BY <1>1 DEF Held, HeldOnce

LEMMA HoldLess ==
  ASSUME HeldOnce, NEW t \in Copying, msg' = msg, Copying' = Copying \ {t}
  PROVE  msg[t] \in Held /\ Held' = Held \ {msg[t]} /\ HeldOnce'
BY DEF Held, HeldOnce

LEMMA HoldSame ==
  ASSUME HeldOnce, msg' = msg, Copying' = Copying
  PROVE  Held' = Held /\ HeldOnce'
BY DEF Held, HeldOnce
----------------------------------------------------------------------------
(* The steps of the calls keep every block in one place.                   *)
CopyPlaces == {"mq_copy_in", "mq_copy_urgent", "mq_copy_out"}

(* How many blocks the free chain has.                                     *)
Spare == Cardinality(MsgBlock) - msgEntry - Cardinality(Copying)

LEMMA CopyingFinite == IsFiniteSet(Copying) /\ Cardinality(Copying) \in Nat
<1>1. Copying \in SUBSET Thread
  BY DEF Copying
<1> QED BY <1>1, IpcAssumption, FS_Subset, FS_CardinalityType

LEMMA CopyStarts ==
  ASSUME pc \in [Thread -> MqPlaces], NEW t \in Thread, pc[t] \notin CopyPlaces,
         NEW to \in CopyPlaces, Goto(t, to)
  PROVE  /\ pc' \in [Thread -> MqPlaces] /\ t \notin Copying /\ Copying' = Copying \union {t}
         /\ Cardinality(Copying') = Cardinality(Copying) + 1
<1>1. pc' \in [Thread -> MqPlaces] /\ t \notin Copying /\ Copying' = Copying \union {t}
  BY DEF Goto, Copying, CopyPlaces, MqPlaces
<1> QED BY <1>1, CopyingFinite, FS_AddElement

LEMMA CopyEnds ==
  ASSUME pc \in [Thread -> MqPlaces], NEW t \in Thread, pc[t] \in CopyPlaces,
         NEW to \in MqPlaces \ CopyPlaces, Goto(t, to)
  PROVE  /\ pc' \in [Thread -> MqPlaces] /\ t \in Copying /\ Copying' = Copying \ {t}
         /\ Cardinality(Copying') = Cardinality(Copying) - 1
<1>1. pc' \in [Thread -> MqPlaces] /\ t \in Copying /\ Copying' = Copying \ {t}
  BY DEF Goto, Copying, CopyPlaces
<1> QED BY <1>1, CopyingFinite, FS_RemoveElement

LEMMA CopySame ==
  ASSUME NEW t \in Thread, pc[t] \notin CopyPlaces,
         pc \in [Thread -> MqPlaces], NEW to \in MqPlaces \ CopyPlaces, Goto(t, to)
  PROVE  pc' \in [Thread -> MqPlaces] /\ Copying' = Copying
BY DEF Goto, Copying, CopyPlaces

LEMMA NextBlocks ==
  ASSUME NEW q, NEW f, Parts(q, f, Held'), Len(q) = msgEntry',
         Chain(q, next', msgHead', NoBlock), Chain(f, next', msgFree', NoBlock),
         msgTail' = LastOf(q), HeldOnce',
         next' \in [MsgBlock -> MsgBlock \union {NoBlock}],
         msg' \in [Thread -> MsgBlock \union {NoBlock}], pc' \in [Thread -> MqPlaces]
  PROVE  BlockInv' /\ Queued' = q
<1>1. Chains(q, f)'
  BY DEF Chains, LastOf
<1>2. BlockInv'
  BY <1>1 DEF BlockInv
<1>3. Queued' = q
  BY <1>1, WalksNext DEF Walks
<1> QED BY <1>2, <1>3

(* The queue and the free chain, by the names of the model.                *)
LEMMA ChainsNow ==
  ASSUME BlockInv
  PROVE  \E f : Chains(Queued, f) /\ Free = f
<1>1. PICK q, f : Chains(q, f)
  BY DEF BlockInv
<1> QED BY <1>1, WalksNow DEF Walks, BlockInv

(* A send takes the first free block.                                      *)
LEMMA TakeFreeStep ==
  ASSUME BlockInv, NEW t \in Thread, pc[t] \notin CopyPlaces, NEW to \in CopyPlaces,
         Goto(t, to), TakeFreeBlock(msgFree), msg' = [msg EXCEPT ![t] = msgFree],
         UNCHANGED <<next, msgHead, msgTail, msgEntry>>
  PROVE  BlockInv' /\ Queued' = Queued
<1>1. PICK q, f : Chains(q, f) /\ Queued = q
  BY ChainsNow
<1>2. /\ Parts(q, f, Held) /\ Len(q) = msgEntry /\ f \in Seq(MsgBlock)
      /\ Chain(q, next, msgHead, NoBlock) /\ Chain(f, next, msgFree, NoBlock)
      /\ msgTail = LastOf(q)
  BY <1>1 DEF Chains, LastOf, Parts
<1>3. msgFree # NoBlock /\ msgFree' = next[msgFree] /\ f # <<>>
  BY <1>2 DEF TakeFreeBlock, Chain
<1>4. msgFree = Head(f) /\ Chain(Tail(f), next, next[msgFree], NoBlock)
  BY <1>2, <1>3, ChainWithoutFirst
<1>5. msgFree \in MsgBlock /\ msgFree \notin Held /\ Parts(q, Tail(f), Held \union {msgFree})
  BY <1>2, <1>3, <1>4, PartsSwap, PartsOut
<1>6. /\ pc' \in [Thread -> MqPlaces] /\ t \notin Copying /\ Copying' = Copying \union {t}
  BY CopyStarts DEF BlockInv
<1>7. PICK b \in MsgBlock : b = msgFree
  BY <1>5
<1>8. Held' = Held \union {b} /\ HeldOnce' /\ msg' \in [Thread -> MsgBlock \union {NoBlock}]
  BY <1>5, <1>6, <1>7, HoldMore DEF BlockInv
<1>9. PICK e : e = Tail(f)
  OBVIOUS
<1>10. Parts(q, e, Held') /\ Chain(e, next', msgFree', NoBlock)
  BY <1>3, <1>4, <1>5, <1>7, <1>8, <1>9
<1>11. Chain(q, next', msgHead', NoBlock) /\ msgTail' = LastOf(q) /\ Len(q) = msgEntry'
  BY <1>2
<1>12. next' \in [MsgBlock -> MsgBlock \union {NoBlock}]
  BY DEF BlockInv
<1>13. BlockInv' /\ Queued' = q
  BY <1>6, <1>8, <1>10, <1>11, <1>12, NextBlocks
<1> QED BY <1>1, <1>13

(* Its second critical section links it.                                   *)
LEMMA LinkStep ==
  ASSUME BlockInv, NEW t \in Thread, pc[t] \in CopyPlaces, NEW to \in MqPlaces \ CopyPlaces,
         Goto(t, to), LinkLast(msg[t]) \/ LinkFirst(msg[t]), UNCHANGED <<msg, msgFree>>
  PROVE  /\ BlockInv' /\ msg[t] \in MsgBlock /\ ~ Occurs(Queued, msg[t])
         /\ Queued \in Seq(MsgBlock) /\ Len(Queued) = msgEntry
         /\ \/ LinkLast(msg[t]) /\ Queued' = Append(Queued, msg[t])
            \/ LinkFirst(msg[t]) /\ Queued' = <<msg[t]>> \o Queued
<1>1. PICK q, f : Chains(q, f) /\ Queued = q
  BY ChainsNow
<1>2. /\ Parts(q, f, Held) /\ Len(q) = msgEntry /\ NextType
      /\ Chain(q, next, msgHead, NoBlock) /\ Chain(f, next, msgFree, NoBlock)
      /\ msgTail = LastOf(q)
  BY <1>1 DEF Chains, LastOf, BlockInv, NextType
<1>3. pc' \in [Thread -> MqPlaces] /\ t \in Copying /\ Copying' = Copying \ {t}
  BY CopyEnds DEF BlockInv
<1>4. msg[t] \in Held /\ Held' = Held \ {msg[t]} /\ HeldOnce'
  BY <1>3, HoldLess DEF BlockInv
<1>5. \E d : /\ \/ LinkLast(msg[t]) /\ d = Append(q, msg[t])
                \/ LinkFirst(msg[t]) /\ d = <<msg[t]>> \o q
             /\ Parts(d, f, Held \ {msg[t]}) /\ Len(d) = msgEntry'
             /\ Chain(d, next', msgHead', NoBlock) /\ Chain(f, next', msgFree, NoBlock)
             /\ msgTail' = LastOf(d) /\ next' \in [MsgBlock -> MsgBlock \union {NoBlock}]
  <2>1. CASE LinkLast(msg[t])
    BY <1>2, <1>4, <2>1, LinkLastBlocks
  <2>2. CASE LinkFirst(msg[t])
    BY <1>2, <1>4, <2>2, LinkFirstBlocks
  <2> QED BY <2>1, <2>2
<1>6. PICK d : /\ \/ LinkLast(msg[t]) /\ d = Append(q, msg[t])
                  \/ LinkFirst(msg[t]) /\ d = <<msg[t]>> \o q
               /\ Parts(d, f, Held \ {msg[t]}) /\ Len(d) = msgEntry'
               /\ Chain(d, next', msgHead', NoBlock) /\ Chain(f, next', msgFree, NoBlock)
               /\ msgTail' = LastOf(d) /\ next' \in [MsgBlock -> MsgBlock \union {NoBlock}]
  BY <1>5
<1>7. Parts(d, f, Held') /\ Chain(f, next', msgFree', NoBlock)
  BY <1>4, <1>6
<1>8. msg' \in [Thread -> MsgBlock \union {NoBlock}]
  BY DEF BlockInv
<1>9. BlockInv' /\ Queued' = d
  BY <1>3, <1>4, <1>6, <1>7, <1>8, NextBlocks
<1>10. msg[t] \in MsgBlock /\ ~ Occurs(q, msg[t]) /\ q \in Seq(MsgBlock)
  BY <1>2, <1>4 DEF Parts
<1> QED BY <1>1, <1>2, <1>6, <1>9, <1>10

(* An interrupt handler sends in one step.                                 *)
LEMMA IsrSendBlocks ==
  ASSUME BlockInv, TakeFreeBlock(msgFree), LinkLast(msgFree) \/ LinkFirst(msgFree),
         UNCHANGED <<msg, pc>>
  PROVE  /\ BlockInv' /\ msgFree \in MsgBlock /\ ~ Occurs(Queued, msgFree)
         /\ msgFree \notin Held
         /\ Queued \in Seq(MsgBlock) /\ Len(Queued) = msgEntry
         /\ \/ LinkLast(msgFree) /\ Queued' = Append(Queued, msgFree)
            \/ LinkFirst(msgFree) /\ Queued' = <<msgFree>> \o Queued
<1>1. PICK q, f : Chains(q, f) /\ Queued = q
  BY ChainsNow
<1>2. /\ Parts(q, f, Held) /\ Len(q) = msgEntry /\ f \in Seq(MsgBlock) /\ NextType
      /\ Chain(q, next, msgHead, NoBlock) /\ Chain(f, next, msgFree, NoBlock)
      /\ msgTail = LastOf(q)
  BY <1>1 DEF Chains, LastOf, Parts, BlockInv, NextType
<1>3. msgFree # NoBlock /\ msgFree' = next[msgFree] /\ f # <<>>
  BY <1>2 DEF TakeFreeBlock, Chain
<1>4. msgFree = Head(f) /\ Chain(Tail(f), next, next[msgFree], NoBlock)
  BY <1>2, <1>3, ChainWithoutFirst
<1>5. msgFree \in MsgBlock /\ msgFree \notin Held /\ Parts(q, Tail(f), Held \union {msgFree})
  BY <1>2, <1>3, <1>4, PartsSwap, PartsOut
<1>6. Held' = Held /\ HeldOnce'
  <2>1. Copying' = Copying
    BY DEF Copying
  <2> QED BY <2>1, HoldSame DEF BlockInv
<1>7. PICK e, b, held, rest : /\ e = Tail(f) /\ b = msgFree /\ held = Held \union {msgFree}
                              /\ rest = next[msgFree]
  OBVIOUS
<1>8. /\ Parts(q, e, held) /\ b \in held /\ Chain(e, next, rest, NoBlock)
      /\ (LinkLast(b) \/ LinkFirst(b)) /\ held \ {b} = Held
  BY <1>4, <1>5, <1>7
<1>9. \E d : /\ \/ LinkLast(b) /\ d = Append(q, b)
                \/ LinkFirst(b) /\ d = <<b>> \o q
             /\ Parts(d, e, held \ {b}) /\ Len(d) = msgEntry'
             /\ Chain(d, next', msgHead', NoBlock) /\ Chain(e, next', rest, NoBlock)
             /\ msgTail' = LastOf(d) /\ next' \in [MsgBlock -> MsgBlock \union {NoBlock}]
  <2>1. CASE LinkLast(b)
    BY <1>2, <1>8, <2>1, LinkLastBlocks
  <2>2. CASE LinkFirst(b)
    BY <1>2, <1>8, <2>2, LinkFirstBlocks
  <2>3. LinkLast(b) \/ LinkFirst(b)
    BY <1>7
  <2> QED BY <2>1, <2>2, <2>3
<1>10. PICK d : /\ \/ LinkLast(b) /\ d = Append(q, b)
                   \/ LinkFirst(b) /\ d = <<b>> \o q
                /\ Parts(d, e, held \ {b}) /\ Len(d) = msgEntry'
                /\ Chain(d, next', msgHead', NoBlock) /\ Chain(e, next', rest, NoBlock)
                /\ msgTail' = LastOf(d) /\ next' \in [MsgBlock -> MsgBlock \union {NoBlock}]
  BY <1>9
<1>11. Parts(d, e, Held') /\ Chain(e, next', msgFree', NoBlock)
  BY <1>3, <1>5, <1>6, <1>7, <1>10
<1>12. msg' \in [Thread -> MsgBlock \union {NoBlock}] /\ pc' \in [Thread -> MqPlaces]
  BY DEF BlockInv
<1>13. BlockInv' /\ Queued' = d
  BY <1>6, <1>10, <1>11, <1>12, NextBlocks
<1>14. ~ Occurs(q, msgFree) /\ q \in Seq(MsgBlock)
  BY <1>5, <1>7, <1>8 DEF Parts
<1> QED BY <1>1, <1>2, <1>5, <1>7, <1>10, <1>13, <1>14

(* A receive takes the first message.                                      *)
LEMMA TakeFirstStep ==
  ASSUME BlockInv, NEW t \in Thread, pc[t] \notin CopyPlaces, NEW to \in CopyPlaces,
         Goto(t, to), TakeFirst(msgHead), msg' = [msg EXCEPT ![t] = msgHead],
         UNCHANGED <<next, msgFree>>
  PROVE  /\ BlockInv' /\ Queued # <<>> /\ msgHead = Head(Queued) /\ Queued' = Tail(Queued)
         /\ Queued \in Seq(MsgBlock) /\ Len(Queued) = msgEntry
<1>1. PICK q, f : Chains(q, f) /\ Queued = q
  BY ChainsNow
<1>2. /\ Parts(q, f, Held) /\ Len(q) = msgEntry
      /\ Chain(q, next, msgHead, NoBlock) /\ Chain(f, next, msgFree, NoBlock)
      /\ msgTail = LastOf(q)
  BY <1>1 DEF Chains, LastOf
<1>3. PICK b, d : b = msgHead /\ d = Tail(q)
  OBVIOUS
<1>4. /\ b \in MsgBlock /\ b \notin Held /\ Parts(d, f, Held \union {b}) /\ Len(d) = msgEntry'
      /\ Chain(d, next, msgHead', NoBlock) /\ msgTail' = LastOf(d)
      /\ q # <<>> /\ msgHead = Head(q)
  BY <1>2, <1>3, TakeFirstBlocks
<1>5. /\ pc' \in [Thread -> MqPlaces] /\ t \notin Copying /\ Copying' = Copying \union {t}
  BY CopyStarts DEF BlockInv
<1>6. Held' = Held \union {b} /\ HeldOnce' /\ msg' \in [Thread -> MsgBlock \union {NoBlock}]
  BY <1>3, <1>4, <1>5, HoldMore DEF BlockInv
<1>7. /\ Parts(d, f, Held') /\ Chain(f, next', msgFree', NoBlock)
      /\ Chain(d, next', msgHead', NoBlock)
  BY <1>2, <1>4, <1>6
<1>8. next' \in [MsgBlock -> MsgBlock \union {NoBlock}]
  BY DEF BlockInv
<1>9. BlockInv' /\ Queued' = d
  BY <1>4, <1>5, <1>6, <1>7, <1>8, NextBlocks
<1>10. q \in Seq(MsgBlock)
  BY <1>2 DEF Parts
<1> QED BY <1>1, <1>2, <1>3, <1>4, <1>9, <1>10

(* Its second critical section frees the block.                            *)
LEMMA FreeBlockStep ==
  ASSUME BlockInv, NEW t \in Thread, pc[t] \in CopyPlaces, NEW to \in MqPlaces \ CopyPlaces,
         Goto(t, to), next' = [next EXCEPT ![msg[t]] = msgFree], msgFree' = msg[t],
         UNCHANGED <<msg, msgHead, msgTail, msgEntry>>
  PROVE  BlockInv' /\ Queued' = Queued
<1>1. PICK q, f : Chains(q, f) /\ Queued = q
  BY ChainsNow
<1>2. /\ Parts(q, f, Held) /\ Len(q) = msgEntry /\ NextType
      /\ Chain(q, next, msgHead, NoBlock) /\ Chain(f, next, msgFree, NoBlock)
      /\ msgTail = LastOf(q)
  BY <1>1 DEF Chains, LastOf, BlockInv, NextType
<1>3. pc' \in [Thread -> MqPlaces] /\ t \in Copying /\ Copying' = Copying \ {t}
  BY CopyEnds DEF BlockInv
<1>4. msg[t] \in Held /\ Held' = Held \ {msg[t]} /\ HeldOnce'
  BY <1>3, HoldLess DEF BlockInv
<1>5. PICK b, e : b = msg[t] /\ e = <<b>> \o f
  OBVIOUS
<1>6. /\ Parts(q, e, Held \ {b})
      /\ Chain(q, next', msgHead, NoBlock) /\ Chain(e, next', msgFree', NoBlock)
      /\ next' \in [MsgBlock -> MsgBlock \union {NoBlock}]
  BY <1>2, <1>4, <1>5, FreeOneBlocks
<1>7. Parts(q, e, Held') /\ Chain(q, next', msgHead', NoBlock)
  BY <1>4, <1>5, <1>6
<1>8. msgTail' = LastOf(q) /\ Len(q) = msgEntry' /\ msg' \in [Thread -> MsgBlock \union {NoBlock}]
  BY <1>2 DEF BlockInv
<1>9. BlockInv' /\ Queued' = q
  BY <1>3, <1>4, <1>6, <1>7, <1>8, NextBlocks
<1> QED BY <1>1, <1>9

(* An interrupt handler receives in one step.                              *)
LEMMA IsrRecvBlocks ==
  ASSUME BlockInv, TakeFirst(msgHead), next' = [next EXCEPT ![msgHead] = msgFree],
         msgFree' = msgHead, UNCHANGED <<msg, pc>>
  PROVE  /\ BlockInv' /\ Queued # <<>> /\ msgHead = Head(Queued) /\ Queued' = Tail(Queued)
         /\ Queued \in Seq(MsgBlock) /\ Len(Queued) = msgEntry
<1>1. PICK q, f : Chains(q, f) /\ Queued = q
  BY ChainsNow
<1>2. /\ Parts(q, f, Held) /\ Len(q) = msgEntry /\ NextType
      /\ Chain(q, next, msgHead, NoBlock) /\ Chain(f, next, msgFree, NoBlock)
      /\ msgTail = LastOf(q)
  BY <1>1 DEF Chains, LastOf, BlockInv, NextType
<1>3. PICK b, d, held, first : /\ b = msgHead /\ d = Tail(q) /\ held = Held \union {b}
                               /\ first = msgHead'
  OBVIOUS
<1>4. /\ b \in MsgBlock /\ b \notin Held /\ Parts(d, f, held) /\ Len(d) = msgEntry'
      /\ Chain(d, next, first, NoBlock) /\ msgTail' = LastOf(d)
      /\ q # <<>> /\ msgHead = Head(q)
  BY <1>2, <1>3, TakeFirstBlocks
<1>5. Held' = Held /\ HeldOnce'
  <2>1. Copying' = Copying
    BY DEF Copying
  <2> QED BY <2>1, HoldSame DEF BlockInv
<1>6. b \in held /\ next' = [next EXCEPT ![b] = msgFree] /\ msgFree' = b
  BY <1>3
<1>7. PICK e : e = <<b>> \o f
  OBVIOUS
<1>8. /\ Parts(d, e, held \ {b})
      /\ Chain(d, next', first, NoBlock) /\ Chain(e, next', msgFree', NoBlock)
      /\ next' \in [MsgBlock -> MsgBlock \union {NoBlock}]
  BY <1>2, <1>4, <1>6, <1>7, FreeOneBlocks
<1>9. held \ {b} = Held'
  BY <1>3, <1>4, <1>5
<1>10. Parts(d, e, Held') /\ Chain(d, next', msgHead', NoBlock)
  BY <1>3, <1>8, <1>9
<1>11. msg' \in [Thread -> MsgBlock \union {NoBlock}] /\ pc' \in [Thread -> MqPlaces]
  BY DEF BlockInv
<1>12. BlockInv' /\ Queued' = d
  BY <1>4, <1>5, <1>8, <1>10, <1>11, NextBlocks
<1>13. q \in Seq(MsgBlock)
  BY <1>2 DEF Parts
<1> QED BY <1>1, <1>2, <1>3, <1>4, <1>12, <1>13

(* RT_IPC_CMD_RESET moves the whole queue, in reverse, before the first    *)
(* free block.                                                             *)
LEMMA ResetBlocks ==
  ASSUME BlockInv,
         next' = [b \in MsgBlock |->
                    IF Occurs(Queued, b)
                      THEN IF b = msgHead THEN msgFree ELSE Queued[Position(Queued, b) - 1]
                      ELSE next[b]],
         msgFree' = IF msgEntry = 0 THEN msgFree ELSE Queued[msgEntry],
         msgHead' = NoBlock, msgTail' = NoBlock, msgEntry' = 0, UNCHANGED msg,
         Copying' = Copying, pc' \in [Thread -> MqPlaces]
  PROVE  BlockInv' /\ Queued' = <<>>
<1>1. PICK q, f : Chains(q, f) /\ Queued = q
  BY ChainsNow
<1>2. /\ Parts(q, f, Held) /\ Len(q) = msgEntry
      /\ q \in Seq(MsgBlock) /\ NoDuplicates(q) /\ f \in Seq(MsgBlock) /\ NoDuplicates(f)
      /\ \A x : ~ (Occurs(q, x) /\ Occurs(f, x))
      /\ Chain(q, next, msgHead, NoBlock) /\ Chain(f, next, msgFree, NoBlock)
  <2>1. Parts(q, f, Held)
    BY <1>1 DEF Chains
  <2>2. \A x : Occurs(q, x) => x \in MsgBlock
    BY <2>1 DEF Parts, Occurs
  <2> QED BY <1>1, <2>1, <2>2 DEF Chains, Parts
<1>3. \A i \in 1 .. Len(q) : next'[q[i]] = IF i = 1 THEN msgFree ELSE q[i - 1]
  <2> TAKE i \in 1 .. Len(q)
  <2>1. q[i] \in MsgBlock /\ Occurs(q, q[i]) /\ Position(q, q[i]) = i
    BY <1>2, PositionOf DEF Occurs
  <2>2. q[i] = msgHead <=> i = 1
    <3>1. msgHead = q[1] /\ 1 \in 1 .. Len(q)
      BY <1>2 DEF Chain
    <3> QED BY <1>2, <3>1 DEF NoDuplicates
  <2> QED BY <1>1, <2>1, <2>2
<1>4. \A x : Occurs(f, x) => next'[x] = next[x]
  <2> TAKE x
  <2>1. CASE Occurs(f, x)
    <3>1. ~ Occurs(q, x)
      BY <1>2, <2>1
    <3>2. x \in MsgBlock
      BY <1>2, <2>1 DEF Occurs
    <3> QED BY <1>1, <3>1, <3>2
  <2> QED BY <2>1
<1>5. PICK r \in Seq(MsgBlock) :
        /\ Len(r) = Len(q) + Len(f) /\ NoDuplicates(r)
        /\ \A x : Occurs(r, x) <=> Occurs(q, x) \/ Occurs(f, x)
        /\ Chain(r, next', IF q = <<>> THEN msgFree ELSE q[Len(q)], NoBlock)
  <2>1. PICK link, new, first : link = next /\ new = next' /\ first = msgFree
    OBVIOUS
  <2>2. MovedBefore(MsgBlock, q, f, link, first, NoBlock, new)
    BY <1>2, <1>3, <1>4, <2>1 DEF MovedBefore
  <2>3. \E r \in Seq(MsgBlock) :
          /\ Len(r) = Len(q) + Len(f) /\ NoDuplicates(r)
          /\ \A x : Occurs(r, x) <=> Occurs(q, x) \/ Occurs(f, x)
          /\ Chain(r, new, IF q = <<>> THEN first ELSE q[Len(q)], NoBlock)
    BY <2>2, ChainReversed
  <2> QED BY <2>1, <2>3
<1>6. Chain(r, next', msgFree', NoBlock)
  <2>1. q = <<>> <=> msgEntry = 0
    BY <1>2
  <2>2. msgFree' = IF q = <<>> THEN msgFree ELSE q[Len(q)]
    BY <1>1, <1>2, <2>1
  <2> QED BY <1>5, <2>2
<1>7. Held' = Held /\ HeldOnce'
  BY HoldSame DEF BlockInv
<1>8. PICK e : e = <<>>
  OBVIOUS
<1>9. e \in Seq(MsgBlock) /\ NoDuplicates(e) /\ Len(e) = 0 /\ \A x : ~ Occurs(e, x)
  BY <1>8, EmptyFacts
<1>10. Parts(e, r, Held')
  BY <1>2, <1>5, <1>7, <1>9 DEF Parts
<1>11. Chain(e, next', msgHead', NoBlock) /\ msgTail' = LastOf(e)
  BY <1>8, <1>9 DEF Chain, LastOf
<1>12. next' \in [MsgBlock -> MsgBlock \union {NoBlock}]
  <2>1. msgFree \in MsgBlock \union {NoBlock}
    BY BlockInvMeans
  <2>2. ASSUME NEW b \in MsgBlock, Occurs(q, b)
        PROVE  next'[b] \in MsgBlock \union {NoBlock}
    <3>1. PICK i \in 1 .. Len(q) : q[i] = b
      BY <2>2 DEF Occurs
    <3>2. i # 1 => q[i - 1] \in MsgBlock
      BY <1>2
    <3> QED BY <1>3, <2>1, <3>1, <3>2
  <2>3. ASSUME NEW b \in MsgBlock, ~ Occurs(q, b)
        PROVE  next'[b] \in MsgBlock \union {NoBlock}
    BY <1>1, <2>3 DEF BlockInv
  <2> QED BY <2>2, <2>3
<1>13. msg' \in [Thread -> MsgBlock \union {NoBlock}]
  BY DEF BlockInv
<1> QED BY <1>6, <1>7, <1>8, <1>9, <1>10, <1>11, <1>12, <1>13, NextBlocks

(* Steps that leave the chains alone.                                      *)
LEMMA SameBlocks ==
  ASSUME BlockInv, UNCHANGED <<next, msgHead, msgTail, msgFree, msgEntry, msg>>,
         Copying' = Copying, pc' \in [Thread -> MqPlaces]
  PROVE  BlockInv' /\ Queued' = Queued
<1>1. PICK q, f : Chains(q, f) /\ Queued = q
  BY ChainsNow
<1>2. /\ Parts(q, f, Held) /\ Len(q) = msgEntry
      /\ Chain(q, next, msgHead, NoBlock) /\ Chain(f, next, msgFree, NoBlock)
      /\ msgTail = LastOf(q)
  BY <1>1 DEF Chains, LastOf
<1>3. Held' = Held /\ HeldOnce'
  BY HoldSame DEF BlockInv
<1>4. /\ Parts(q, f, Held') /\ Len(q) = msgEntry'
      /\ Chain(q, next', msgHead', NoBlock) /\ Chain(f, next', msgFree', NoBlock)
      /\ msgTail' = LastOf(q)
  BY <1>2, <1>3
<1>5. /\ next' \in [MsgBlock -> MsgBlock \union {NoBlock}]
      /\ msg' \in [Thread -> MsgBlock \union {NoBlock}]
  BY DEF BlockInv
<1>6. BlockInv' /\ Queued' = q
  BY <1>3, <1>4, <1>5, NextBlocks
<1> QED BY <1>1, <1>6

(* rt_mq_init chains all the blocks as free ones.                          *)
LEMMA InitBlocks == MqInit => BlockInv
<1> SUFFICES ASSUME MqInit PROVE BlockInv
  OBVIOUS
<1> DEFINE n == Cardinality(MsgBlock)
           laid == CHOOSE q \in [1 .. n -> MsgBlock] : NoDuplicates(q)
<1>1. n \in Nat /\ n > 0
  BY BlockConstants
<1>2. laid \in [1 .. n -> MsgBlock] /\ NoDuplicates(laid)
  <2>1. ExistsBijection(1 .. n, MsgBlock)
    BY MsgQueueAssumption, FS_CardinalityType
  <2>2. PICK f \in Bijection(1 .. n, MsgBlock) : TRUE
    BY <2>1 DEF ExistsBijection
  <2>3. f \in [1 .. n -> MsgBlock] /\ \A i, j \in 1 .. n : f[i] = f[j] => i = j
    BY <2>2 DEF Bijection, Injection, IsInjective
  <2>4. NoDuplicates(f)
    <3>1. Len(f) = n
      BY <1>1, <2>3
    <3> QED BY <2>3, <3>1 DEF NoDuplicates
  <2> QED BY <2>3, <2>4
<1> HIDE DEF laid
<1>3. PICK f \in Seq(MsgBlock) : f = laid /\ Len(f) = n /\ NoDuplicates(f)
  BY <1>1, <1>2
<1>4. /\ next = Chained(f) /\ msgFree = f[1] /\ msgHead = NoBlock /\ msgTail = NoBlock
      /\ msgEntry = 0 /\ msg = [t \in Thread |-> NoBlock] /\ pc = [t \in Thread |-> "run"]
  BY <1>3 DEF MqInit, ThreadInit, laid
<1>5. \A i, j \in 1 .. n : f[i] = f[j] => i = j
  BY <1>3 DEF NoDuplicates
<1>6. \A i \in 1 .. n : next[f[i]] = IF i = n THEN NoBlock ELSE f[i + 1]
  <2> TAKE i \in 1 .. n
  <2>1. f[i] \in MsgBlock
    BY <1>3
  <2>2. CASE i = n
    <3>1. ~ \E j \in 1 .. n - 1 : f[j] = f[i]
      BY <1>1, <1>5, <2>2
    <3> QED BY <1>3, <1>4, <2>1, <2>2, <3>1 DEF Chained
  <2>3. CASE i # n
    <3>1. i \in 1 .. n - 1 /\ \A j \in 1 .. n - 1 : f[j] = f[i] <=> j = i
      BY <1>1, <1>5, <2>3
    <3>2. (CHOOSE j \in 1 .. n - 1 : f[j] = f[i]) = i
      BY <3>1
    <3> QED BY <1>3, <1>4, <2>1, <2>3, <3>1, <3>2 DEF Chained
  <2> QED BY <2>2, <2>3
<1>7. \A b \in MsgBlock : Occurs(f, b)
  BY <1>3, MsgQueueAssumption, NoLongerThanSet
<1>8. f # <<>>
  BY <1>1, <1>3
<1>9. Copying = {}
  BY <1>4 DEF Copying
<1>10. PICK e : e = <<>>
  OBVIOUS
<1>11. e \in Seq(MsgBlock) /\ NoDuplicates(e) /\ Len(e) = 0 /\ \A x : ~ Occurs(e, x)
  BY <1>10, EmptyFacts
<1>12. Held = {} /\ HeldOnce
  BY <1>9 DEF Held, HeldOnce
<1>13. Parts(e, f, Held)
  BY <1>3, <1>7, <1>11, <1>12 DEF Parts
<1>14. Chain(f, next, msgFree, NoBlock)
  BY <1>3, <1>4, <1>6, <1>8 DEF Chain
<1>15. Chain(e, next, msgHead, NoBlock) /\ msgTail = LastOf(e) /\ Len(e) = msgEntry
  BY <1>4, <1>10, <1>11 DEF Chain, LastOf
<1>16. Chains(e, f)
  BY <1>13, <1>14, <1>15 DEF Chains, LastOf
<1>17. next \in [MsgBlock -> MsgBlock \union {NoBlock}]
  <2>1. ASSUME NEW b \in MsgBlock
        PROVE  next[b] \in MsgBlock \union {NoBlock}
    <3>1. PICK i \in 1 .. n : f[i] = b
      BY <1>3, <1>7 DEF Occurs
    <3>2. i # n => f[i + 1] \in MsgBlock
      BY <1>1, <1>3
    <3> QED BY <1>6, <3>1, <3>2
  <2> QED BY <1>4, <2>1 DEF Chained
<1>18. msg \in [Thread -> MsgBlock \union {NoBlock}] /\ pc \in [Thread -> MqPlaces]
  BY <1>4 DEF MqPlaces
<1> QED BY <1>12, <1>16, <1>17, <1>18 DEF BlockInv
----------------------------------------------------------------------------
(* The two wait lists.  A side is a list, the places its threads wait at,  *)
(* and how many messages or free blocks there are for them; as long as     *)
(* somebody waits, as many threads are on their way.                       *)
Side(q, S, n) == WaitsAt(q, S) /\ (q # <<>> => n <= Cardinality(Coming(S)))

NextSide(r, S, m) ==
  /\ r \in Seq(Thread) /\ NoDuplicates(r)
  /\ \A t \in Thread : Occurs(r, t) <=> stat'[t] = "suspend" /\ pc'[t] \in S
  /\ r # <<>> => m <= Cardinality(Coming(S)')

(* The threads of the places S stay as they are.                           *)
StillAt(S) ==
  /\ \A t \in Thread : pc'[t] \in S <=> pc[t] \in S
  /\ \A t \in Thread : pc[t] \in S => stat'[t] = stat[t] /\ error'[t] = error[t]

LEMMA SideStill ==
  ASSUME NEW q, NEW S, NEW n, Side(q, S, n), StillAt(S), NEW m, m = n
  PROVE  NextSide(q, S, m)
<1>1. \A t \in Thread : Comes(t, S)' <=> Comes(t, S)
  BY DEF Comes, StillAt
<1>2. Coming(S)' = Coming(S)
  BY <1>1, SameComing
<1> QED BY <1>2 DEF Side, WaitsAt, NextSide, StillAt

LEMMA SideLess ==
  ASSUME NEW q, NEW S, NEW n \in Int, Side(q, S, n), StillAt(S), NEW m \in Int, m <= n
  PROVE  NextSide(q, S, m)
<1>1. \A t \in Thread : Comes(t, S)' <=> Comes(t, S)
  BY DEF Comes, StillAt
<1>2. Coming(S)' = Coming(S) /\ Cardinality(Coming(S)) \in Nat
  BY <1>1, SameComing, ComingFinite
<1> QED BY <1>2 DEF Side, WaitsAt, NextSide, StillAt

(* A thread that is READY goes on to a place outside; if it was on its way *)
(* for something, there is one less now, or there is nothing.              *)
LEMMA SideLeft ==
  ASSUME NEW q, NEW S, NEW n \in Int, Side(q, S, n), NEW m \in Int,
         NEW t \in Thread, stat[t] = "ready", UNCHANGED stat, pc'[t] \notin S,
         \A u \in Thread : u # t => pc'[u] = pc[u] /\ error'[u] = error[u],
         \/ m <= 0
         \/ m <= n - 1
         \/ m <= n /\ ~ Comes(t, S)
  PROVE  NextSide(q, S, m)
<1>1. /\ q \in Seq(Thread) /\ NoDuplicates(q)
      /\ \A u \in Thread : Occurs(q, u) <=> stat'[u] = "suspend" /\ pc'[u] \in S
  BY DEF Side, WaitsAt
<1>2. ~ Comes(t, S)' /\ \A u \in Thread : u # t => (Comes(u, S)' <=> Comes(u, S))
  BY DEF Comes
<1>3. Cardinality(Coming(S)) \in Nat /\ Cardinality(Coming(S)') \in Nat
  BY ComingFinite, ComingFiniteNext
<1>4. CASE Comes(t, S)
  <2>1. Cardinality(Coming(S)') = Cardinality(Coming(S)) - 1
    BY <1>2, <1>4, OneLessComing
  <2> QED BY <1>1, <1>3, <1>4, <2>1 DEF Side, NextSide
<1>5. CASE ~ Comes(t, S)
  <2>1. Coming(S)' = Coming(S)
    BY <1>2, <1>5, SameComing
  <2> QED BY <1>1, <1>3, <2>1 DEF Side, NextSide
<1> QED BY <1>4, <1>5

(* A thread joins the list: there is nothing for it.                       *)
LEMMA SideJoined ==
  ASSUME NEW q, NEW S, NEW n, Side(q, S, n), NEW m \in Int, m <= 0, prio \in [Thread -> Nat],
         NEW t \in Thread, ~ Occurs(q, t), stat'[t] = "suspend", pc'[t] \in S,
         \A u \in Thread : u # t => pc'[u] = pc[u] /\ stat'[u] = stat[u]
  PROVE  NextSide(Enqueued(q, t), S, m)
<1>1. /\ q \in Seq(Thread) /\ NoDuplicates(q)
      /\ \A u \in Thread : Occurs(q, u) <=> stat[u] = "suspend" /\ pc[u] \in S
  BY DEF Side, WaitsAt
<1>2. PICK r : r = Enqueued(q, t)
  OBVIOUS
<1>3. /\ r \in Seq(Thread) /\ NoDuplicates(r)
      /\ \A x : Occurs(r, x) <=> x = t \/ Occurs(q, x)
  BY <1>1, <1>2, EnqueuedFacts
<1>4. \A u \in Thread : Occurs(r, u) <=> stat'[u] = "suspend" /\ pc'[u] \in S
  BY <1>1, <1>3
<1> QED BY <1>2, <1>3, <1>4, ComingFiniteNext DEF NextSide

(* Something comes for the list, and its first thread is woken for it.     *)
LEMMA SideWoken ==
  ASSUME NEW places, NEW entering, ThreadTypeOK(places), Coherent(entering),
         NEW q, NEW S, NEW n \in Int, Side(q, S, n), NEW r, WakeOne(q, r),
         UNCHANGED error, \A t \in Thread : pc'[t] \in S <=> pc[t] \in S,
         NEW m \in Int, m <= n + 1
  PROVE  NextSide(r, S, m)
<1>1. WaitsAt(q, S) /\ (q # <<>> => n <= Cardinality(Coming(S)))
  BY DEF Side
<1>2. /\ r \in Seq(Thread) /\ NoDuplicates(r)
      /\ \A t \in Thread : Occurs(r, t) <=> stat'[t] = "suspend" /\ pc'[t] \in S
      /\ Cardinality(Coming(S)')
           = IF q # <<>> THEN Cardinality(Coming(S)) + 1 ELSE Cardinality(Coming(S))
  BY <1>1, WakeOneFacts
<1>3. r # <<>> => q # <<>>
  BY DEF WakeOne
<1> QED BY <1>1, <1>2, <1>3, ComingFinite DEF NextSide

(* One thread leaves the list with an error.                               *)
LEMMA SideShrinks ==
  ASSUME NEW q, NEW S, NEW n, Side(q, S, n), NEW m, m = n,
         NEW u \in Thread, stat[u] = "suspend", stat'[u] = "ready", error'[u] # "RT_EOK",
         \A t \in Thread : t # u => stat'[t] = stat[t] /\ error'[t] = error[t],
         \A t \in Thread : pc'[t] \in S <=> pc[t] \in S,
         NEW r \in Seq(Thread), NoDuplicates(r),
         \A x : Occurs(r, x) <=> Occurs(q, x) /\ x # u
  PROVE  NextSide(r, S, m)
<1>1. \A t \in Thread : Comes(t, S)' <=> Comes(t, S)
  BY DEF Comes
<1>2. Coming(S)' = Coming(S)
  BY <1>1, SameComing
<1>3. \A t \in Thread : Occurs(r, t) <=> stat'[t] = "suspend" /\ pc'[t] \in S
  BY DEF Side, WaitsAt
<1>4. r # <<>> => q # <<>>
  BY EmptyFacts DEF Side, WaitsAt
<1> QED BY <1>2, <1>3, <1>4 DEF Side, NextSide
----------------------------------------------------------------------------
MqEntering == {"mq_send_wait", "mq_recv_wait"}
MqReceiving == {"mq_recv_wait", "mq_recv_woken"}
MqSending == {"mq_send_wait", "mq_send_woken"}

MqThreads == ThreadTypeOK(MqPlaces) /\ Coherent(MqEntering)

MqLocals ==
  /\ text \in [MsgBlock -> Message \union {NoMessage}]
  /\ mqAlive \in BOOLEAN
  /\ mqTimeout \in [Thread -> MqWaits]
  /\ mqText \in [Thread -> Message \union {NoMessage}]
  /\ mqGot \in [Thread \union {MqIsr} -> Message \union {NoMessage}]
  /\ \A t \in Thread :
       pc[t] \in {"mq_send_wait", "mq_send_woken", "mq_copy_in", "mq_copy_urgent"}
         => mqText[t] \in Message

MqSides == Side(mqReceivers, MqReceiving, msgEntry) /\ Side(mqSenders, MqSending, Spare)

NextSides == /\ NextSide(mqReceivers', MqReceiving, msgEntry')
             /\ NextSide(mqSenders', MqSending, Spare')

MqInv == MqThreads /\ MqLocals /\ MqSides

LEMMA SidesNext == NextSides => MqSides'
BY DEF NextSides, NextSide, MqSides, Side, WaitsAt

(* What the blocks give the two sides to count.                            *)
LEMMA Amounts ==
  ASSUME BlockInv
  PROVE  /\ msgEntry \in Nat /\ Spare \in Nat /\ Spare = Len(Free)
         /\ msgFree = NoBlock <=> Spare = 0
         /\ Cardinality(Copying) \in Nat /\ Cardinality(MsgBlock) \in Nat
<1>1. PICK f : Chains(Queued, f) /\ Free = f
  BY ChainsNow
<1>2. /\ Len(Queued) = msgEntry /\ Len(f) \in Nat /\ Len(Queued) \in Nat
      /\ Len(Queued) + Len(f) + Cardinality(Copying) = Cardinality(MsgBlock)
      /\ Cardinality(Copying) \in Nat /\ Cardinality(MsgBlock) \in Nat
  BY <1>1, SizesAddUp, BlockConstants DEF Chains, BlockInv
<1>3. Spare = Len(f)
  BY <1>2 DEF Spare
<1>4. msgFree = NoBlock <=> Len(f) = 0
  <2>1. f \in Seq(MsgBlock)
    BY <1>1 DEF Chains, Parts
  <2>2. f = <<>> <=> Len(f) = 0
    BY <2>1
  <2> QED BY <1>1, <2>2, BlockInvMeans
<1> QED BY <1>1, <1>2, <1>3, <1>4

LEMMA MqInvMeans ==
  ASSUME BlockInv, MqInv
  PROVE  MqTypeOK /\ MqNoLostWakeup
<1>1. \A S : MqOnTheirWay(S) = Coming(S)
  BY DEF MqOnTheirWay, Coming, Comes
<1>2. MqNoLostWakeup
  BY <1>1, Amounts DEF MqInv, MqSides, Side, WaitsAt, MqNoLostWakeup, MqReceiving, MqSending
<1>3. MqTypeOK
  BY BlockInvMeans DEF BlockInv, MqInv, MqThreads, MqLocals, MqSides, Side, WaitsAt, MqTypeOK
<1> QED BY <1>2, <1>3

LEMMA MqCaller ==
  ASSUME MqInv, NEW t \in Thread, cur = t, pc[t] \notin MqEntering
  PROVE  stat[t] = "ready" /\ ~ Occurs(mqReceivers, t) /\ ~ Occurs(mqSenders, t)
BY DEF MqInv, MqThreads, Coherent, MqSides, Side, WaitsAt

(* A step of the running thread that moves no other.                       *)
LEMMA MqRunner ==
  ASSUME MqInv, BlockInv, NEW t \in Thread, cur = t, pc[t] \notin MqEntering,
         NEW to \in MqPlaces \ (MqReceiving \union MqSending), Goto(t, to),
         UNCHANGED <<stat, prio, cur, armed, mqReceivers, mqSenders>>,
         error' \in [Thread -> Errors], \A u \in Thread : u # t => error'[u] = error[u],
         msgEntry' \in Int, Spare' \in Int,
         \/ msgEntry' <= 0
         \/ msgEntry' <= msgEntry - 1
         \/ msgEntry' <= msgEntry /\ ~ Comes(t, MqReceiving),
         \/ Spare' <= 0
         \/ Spare' <= Spare - 1
         \/ Spare' <= Spare /\ ~ Comes(t, MqSending)
  PROVE  MqThreads' /\ NextSides
<1>1. /\ ThreadTypeOK(MqPlaces)' /\ Coherent(MqEntering)'
      /\ stat[t] = "ready"
      /\ pc'[t] = to /\ \A u \in Thread : u # t => pc'[u] = pc[u]
  BY RunnerFacts DEF MqInv, MqThreads
<1>2. msgEntry \in Int /\ Spare \in Int
  BY Amounts
<1>3. Side(mqReceivers, MqReceiving, msgEntry) /\ Side(mqSenders, MqSending, Spare)
  BY DEF MqInv, MqSides
<1>4. NextSide(mqReceivers, MqReceiving, msgEntry')
  BY <1>1, <1>2, <1>3, SideLeft
<1>5. NextSide(mqSenders, MqSending, Spare')
  BY <1>1, <1>2, <1>3, SideLeft
<1> QED BY <1>1, <1>4, <1>5 DEF MqThreads, NextSides

(* A step that wakes the first thread of one of the lists.                 *)
LEMMA MqWakes ==
  ASSUME MqThreads, NEW q, NEW S, WaitsAt(q, S), NEW r, WakeOne(q, r), UNCHANGED <<prio, error>>,
         pc' \in [Thread -> MqPlaces],
         \A t \in Thread : (pc'[t] \in S <=> pc[t] \in S)
                           /\ (pc[t] \in MqEntering => pc'[t] \in MqEntering),
         Dispatch \/ cur' = cur,
         NEW other, S \intersect other = {}, \A t \in Thread : pc'[t] \in other <=> pc[t] \in other
  PROVE  MqThreads' /\ StillAt(other)
<1>1. /\ stat' \in [Thread -> {"ready", "suspend"}]
      /\ armed' \subseteq Thread /\ \A t \in armed' : stat'[t] = "suspend"
      /\ \A t \in Thread : stat'[t] # stat[t] => pc[t] \in S
      /\ \A t \in Thread : stat[t] = "ready" => stat'[t] = "ready"
  BY WakeOneFacts DEF MqThreads
<1>2. StillAt(other)
  BY <1>1 DEF StillAt
<1>3. cur' \in Thread \union {Idle}
  BY DispatchFacts DEF MqThreads, ThreadTypeOK
<1>4. ThreadTypeOK(MqPlaces)'
  BY <1>1, <1>3 DEF MqThreads, ThreadTypeOK
<1>5. \A t \in Thread : stat'[t] = "suspend" => error'[t] = "RT_EOK"
  BY <1>1 DEF MqThreads, Coherent, ThreadTypeOK
<1>6. cur' \in Thread /\ pc'[cur'] \notin MqEntering => stat'[cur'] = "ready"
  <2>1. CASE Dispatch
    BY <2>1, DispatchFacts
  <2>2. CASE cur' = cur
    BY <1>1, <2>2 DEF MqThreads, Coherent
  <2> QED BY <2>1, <2>2
<1> QED BY <1>1, <1>2, <1>4, <1>5, <1>6 DEF MqThreads, Coherent
----------------------------------------------------------------------------
(* Each action keeps the threads and the two sides.                        *)
StepOK == BlockInv' /\ MqInv'

LEMMA MqTakeStep ==
  ASSUME MqInv, BlockInv, NEW t \in Thread, cur = t, NEW v \in Message,
         pc[t] \in {"run", "mq_send_woken"}, NEW to \in {"mq_copy_in", "mq_copy_urgent"},
         TakeFreeBlock(msgFree), msg' = [msg EXCEPT ![t] = msgFree],
         mqText' = [mqText EXCEPT ![t] = v], Goto(t, to),
         UNCHANGED <<stat, prio, cur, armed, error, next, text, msgHead, msgTail, msgEntry,
                     mqReceivers, mqSenders, mqAlive, mqTimeout, mqGot>>
  PROVE  StepOK
<1>1. /\ pc[t] \notin CopyPlaces /\ to \in CopyPlaces /\ pc[t] \notin MqEntering
      /\ to \in MqPlaces \ (MqReceiving \union MqSending) /\ ~ Comes(t, MqReceiving)
  BY DEF CopyPlaces, MqEntering, MqPlaces, MqReceiving, MqSending, Comes
<1>2. BlockInv'
  BY <1>1, TakeFreeStep
<1>3. Cardinality(Copying') = Cardinality(Copying) + 1
  BY <1>1, CopyStarts DEF BlockInv
<1>4. msgEntry' = msgEntry /\ Spare' = Spare - 1 /\ msgEntry \in Nat /\ Spare \in Nat
  BY <1>3, Amounts DEF Spare
<1>5. error' \in [Thread -> Errors] /\ \A u \in Thread : u # t => error'[u] = error[u]
  BY DEF MqInv, MqThreads, ThreadTypeOK
<1>6. MqThreads' /\ NextSides
  BY <1>1, <1>4, <1>5, MqRunner
<1>7. MqLocals'
  BY DEF MqInv, MqThreads, ThreadTypeOK, MqLocals, Goto
<1> QED BY <1>2, <1>6, <1>7, SidesNext DEF StepOK, MqInv

LEMMA MqSendBodyStep ==
  ASSUME MqInv, BlockInv, NEW t \in Thread, cur = t, NEW v \in Message, NEW w \in MqWaits,
         pc[t] = "run" \/ (pc[t] = "mq_send_woken" /\ error[t] = "RT_EOK"), MqSendBody(t, v, w)
  PROVE  StepOK
<1>1. CASE MqSendTake(t, v)
  BY <1>1, MqTakeStep DEF MqSendTake
<1>2. CASE MqSendFull(t, w)
  <2>1. /\ Goto(t, "run") /\ msgFree = NoBlock /\ UNCHANGED <<stat, prio, cur, armed>>
        /\ UNCHANGED mqVars
    BY <1>2 DEF MqSendFull
  <2>2. /\ pc[t] \notin CopyPlaces /\ "run" \in MqPlaces \ CopyPlaces /\ pc[t] \notin MqEntering
        /\ "run" \in MqPlaces \ (MqReceiving \union MqSending) /\ ~ Comes(t, MqReceiving)
    BY DEF CopyPlaces, MqEntering, MqPlaces, MqReceiving, MqSending, Comes
  <2>3. pc' \in [Thread -> MqPlaces] /\ Copying' = Copying
    BY <2>1, <2>2, CopySame DEF BlockInv
  <2>4. BlockInv'
    BY <2>1, <2>3, SameBlocks DEF mqVars, chains
  <2>5. msgEntry' = msgEntry /\ Spare' = 0 /\ msgEntry \in Nat
    BY <2>1, <2>3, Amounts DEF mqVars, chains, Spare
  <2>6. error' \in [Thread -> Errors] /\ \A u \in Thread : u # t => error'[u] = error[u]
    BY <1>2 DEF MqSendFull, MqInv, MqThreads, ThreadTypeOK, Errors
  <2>7. MqThreads' /\ NextSides
    BY <2>1, <2>2, <2>5, <2>6, MqRunner DEF mqVars
  <2>8. MqLocals'
    BY <2>1 DEF MqInv, MqThreads, ThreadTypeOK, MqLocals, Goto, mqVars
  <2> QED BY <2>4, <2>7, <2>8, SidesNext DEF StepOK, MqInv
<1>3. CASE MqSendBlock(t, v, w)
  <2>1. /\ Block(t, w = "some", "mq_send_wait") /\ UNCHANGED <<prio, cur>>
        /\ mqSenders' = Enqueued(mqSenders, t) /\ UNCHANGED <<chains, mqReceivers, msg>>
        /\ msgFree = NoBlock
    BY <1>3 DEF MqSendBlock
  <2>2. PICK timed \in BOOLEAN, to \in MqPlaces \intersect MqEntering :
          Block(t, timed, to) /\ to = "mq_send_wait"
    BY <2>1 DEF MqPlaces, MqEntering
  <2>3. pc[t] \notin MqEntering /\ stat[t] = "ready" /\ ~ Occurs(mqSenders, t)
    BY MqCaller DEF MqEntering
  <2>4. /\ ThreadTypeOK(MqPlaces)' /\ Coherent(MqEntering)'
        /\ stat'[t] = "suspend" /\ pc'[t] = "mq_send_wait"
        /\ \A u \in Thread : u # t =>
             pc'[u] = pc[u] /\ stat'[u] = stat[u] /\ error'[u] = error[u]
    BY <2>1, <2>2, <2>3, BlockFacts DEF MqInv, MqThreads
  <2>5. pc' \in [Thread -> MqPlaces] /\ Copying' = Copying
    BY <2>4 DEF ThreadTypeOK, Copying
  <2>6. BlockInv'
    BY <2>1, <2>5, SameBlocks DEF chains
  <2>7. msgEntry' = msgEntry /\ Spare' = 0
    BY <2>1, <2>5, Amounts DEF chains, Spare
  <2>8. Side(mqReceivers, MqReceiving, msgEntry) /\ Side(mqSenders, MqSending, Spare)
        /\ prio \in [Thread -> Nat]
    BY DEF MqInv, MqSides, MqThreads, ThreadTypeOK
  <2>9. StillAt(MqReceiving)
    BY <2>4 DEF StillAt, MqReceiving
  <2>10. NextSide(mqReceivers, MqReceiving, msgEntry')
    BY <2>7, <2>8, <2>9, SideStill
  <2>11. NextSide(Enqueued(mqSenders, t), MqSending, Spare')
    BY <2>3, <2>4, <2>7, <2>8, SideJoined DEF MqSending
  <2>12. MqLocals'
    BY <1>3, <2>4 DEF MqSendBlock, MqInv, MqLocals
  <2> QED BY <2>1, <2>4, <2>6, <2>10, <2>11, <2>12, SidesNext DEF StepOK, MqInv, MqThreads, NextSides
<1> QED BY <1>1, <1>2, <1>3 DEF MqSendBody

(* The second critical section of a send, and a send of a handler.         *)
LEMMA MqLinkStep ==
  ASSUME MqInv, BlockInv, NEW t \in Thread, MqSendLink(t)
  PROVE  StepOK
<1>1. PICK to : to \in {"mq_post", "run"} /\ Goto(t, to)
  BY DEF MqSendLink
<1>2. /\ cur = t /\ pc[t] \in CopyPlaces /\ to \in MqPlaces \ CopyPlaces
      /\ LinkLast(msg[t]) \/ LinkFirst(msg[t])
      /\ UNCHANGED <<prio, cur, error, msgFree, mqSenders, mqAlive, mqTimeout, msg, mqText, mqGot>>
      /\ text' = [text EXCEPT ![msg[t]] = mqText[t]]
      /\ pc[t] \in {"mq_copy_in", "mq_copy_urgent"}
  BY <1>1 DEF MqSendLink, CopyPlaces, MqPlaces
<1>3. BlockInv' /\ msg[t] \in MsgBlock
  BY <1>1, <1>2, LinkStep
<1>4. pc' \in [Thread -> MqPlaces] /\ Cardinality(Copying') = Cardinality(Copying) - 1
  BY <1>1, <1>2, CopyEnds DEF BlockInv
<1>5. msgEntry' = msgEntry + 1
  BY <1>2 DEF LinkLast, LinkFirst
<1>6. Spare' = Spare /\ msgEntry \in Nat /\ Spare \in Nat
  BY <1>4, <1>5, Amounts DEF Spare
<1>7. WakeOne(mqReceivers, mqReceivers')
  BY DEF MqSendLink, WakeReceiver, WakeOne
<1>8. Side(mqReceivers, MqReceiving, msgEntry) /\ Side(mqSenders, MqSending, Spare)
  BY DEF MqInv, MqSides
<1>9. /\ \A u \in Thread : pc'[u] \in MqReceiving <=> pc[u] \in MqReceiving
      /\ \A u \in Thread : pc'[u] \in MqSending <=> pc[u] \in MqSending
      /\ \A u \in Thread : pc[u] \in MqEntering => pc'[u] \in MqEntering
  BY <1>1, <1>2 DEF Goto, MqReceiving, MqSending, MqEntering, MqInv, MqThreads, ThreadTypeOK, CopyPlaces
<1>10. MqThreads' /\ StillAt(MqSending)
  <2>1. MqReceiving \intersect MqSending = {}
    BY DEF MqReceiving, MqSending
  <2> QED BY <1>2, <1>4, <1>7, <1>8, <1>9, <2>1, MqWakes DEF MqInv, Side
<1>11. NextSide(mqReceivers', MqReceiving, msgEntry')
  BY <1>2, <1>5, <1>6, <1>7, <1>8, <1>9, SideWoken DEF MqInv, MqThreads
<1>12. NextSide(mqSenders, MqSending, Spare')
  BY <1>6, <1>8, <1>10, SideStill
<1>13. MqLocals'
  <2>1. mqText[t] \in Message
    BY <1>2 DEF MqInv, MqLocals
  <2> QED BY <1>1, <1>2, <1>3, <2>1 DEF MqInv, MqThreads, ThreadTypeOK, MqLocals, Goto
<1> QED BY <1>2, <1>3, <1>10, <1>11, <1>12, <1>13, SidesNext DEF StepOK, MqInv, NextSides

LEMMA MqIsrSendStep ==
  ASSUME MqInv, BlockInv, NEW v \in Message, MqSendFromIsr(v)
  PROVE  StepOK
<1>1. /\ TakeFreeBlock(msgFree) /\ (LinkLast(msgFree) \/ LinkFirst(msgFree))
      /\ UNCHANGED <<prio, error, pc, mqSenders, mqAlive, mqTimeout, msg, mqText, mqGot>>
      /\ text' = [text EXCEPT ![msgFree] = v]
      /\ Dispatch \/ cur' = cur
  BY DEF MqSendFromIsr
<1>2. BlockInv' /\ msgFree \in MsgBlock
  BY <1>1, IsrSendBlocks
<1>3. Copying' = Copying /\ pc' \in [Thread -> MqPlaces]
  BY <1>1 DEF Copying, BlockInv
<1>4. msgEntry' = msgEntry + 1
  BY <1>1 DEF LinkLast, LinkFirst
<1>5. Spare' = Spare - 1 /\ msgEntry \in Nat /\ Spare \in Nat
  BY <1>3, <1>4, Amounts DEF Spare
<1>6. WakeOne(mqReceivers, mqReceivers')
  BY DEF MqSendFromIsr, WakeReceiver, WakeOne
<1>7. Side(mqReceivers, MqReceiving, msgEntry) /\ Side(mqSenders, MqSending, Spare)
  BY DEF MqInv, MqSides
<1>8. MqThreads' /\ StillAt(MqSending)
  <2>1. MqReceiving \intersect MqSending = {}
    BY DEF MqReceiving, MqSending
  <2> QED BY <1>1, <1>3, <1>6, <1>7, <2>1, MqWakes DEF MqInv, Side
<1>9. NextSide(mqReceivers', MqReceiving, msgEntry')
  BY <1>1, <1>4, <1>5, <1>6, <1>7, SideWoken DEF MqInv, MqThreads
<1>10. NextSide(mqSenders, MqSending, Spare')
  <2>1. Spare' \in Int /\ Spare \in Int /\ Spare' <= Spare
    BY <1>5
  <2> QED BY <1>7, <1>8, <2>1, SideLess
<1>11. MqLocals'
  BY <1>1, <1>2 DEF MqInv, MqLocals
<1> QED BY <1>1, <1>2, <1>8, <1>9, <1>10, <1>11, SidesNext DEF StepOK, MqInv, NextSides

(* A receive: takes the first message, or finds none and returns or waits. *)
LEMMA MqRecvBodyStep ==
  ASSUME MqInv, BlockInv, NEW t \in Thread, cur = t, NEW w \in MqWaits,
         pc[t] = "run" \/ (pc[t] = "mq_recv_woken" /\ error[t] = "RT_EOK"), MqRecvBody(t, w)
  PROVE  StepOK
<1>0. /\ pc[t] \notin CopyPlaces /\ pc[t] \notin MqEntering /\ ~ Comes(t, MqSending)
      /\ "run" \in MqPlaces \ CopyPlaces
      /\ "run" \in MqPlaces \ (MqReceiving \union MqSending)
      /\ "mq_copy_out" \in CopyPlaces
      /\ "mq_copy_out" \in MqPlaces \ (MqReceiving \union MqSending)
  BY DEF CopyPlaces, MqEntering, MqPlaces, MqReceiving, MqSending, Comes
<1>1. CASE MqRecvTake(t)
  <2>1. /\ Goto(t, "mq_copy_out") /\ TakeFirst(msgHead) /\ msg' = [msg EXCEPT ![t] = msgHead]
        /\ UNCHANGED <<stat, prio, cur, armed, error, next, text, msgFree, mqReceivers, mqSenders,
                       mqAlive, mqTimeout, mqText, mqGot>>
    BY <1>1 DEF MqRecvTake
  <2>2. BlockInv'
    BY <1>0, <2>1, TakeFirstStep
  <2>3. Cardinality(Copying') = Cardinality(Copying) + 1
    BY <1>0, <2>1, CopyStarts DEF BlockInv
  <2>4. msgEntry' = msgEntry - 1 /\ Spare' = Spare /\ msgEntry \in Nat /\ Spare \in Nat
    BY <2>1, <2>3, Amounts DEF Spare, TakeFirst
  <2>5. error' \in [Thread -> Errors] /\ \A u \in Thread : u # t => error'[u] = error[u]
    BY <2>1 DEF MqInv, MqThreads, ThreadTypeOK
  <2>6. MqThreads' /\ NextSides
    BY <1>0, <2>1, <2>4, <2>5, MqRunner
  <2>7. MqLocals'
    BY <2>1 DEF MqInv, MqThreads, ThreadTypeOK, MqLocals, Goto
  <2> QED BY <2>2, <2>6, <2>7, SidesNext DEF StepOK, MqInv
<1>2. CASE MqRecvEmpty(t, w)
  <2>1. /\ Goto(t, "run") /\ msgEntry = 0 /\ UNCHANGED <<stat, prio, cur, armed>>
        /\ UNCHANGED mqVars
    BY <1>2 DEF MqRecvEmpty
  <2>2. pc' \in [Thread -> MqPlaces] /\ Copying' = Copying
    BY <1>0, <2>1, CopySame DEF BlockInv
  <2>3. BlockInv'
    BY <2>1, <2>2, SameBlocks DEF mqVars, chains
  <2>4. msgEntry' = 0 /\ Spare' = Spare /\ Spare \in Nat
    BY <2>1, <2>2, Amounts DEF mqVars, chains, Spare
  <2>5. error' \in [Thread -> Errors] /\ \A u \in Thread : u # t => error'[u] = error[u]
    BY <1>2 DEF MqRecvEmpty, MqInv, MqThreads, ThreadTypeOK, Errors
  <2>6. MqThreads' /\ NextSides
    BY <1>0, <2>1, <2>4, <2>5, MqRunner DEF mqVars
  <2>7. MqLocals'
    BY <2>1 DEF MqInv, MqThreads, ThreadTypeOK, MqLocals, Goto, mqVars
  <2> QED BY <2>3, <2>6, <2>7, SidesNext DEF StepOK, MqInv
<1>3. CASE MqRecvBlock(t, w)
  <2>1. /\ Block(t, w = "some", "mq_recv_wait") /\ UNCHANGED <<prio, cur>>
        /\ mqReceivers' = Enqueued(mqReceivers, t) /\ UNCHANGED <<chains, mqSenders, msg>>
        /\ msgEntry = 0
    BY <1>3 DEF MqRecvBlock
  <2>2. PICK timed \in BOOLEAN, to \in MqPlaces \intersect MqEntering :
          Block(t, timed, to) /\ to = "mq_recv_wait"
    BY <2>1 DEF MqPlaces, MqEntering
  <2>3. stat[t] = "ready" /\ ~ Occurs(mqReceivers, t)
    BY <1>0, MqCaller
  <2>4. /\ ThreadTypeOK(MqPlaces)' /\ Coherent(MqEntering)'
        /\ stat'[t] = "suspend" /\ pc'[t] = "mq_recv_wait"
        /\ \A u \in Thread : u # t =>
             pc'[u] = pc[u] /\ stat'[u] = stat[u] /\ error'[u] = error[u]
    BY <1>0, <2>1, <2>2, <2>3, BlockFacts DEF MqInv, MqThreads
  <2>5. pc' \in [Thread -> MqPlaces] /\ Copying' = Copying
    BY <2>4 DEF ThreadTypeOK, Copying
  <2>6. BlockInv'
    BY <2>1, <2>5, SameBlocks DEF chains
  <2>7. msgEntry' = 0 /\ Spare' = Spare /\ Spare \in Nat
    BY <2>1, <2>5, Amounts DEF chains, Spare
  <2>8. Side(mqReceivers, MqReceiving, msgEntry) /\ Side(mqSenders, MqSending, Spare)
        /\ prio \in [Thread -> Nat]
    BY DEF MqInv, MqSides, MqThreads, ThreadTypeOK
  <2>9. StillAt(MqSending)
    BY <2>4 DEF StillAt, MqSending
  <2>10. NextSide(mqSenders, MqSending, Spare')
    BY <2>7, <2>8, <2>9, SideStill
  <2>11. NextSide(Enqueued(mqReceivers, t), MqReceiving, msgEntry')
    BY <2>3, <2>4, <2>7, <2>8, SideJoined DEF MqReceiving
  <2>12. MqLocals'
    BY <1>3, <2>4 DEF MqRecvBlock, MqInv, MqLocals
  <2> QED BY <2>1, <2>4, <2>6, <2>10, <2>11, <2>12, SidesNext DEF StepOK, MqInv, MqThreads, NextSides
<1> QED BY <1>1, <1>2, <1>3 DEF MqRecvBody

LEMMA MqFreeStep ==
  ASSUME MqInv, BlockInv, NEW t \in Thread, MqRecvFree(t)
  PROVE  StepOK
<1>1. PICK to : to \in {"mq_post", "run"} /\ Goto(t, to)
  BY DEF MqRecvFree
<1>2. /\ cur = t /\ pc[t] = "mq_copy_out" /\ pc[t] \in CopyPlaces /\ to \in MqPlaces \ CopyPlaces
      /\ next' = [next EXCEPT ![msg[t]] = msgFree] /\ msgFree' = msg[t]
      /\ UNCHANGED <<prio, cur, error, text, msgHead, msgTail, msgEntry, mqReceivers, mqAlive,
                     mqTimeout, msg, mqText>>
      /\ mqGot' = [mqGot EXCEPT ![t] = text[msg[t]]]
  BY <1>1 DEF MqRecvFree, At, CopyPlaces, MqPlaces
<1>3. BlockInv'
  BY <1>1, <1>2, FreeBlockStep
<1>4. /\ pc' \in [Thread -> MqPlaces] /\ Cardinality(Copying') = Cardinality(Copying) - 1
      /\ t \in Copying
  BY <1>1, <1>2, CopyEnds DEF BlockInv
<1>5. Spare' = Spare + 1 /\ msgEntry' = msgEntry /\ msgEntry \in Nat /\ Spare \in Nat
  BY <1>2, <1>4, Amounts DEF Spare
<1>6. WakeOne(mqSenders, mqSenders')
  BY DEF MqRecvFree, WakeSender, WakeOne
<1>7. Side(mqReceivers, MqReceiving, msgEntry) /\ Side(mqSenders, MqSending, Spare)
  BY DEF MqInv, MqSides
<1>8. /\ \A u \in Thread : pc'[u] \in MqReceiving <=> pc[u] \in MqReceiving
      /\ \A u \in Thread : pc'[u] \in MqSending <=> pc[u] \in MqSending
      /\ \A u \in Thread : pc[u] \in MqEntering => pc'[u] \in MqEntering
  BY <1>1, <1>2 DEF Goto, MqReceiving, MqSending, MqEntering, MqInv, MqThreads, ThreadTypeOK
<1>9. MqThreads' /\ StillAt(MqReceiving)
  <2>1. MqSending \intersect MqReceiving = {}
    BY DEF MqReceiving, MqSending
  <2> QED BY <1>2, <1>4, <1>6, <1>7, <1>8, <2>1, MqWakes DEF MqInv, Side
<1>10. NextSide(mqSenders', MqSending, Spare')
  BY <1>2, <1>5, <1>6, <1>7, <1>8, SideWoken DEF MqInv, MqThreads
<1>11. NextSide(mqReceivers, MqReceiving, msgEntry')
  BY <1>5, <1>7, <1>9, SideStill
<1>12. MqLocals'
  <2>1. msg[t] \in MsgBlock
    BY <1>4, ChainsNow DEF Chains, Parts, Held
  <2>2. text[msg[t]] \in Message \union {NoMessage}
    BY <2>1 DEF MqInv, MqLocals
  <2> QED BY <1>1, <1>2, <2>2 DEF MqInv, MqThreads, ThreadTypeOK, MqLocals, Goto
<1> QED BY <1>2, <1>3, <1>9, <1>10, <1>11, <1>12, SidesNext DEF StepOK, MqInv, NextSides

LEMMA MqIsrRecvStep ==
  ASSUME MqInv, BlockInv, MqRecvFromIsr
  PROVE  StepOK
<1>1. /\ TakeFirst(msgHead) /\ next' = [next EXCEPT ![msgHead] = msgFree] /\ msgFree' = msgHead
      /\ UNCHANGED <<prio, error, pc, text, mqReceivers, mqAlive, mqTimeout, msg, mqText>>
      /\ mqGot' = [mqGot EXCEPT ![MqIsr] = text[msgHead]]
      /\ Dispatch \/ cur' = cur
  BY DEF MqRecvFromIsr
<1>2. /\ BlockInv' /\ Queued # <<>> /\ msgHead = Head(Queued) /\ Queued \in Seq(MsgBlock)
  BY <1>1, IsrRecvBlocks
<1>3. Copying' = Copying /\ pc' \in [Thread -> MqPlaces]
  BY <1>1 DEF Copying, BlockInv
<1>4. msgEntry' = msgEntry - 1
  BY <1>1 DEF TakeFirst
<1>5. Spare' = Spare + 1 /\ msgEntry \in Nat /\ Spare \in Nat
  BY <1>3, <1>4, Amounts DEF Spare
<1>6. WakeOne(mqSenders, mqSenders')
  BY DEF MqRecvFromIsr, WakeSender, WakeOne
<1>7. Side(mqReceivers, MqReceiving, msgEntry) /\ Side(mqSenders, MqSending, Spare)
  BY DEF MqInv, MqSides
<1>8. MqThreads' /\ StillAt(MqReceiving)
  <2>1. MqSending \intersect MqReceiving = {}
    BY DEF MqReceiving, MqSending
  <2> QED BY <1>1, <1>3, <1>6, <1>7, <2>1, MqWakes DEF MqInv, Side
<1>9. NextSide(mqSenders', MqSending, Spare')
  BY <1>1, <1>5, <1>6, <1>7, SideWoken DEF MqInv, MqThreads
<1>10. NextSide(mqReceivers, MqReceiving, msgEntry')
  <2>1. msgEntry' \in Int /\ msgEntry \in Int /\ msgEntry' <= msgEntry
    BY <1>4, <1>5
  <2> QED BY <1>7, <1>8, <2>1, SideLess
<1>11. MqLocals'
  <2>1. msgHead \in MsgBlock
    BY <1>2
  <2>2. text[msgHead] \in Message \union {NoMessage}
    BY <2>1 DEF MqInv, MqLocals
  <2> QED BY <1>1, <2>2 DEF MqInv, MqLocals
<1> QED BY <1>1, <1>2, <1>8, <1>9, <1>10, <1>11, SidesNext DEF StepOK, MqInv, NextSides

(* A reset sends all waiters away with an error.                           *)
LEMMA MqResetStep ==
  ASSUME MqInv, BlockInv, NEW t \in Thread, MqReset(t)
  PROVE  StepOK
<1>1. /\ cur = t /\ pc[t] = "run" /\ WakeAll(mqReceivers \o mqSenders)
      /\ mqReceivers' = <<>> /\ mqSenders' = <<>>
      /\ Goto(t, "mq_post")
      /\ UNCHANGED <<prio, cur, text, mqAlive, mqTimeout, msg, mqText, mqGot>>
  BY DEF MqReset, Running
<1>2. pc' \in [Thread -> MqPlaces] /\ Copying' = Copying
  BY <1>1, CopySame DEF BlockInv, CopyPlaces, MqPlaces
<1>3. BlockInv'
  BY <1>2, ResetBlocks DEF MqReset
<1>4. /\ mqReceivers \in Seq(Thread) /\ mqSenders \in Seq(Thread)
      /\ \A u \in Thread : Occurs(mqReceivers, u) <=> stat[u] = "suspend" /\ pc[u] \in MqReceiving
      /\ \A u \in Thread : Occurs(mqSenders, u) <=> stat[u] = "suspend" /\ pc[u] \in MqSending
  BY DEF MqInv, MqSides, Side, WaitsAt
<1>5. PICK q : q = mqReceivers \o mqSenders
  OBVIOUS
<1>6. /\ stat' \in [Thread -> {"ready", "suspend"}] /\ error' \in [Thread -> Errors]
      /\ \A u \in Thread :
           /\ stat'[u] = IF Occurs(q, u) THEN "ready" ELSE stat[u]
           /\ error'[u] = IF Occurs(q, u) THEN "RT_ERROR" ELSE error[u]
      /\ armed' \subseteq Thread /\ \A u \in armed' : stat'[u] = "suspend"
  BY <1>1, <1>5, WakeAllFacts DEF MqInv, MqThreads
<1>7. \A u : Occurs(q, u) <=> Occurs(mqReceivers, u) \/ Occurs(mqSenders, u)
  BY <1>4, <1>5, ConcatOccurs
<1>8. pc'[t] = "mq_post" /\ \A u \in Thread : u # t => pc'[u] = pc[u]
  BY <1>1 DEF Goto, MqInv, MqThreads, ThreadTypeOK
<1>9. MqThreads'
  <2>1. ThreadTypeOK(MqPlaces)'
    BY <1>1, <1>2, <1>6 DEF MqInv, MqThreads, ThreadTypeOK
  <2>2. \A u \in Thread : stat'[u] = "suspend" => error'[u] = "RT_EOK"
    BY <1>6 DEF MqInv, MqThreads, Coherent
  <2>3. cur' \in Thread /\ pc'[cur'] \notin MqEntering => stat'[cur'] = "ready"
    BY <1>1, <1>6, <1>8 DEF MqInv, MqThreads, Coherent, MqEntering
  <2> QED BY <1>6, <2>1, <2>2, <2>3 DEF MqThreads, Coherent
<1>10. PICK z : z = <<>>
  OBVIOUS
<1>11. z \in Seq(Thread) /\ NoDuplicates(z) /\ \A x : ~ Occurs(z, x)
  BY <1>10, EmptyFacts
<1>12. \A u \in Thread : pc'[u] \in MqReceiving \/ pc'[u] \in MqSending => stat'[u] # "suspend"
  BY <1>4, <1>6, <1>7, <1>8 DEF MqReceiving, MqSending
<1>13. \A m : NextSide(z, MqReceiving, m) /\ NextSide(z, MqSending, m)
  BY <1>10, <1>11, <1>12 DEF NextSide
<1>14. MqLocals'
  BY <1>1, <1>3, <1>8 DEF MqInv, MqLocals
<1> QED BY <1>1, <1>3, <1>9, <1>10, <1>13, <1>14, SidesNext DEF StepOK, MqInv, NextSides

(* rt_mq_detach wakes one waiter, with an error.                           *)
LEMMA MqDrainStep ==
  ASSUME MqInv, BlockInv, NEW t \in Thread, MqDrainOne(t)
  PROVE  StepOK
<1>1. PICK q, u : /\ q = (IF pc[t] = "mq_drain_recv_one" THEN mqReceivers ELSE mqSenders)
                  /\ u = Head(q)
  OBVIOUS
<1>2. PICK to : /\ to = (IF pc[t] = "mq_drain_recv_one" THEN "mq_drain_recv" ELSE "mq_drain_send")
                /\ Goto(t, to)
  BY DEF MqDrainOne
<1>3. /\ cur = t /\ pc[t] \in {"mq_drain_recv_one", "mq_drain_send_one"} /\ q # <<>> /\ Wake(u)
      /\ error' = [error EXCEPT ![u] = "RT_ERROR"]
      /\ UNCHANGED <<prio, cur, chains, text, mqAlive, mqTimeout, msg, mqText, mqGot>>
  BY <1>1 DEF MqDrainOne
<1>4. /\ Side(mqReceivers, MqReceiving, msgEntry) /\ Side(mqSenders, MqSending, Spare)
      /\ WaitsAt(mqReceivers, MqReceiving) /\ WaitsAt(mqSenders, MqSending)
  BY DEF MqInv, MqSides, Side
<1>5. /\ q \in Seq(Thread) /\ NoDuplicates(q) /\ \A x \in Thread : Occurs(q, x) => stat[x] = "suspend"
  BY <1>1, <1>4 DEF WaitsAt
<1>6. /\ u \in Thread /\ Occurs(q, u)
      /\ stat[u] = "suspend" /\ error[u] = "RT_EOK" /\ stat'[u] = "ready"
      /\ stat' \in [Thread -> {"ready", "suspend"}]
      /\ \A x \in Thread : x # u => stat'[x] = stat[x]
      /\ armed' \subseteq armed /\ \A x \in armed' : stat'[x] = "suspend"
      /\ Tail(q) \in Seq(Thread) /\ NoDuplicates(Tail(q))
      /\ \A x : Occurs(Tail(q), x) <=> Occurs(q, x) /\ x # u
  BY <1>1, <1>3, <1>5, WakeFirstFacts DEF MqInv, MqThreads
<1>7. /\ pc' \in [Thread -> MqPlaces] /\ pc'[t] = to
      /\ \A x \in Thread : x # t => pc'[x] = pc[x]
      /\ to \notin CopyPlaces /\ to \notin MqReceiving /\ to \notin MqSending /\ to \notin MqEntering
      /\ pc[t] \notin CopyPlaces
  BY <1>2, <1>3 DEF MqInv, MqThreads, ThreadTypeOK, Goto, MqPlaces, CopyPlaces, MqReceiving,
                    MqSending, MqEntering
<1>8. /\ error' \in [Thread -> Errors] /\ error'[u] = "RT_ERROR"
      /\ \A x \in Thread : x # u => error'[x] = error[x]
  BY <1>3, <1>6 DEF MqInv, MqThreads, ThreadTypeOK, Errors
<1>9. stat[t] = "ready" /\ u # t
  BY <1>3, <1>6 DEF MqInv, MqThreads, Coherent, MqEntering
<1>10. MqThreads'
  <2>1. ThreadTypeOK(MqPlaces)'
    BY <1>3, <1>6, <1>7, <1>8 DEF MqInv, MqThreads, ThreadTypeOK
  <2>2. Coherent(MqEntering)'
    BY <1>3, <1>6, <1>8, <1>9 DEF MqInv, MqThreads, Coherent
  <2> QED BY <2>1, <2>2 DEF MqThreads
<1>11. Copying' = Copying
  BY <1>7 DEF Copying, CopyPlaces
<1>12. BlockInv'
  BY <1>3, <1>7, <1>11, SameBlocks DEF chains
<1>13. msgEntry' = msgEntry /\ Spare' = Spare
  BY <1>3, <1>11 DEF chains, Spare
<1>14. /\ \A x \in Thread : pc'[x] \in MqReceiving <=> pc[x] \in MqReceiving
       /\ \A x \in Thread : pc'[x] \in MqSending <=> pc[x] \in MqSending
  BY <1>3, <1>7 DEF MqReceiving, MqSending
<1>15. CASE pc[t] = "mq_drain_recv_one"
  <2>1. mqReceivers' = Tail(q) /\ mqSenders' = mqSenders /\ q = mqReceivers
    BY <1>1, <1>15 DEF MqDrainOne
  <2>2. NextSide(Tail(q), MqReceiving, msgEntry')
    BY <1>4, <1>6, <1>8, <1>13, <1>14, <2>1, SideShrinks
  <2>3. pc[u] \in MqReceiving
    BY <1>4, <1>6, <2>1 DEF WaitsAt
  <2>4. StillAt(MqSending)
    BY <1>6, <1>8, <1>14, <2>3 DEF StillAt, MqReceiving, MqSending
  <2>5. NextSide(mqSenders, MqSending, Spare')
    BY <1>4, <1>13, <2>4, SideStill
  <2> QED BY <1>3, <1>7, <1>10, <1>12, <2>1, <2>2, <2>5, SidesNext
          DEF StepOK, MqInv, NextSides, MqLocals, MqSending, CopyPlaces
<1>16. CASE pc[t] # "mq_drain_recv_one"
  <2>1. mqSenders' = Tail(q) /\ mqReceivers' = mqReceivers /\ q = mqSenders
    BY <1>1, <1>16 DEF MqDrainOne
  <2>2. NextSide(Tail(q), MqSending, Spare')
    BY <1>4, <1>6, <1>8, <1>13, <1>14, <2>1, SideShrinks
  <2>3. pc[u] \in MqSending
    BY <1>4, <1>6, <2>1 DEF WaitsAt
  <2>4. StillAt(MqReceiving)
    BY <1>6, <1>8, <1>14, <2>3 DEF StillAt, MqReceiving, MqSending
  <2>5. NextSide(mqReceivers, MqReceiving, msgEntry')
    BY <1>4, <1>13, <2>4, SideStill
  <2> QED BY <1>3, <1>7, <1>10, <1>12, <2>1, <2>2, <2>5, SidesNext
          DEF StepOK, MqInv, NextSides, MqLocals, MqSending, CopyPlaces
<1> QED BY <1>15, <1>16

(* A waiter whose time is over leaves its list with -RT_ETIMEOUT.          *)
LEMMA MqTimeoutStep ==
  ASSUME MqInv, BlockInv, NEW u \in Thread, MqTimeoutOf(u)
  PROVE  StepOK
<1>1. /\ TimeoutOf(u) /\ mqReceivers' = ListRemove(mqReceivers, u)
      /\ mqSenders' = ListRemove(mqSenders, u)
      /\ UNCHANGED <<chains, text, mqAlive, mqTimeout, msg, mqText, mqGot>>
  BY DEF MqTimeoutOf
<1>2. /\ ThreadTypeOK(MqPlaces)' /\ Coherent(MqEntering)' /\ UNCHANGED <<prio, pc>>
      /\ stat[u] = "suspend" /\ stat'[u] = "ready" /\ error'[u] = "RT_ETIMEOUT"
      /\ \A t \in Thread : t # u => stat'[t] = stat[t] /\ error'[t] = error[t]
  BY <1>1, TimeoutFacts DEF MqInv, MqThreads
<1>3. Side(mqReceivers, MqReceiving, msgEntry) /\ Side(mqSenders, MqSending, Spare)
  BY DEF MqInv, MqSides
<1>4. /\ mqReceivers \in Seq(Thread) /\ NoDuplicates(mqReceivers)
      /\ mqSenders \in Seq(Thread) /\ NoDuplicates(mqSenders)
  BY <1>3 DEF Side, WaitsAt
<1>5. /\ mqReceivers' \in Seq(Thread) /\ NoDuplicates(mqReceivers')
      /\ \A x : Occurs(mqReceivers', x) <=> Occurs(mqReceivers, x) /\ x # u
  BY <1>1, <1>4, RemoveFacts
<1>6. /\ mqSenders' \in Seq(Thread) /\ NoDuplicates(mqSenders')
      /\ \A x : Occurs(mqSenders', x) <=> Occurs(mqSenders, x) /\ x # u
  BY <1>1, <1>4, RemoveFacts
<1>7. Copying' = Copying /\ pc' \in [Thread -> MqPlaces]
  BY <1>2 DEF Copying, ThreadTypeOK
<1>8. BlockInv'
  BY <1>1, <1>7, SameBlocks DEF chains
<1>9. msgEntry' = msgEntry /\ Spare' = Spare
  BY <1>1, <1>7 DEF chains, Spare
<1>10. NextSide(mqReceivers', MqReceiving, msgEntry')
  BY <1>2, <1>3, <1>5, <1>9, SideShrinks
<1>11. NextSide(mqSenders', MqSending, Spare')
  BY <1>2, <1>3, <1>6, <1>9, SideShrinks
<1>12. MqLocals'
  BY <1>1, <1>2 DEF MqInv, MqLocals
<1> QED BY <1>2, <1>8, <1>10, <1>11, <1>12, SidesNext DEF StepOK, MqInv, MqThreads, NextSides

(* Steps that move nobody on the lists and no block: rt_schedule(), the    *)
(* end of a time slice.                                                    *)
LEMMA MqQuietStep ==
  ASSUME MqInv, BlockInv, MqThreads', UNCHANGED <<stat, error>>,
         \A t \in Thread : \/ pc'[t] = pc[t]
                           \/ pc[t] = "mq_send_wait" /\ pc'[t] = "mq_send_woken"
                           \/ pc[t] = "mq_recv_wait" /\ pc'[t] = "mq_recv_woken"
                           \/ pc[t] = "mq_post" /\ pc'[t] = "run",
         UNCHANGED mqVars
  PROVE  StepOK
<1>1. StillAt(MqReceiving) /\ StillAt(MqSending)
  BY DEF StillAt, MqReceiving, MqSending
<1>2. Copying' = Copying /\ pc' \in [Thread -> MqPlaces]
  BY DEF Copying, MqThreads, ThreadTypeOK
<1>3. BlockInv'
  BY <1>2, SameBlocks DEF mqVars, chains
<1>4. msgEntry' = msgEntry /\ Spare' = Spare /\ UNCHANGED <<mqReceivers, mqSenders>>
  BY <1>2 DEF mqVars, chains, Spare
<1>5. NextSides
  BY <1>1, <1>4, SideStill DEF MqInv, MqSides, NextSides
<1>6. MqLocals'
  BY DEF MqInv, MqLocals, mqVars
<1> QED BY <1>3, <1>5, <1>6, SidesNext DEF StepOK, MqInv

LEMMA MqScheduleStep ==
  ASSUME MqInv, BlockInv, NEW t \in Thread,
         MqSendSchedule(t) \/ MqRecvSchedule(t) \/ MqPostSchedule(t)
  PROVE  StepOK
<1>1. PICK from, to \in MqPlaces :
        /\ Reschedule(t, from, to)
        /\ <<from, to>> \in {<<"mq_send_wait", "mq_send_woken">>, <<"mq_recv_wait", "mq_recv_woken">>,
                             <<"mq_post", "run">>}
  BY DEF MqSendSchedule, MqRecvSchedule, MqPostSchedule, MqPlaces
<1>2. /\ ThreadTypeOK(MqPlaces)' /\ Coherent(MqEntering)'
      /\ UNCHANGED <<stat, prio, armed, error>>
      /\ pc[t] = from /\ pc'[t] = to /\ \A u \in Thread : u # t => pc'[u] = pc[u]
  BY <1>1, RescheduleFacts DEF MqInv, MqThreads
<1>3. UNCHANGED mqVars
  BY DEF MqSendSchedule, MqRecvSchedule, MqPostSchedule
<1> QED BY <1>1, <1>2, <1>3, MqQuietStep DEF MqThreads

(* Steps of the running thread that touch neither list nor block.          *)
LEMMA MqAloneStep ==
  ASSUME MqInv, BlockInv, NEW t \in Thread, MqFailed(t) \/ MqDetach(t) \/ MqDrainTest(t)
  PROVE  StepOK
<1>1. PICK to \in MqPlaces \ (MqReceiving \union MqSending \union CopyPlaces) : Goto(t, to)
  BY DEF MqFailed, MqDetach, MqDrainTest, MqPlaces, MqReceiving, MqSending, CopyPlaces
<1>2. /\ cur = t
      /\ UNCHANGED <<stat, prio, cur, armed, error, chains, text, mqReceivers, mqSenders,
                     mqTimeout, msg, mqText, mqGot>>
  BY DEF MqFailed, MqDetach, MqDrainTest, mqVars, Running
<1>3. /\ pc[t] \notin MqEntering /\ pc[t] \notin CopyPlaces
      /\ ~ Comes(t, MqReceiving) /\ ~ Comes(t, MqSending)
  BY DEF MqFailed, MqDetach, MqDrainTest, Running, MqEntering, MqReceiving, MqSending, Comes,
         CopyPlaces
<1>4. pc' \in [Thread -> MqPlaces] /\ Copying' = Copying
  BY <1>1, <1>3, CopySame DEF BlockInv
<1>5. BlockInv'
  BY <1>2, <1>4, SameBlocks DEF chains
<1>6. msgEntry' = msgEntry /\ Spare' = Spare /\ msgEntry \in Nat /\ Spare \in Nat
  BY <1>2, <1>4, Amounts DEF chains, Spare
<1>7. error' \in [Thread -> Errors] /\ \A u \in Thread : u # t => error'[u] = error[u]
  BY <1>2 DEF MqInv, MqThreads, ThreadTypeOK
<1>8. MqThreads' /\ NextSides
  BY <1>1, <1>2, <1>3, <1>6, <1>7, MqRunner
<1>9. mqAlive' \in BOOLEAN
  BY DEF MqFailed, MqDetach, MqDrainTest, mqVars, MqInv, MqLocals
<1>10. MqLocals'
  BY <1>1, <1>2, <1>9 DEF MqInv, MqThreads, ThreadTypeOK, MqLocals, Goto, MqSending, CopyPlaces
<1> QED BY <1>5, <1>8, <1>10, SidesNext DEF StepOK, MqInv

LEMMA MqNextStep ==
  ASSUME MqInv, BlockInv, [MqNext]_<<threadVars, mqVars>>
  PROVE  StepOK
<1>1. ASSUME NEW t \in Thread, NEW w \in MqWaits, NEW v \in Message, MqSend(t, v, w)
      PROVE  StepOK
  BY <1>1, MqSendBodyStep DEF MqSend, Running
<1>2. ASSUME NEW t \in Thread, MqSendAgain(t)
      PROVE  StepOK
  <2>1. PICK w \in MqRecomputed(mqTimeout[t]) : MqSendBody(t, mqText[t], w)
    BY <1>2 DEF MqSendAgain
  <2>2. w \in MqWaits /\ mqText[t] \in Message
    BY <1>2 DEF MqInv, MqLocals, MqRecomputed, MqWaits, MqSendAgain, At
  <2> QED BY <1>2, <2>1, <2>2, MqSendBodyStep DEF MqSendAgain, At
<1>3. ASSUME NEW t \in Thread, NEW v \in Message, MqUrgentTake(t, v)
      PROVE  StepOK
  BY <1>3, MqTakeStep DEF MqUrgentTake, Running
<1>4. ASSUME NEW t \in Thread, NEW w \in MqWaits, MqRecv(t, w)
      PROVE  StepOK
  BY <1>4, MqRecvBodyStep DEF MqRecv, Running
<1>5. ASSUME NEW t \in Thread, MqRecvAgain(t)
      PROVE  StepOK
  <2>1. PICK w \in MqRecomputed(mqTimeout[t]) : MqRecvBody(t, w)
    BY <1>5 DEF MqRecvAgain
  <2>2. w \in MqWaits
    BY DEF MqInv, MqLocals, MqRecomputed, MqWaits
  <2> QED BY <1>5, <2>1, <2>2, MqRecvBodyStep DEF MqRecvAgain, At
<1>6. CASE SliceEnd /\ UNCHANGED mqVars
  <2>1. MqThreads' /\ UNCHANGED <<stat, prio, armed, error, pc>>
    BY <1>6, SliceFacts DEF MqInv, MqThreads
  <2> QED BY <1>6, <2>1, MqQuietStep
<1>7. CASE UNCHANGED <<threadVars, mqVars>>
  <2>1. UNCHANGED <<stat, prio, cur, armed, error, pc>> /\ UNCHANGED mqVars
    BY <1>7 DEF threadVars
  <2>2. MqThreads'
    BY <2>1 DEF MqInv, MqThreads, ThreadTypeOK, Coherent
  <2> QED BY <2>1, <2>2, MqQuietStep
<1>8. ASSUME NEW t \in Thread,
             \/ MqSendSchedule(t) \/ MqSendAgain(t) \/ MqSendLink(t)
             \/ MqRecvSchedule(t) \/ MqRecvAgain(t) \/ MqRecvFree(t)
             \/ MqFailed(t) \/ MqPostSchedule(t) \/ MqDrainTest(t) \/ MqDrainOne(t)
             \/ MqTimeoutOf(t) \/ MqReset(t) \/ MqDetach(t)
      PROVE  StepOK
  BY <1>2, <1>5, <1>8, MqScheduleStep, MqLinkStep, MqFreeStep, MqAloneStep, MqDrainStep,
     MqTimeoutStep, MqResetStep, Zenon
<1>9. ASSUME NEW v \in Message, MqSendFromIsr(v) PROVE StepOK
  BY <1>9, MqIsrSendStep
<1>10. ASSUME MqRecvFromIsr PROVE StepOK
  BY <1>10, MqIsrRecvStep
<1> QED BY <1>1, <1>3, <1>4, <1>6, <1>7, <1>8, <1>9, <1>10, Zenon DEF MqNext

LEMMA MqInitStep == MqInit => BlockInv /\ MqInv
<1> SUFFICES ASSUME MqInit PROVE BlockInv /\ MqInv
  OBVIOUS
<1>1. BlockInv
  BY InitBlocks
<1>2. MqThreads
  BY IpcAssumption
     DEF MqInit, ThreadInit, MqThreads, ThreadTypeOK, Coherent, MqPlaces, Errors, MqEntering
<1>3. MqLocals /\ mqReceivers = <<>> /\ mqSenders = <<>> /\ \A t \in Thread : stat[t] = "ready"
  BY DEF MqInit, ThreadInit, MqLocals, MqWaits
<1>4. MqSides
  <2>1. PICK z : z = <<>> /\ z \in Seq(Thread) /\ NoDuplicates(z) /\ \A x : ~ Occurs(z, x)
    BY EmptyFacts
  <2>2. \A S, n : Side(z, S, n)
    BY <1>3, <2>1 DEF Side, WaitsAt
  <2> QED BY <1>3, <2>1, <2>2 DEF MqSides
<1> QED BY <1>1, <1>2, <1>3, <1>4 DEF MqInv

LEMMA MqInvHolds == MqSpec => [](BlockInv /\ MqInv)
<1>1. MqInit => BlockInv /\ MqInv
  BY MqInitStep
<1>2. BlockInv /\ MqInv /\ [MqNext]_<<threadVars, mqVars>> => BlockInv' /\ MqInv'
  BY MqNextStep DEF StepOK
<1> QED BY <1>1, <1>2, PTL DEF MqSpec

(* Every variable of the message queue keeps its type; mq->entry stays     *)
(* within the number of blocks.                                            *)
THEOREM MsgQueueTypeCorrect == MqSpec => []MqTypeOK
BY MqInvHolds, MqInvMeans, PTL

(* Every block of the pool is in one place: in the queue, in the free      *)
(* chain or in the hands of one thread that copies with interrupts         *)
(* enabled, whatever runs between the two critical sections of a call.     *)
THEOREM MsgQueueConservesBlocks == MqSpec => []BlocksInOnePlace
<1>1. BlockInv => BlocksInOnePlace
  BY BlockInvMeans
<1> QED BY <1>1, MqInvHolds, PTL

(* No wake-up of the message queue is lost: nobody sleeps in rt_mq_recv    *)
(* beside a message, nor in rt_mq_send_wait beside a free block, that no   *)
(* woken thread comes for.                                                 *)
THEOREM MsgQueueLosesNoWakeup == MqSpec => []MqNoLostWakeup
BY MqInvHolds, MqInvMeans, PTL
----------------------------------------------------------------------------
(* The messages, as MessageQueue sees them.                                *)
Texts == Message \union {NoMessage}

TextOf(q, x) == [i \in 1 .. Len(q) |-> x[q[i]]]

LEMMA TextFacts ==
  ASSUME NEW x \in [MsgBlock -> Texts], NEW q \in Seq(MsgBlock)
  PROVE  /\ TextOf(q, x) \in Seq(Texts) /\ Len(TextOf(q, x)) = Len(q)
         /\ \A i \in 1 .. Len(q) : TextOf(q, x)[i] = x[q[i]]
<1>1. \A i \in 1 .. Len(q) : q[i] \in MsgBlock /\ x[q[i]] \in Texts
  OBVIOUS
<1>2. TextOf(q, x) \in [1 .. Len(q) -> Texts] /\ Len(q) \in Nat
  BY <1>1 DEF TextOf
<1> QED BY <1>2 DEF TextOf

LEMMA TextBehind ==
  ASSUME NEW x \in [MsgBlock -> Texts], NEW y \in [MsgBlock -> Texts], NEW q \in Seq(MsgBlock), NEW b \in MsgBlock,
         ~ Occurs(q, b), \A c \in MsgBlock : c # b => y[c] = x[c]
  PROVE  TextOf(Append(q, b), y) = Append(TextOf(q, x), y[b])
<1>1. PICK r, f : r = Append(q, b) /\ f = TextOf(q, x)
  OBVIOUS
<1>2. /\ r \in Seq(MsgBlock) /\ Len(r) = Len(q) + 1 /\ r[Len(q) + 1] = b
      /\ \A i \in 1 .. Len(q) : r[i] = q[i]
  BY <1>1
<1>3. f \in Seq(Texts) /\ Len(f) = Len(q) /\ \A i \in 1 .. Len(q) : f[i] = x[q[i]]
  BY <1>1, TextFacts
<1>4. PICK g : g = TextOf(r, y)
  OBVIOUS
<1>5. g \in Seq(Texts) /\ Len(g) = Len(q) + 1 /\ \A i \in 1 .. Len(q) + 1 : g[i] = y[r[i]]
  BY <1>2, <1>4, TextFacts
<1>6. y[b] \in Texts /\ \A i \in 1 .. Len(q) : q[i] \in MsgBlock /\ q[i] # b
  BY DEF Occurs
<1>7. \A i \in 1 .. Len(q) : g[i] = f[i]
  BY <1>2, <1>3, <1>5, <1>6
<1>8. g[Len(q) + 1] = y[b]
  BY <1>2, <1>5
<1>9. g = Append(f, y[b])
  BY <1>3, <1>5, <1>6, <1>7, <1>8
<1> QED BY <1>1, <1>4, <1>9

LEMMA TextBefore ==
  ASSUME NEW x \in [MsgBlock -> Texts], NEW y \in [MsgBlock -> Texts], NEW q \in Seq(MsgBlock), NEW b \in MsgBlock,
         ~ Occurs(q, b), \A c \in MsgBlock : c # b => y[c] = x[c]
  PROVE  TextOf(<<b>> \o q, y) = <<y[b]>> \o TextOf(q, x)
<1>1. PICK r, f : r = <<b>> \o q /\ f = TextOf(q, x)
  OBVIOUS
<1>2. /\ r \in Seq(MsgBlock) /\ Len(r) = Len(q) + 1 /\ r[1] = b
      /\ \A i \in 1 .. Len(q) : r[i + 1] = q[i]
  BY <1>1
<1>3. f \in Seq(Texts) /\ Len(f) = Len(q) /\ \A i \in 1 .. Len(q) : f[i] = x[q[i]]
  BY <1>1, TextFacts
<1>4. PICK g : g = TextOf(r, y)
  OBVIOUS
<1>5. g \in Seq(Texts) /\ Len(g) = Len(q) + 1 /\ \A i \in 1 .. Len(q) + 1 : g[i] = y[r[i]]
  BY <1>2, <1>4, TextFacts
<1>6. y[b] \in Texts /\ \A i \in 1 .. Len(q) : q[i] \in MsgBlock /\ q[i] # b
  BY DEF Occurs
<1>7. \A i \in 1 .. Len(q) : g[i + 1] = f[i]
  BY <1>2, <1>3, <1>5, <1>6
<1>8. g[1] = y[b]
  BY <1>2, <1>5
<1>9. PICK h : h = <<y[b]>> \o f
  OBVIOUS
<1>10. h \in Seq(Texts) /\ Len(h) = Len(q) + 1 /\ h[1] = y[b] /\ \A i \in 1 .. Len(q) : h[i + 1] = f[i]
  BY <1>3, <1>6, <1>9
<1>11. \A i \in 1 .. Len(q) + 1 : i = 1 \/ (i - 1 \in 1 .. Len(q) /\ i = (i - 1) + 1)
  OBVIOUS
<1>12. \A i \in 1 .. Len(q) + 1 : g[i] = h[i]
  BY <1>7, <1>8, <1>10, <1>11
<1>13. g = h
  BY <1>5, <1>10, <1>12
<1> QED BY <1>1, <1>4, <1>9, <1>13

LEMMA TextFirst ==
  ASSUME NEW x \in [MsgBlock -> Texts], NEW q \in Seq(MsgBlock), q # <<>>
  PROVE  /\ TextOf(q, x) # <<>> /\ Head(TextOf(q, x)) = x[Head(q)]
         /\ TextOf(Tail(q), x) = Tail(TextOf(q, x))
<1>1. PICK f : f = TextOf(q, x)
  OBVIOUS
<1>2. f \in Seq(Texts) /\ Len(f) = Len(q) /\ \A i \in 1 .. Len(q) : f[i] = x[q[i]]
  BY <1>1, TextFacts
<1>3. PICK r \in Seq(MsgBlock) :
        r = Tail(q) /\ Len(r) = Len(q) - 1 /\ \A i \in 1 .. Len(q) - 1 : r[i] = q[i + 1]
  <2>1. /\ Tail(q) \in Seq(MsgBlock) /\ Len(Tail(q)) = Len(q) - 1
        /\ \A i \in 1 .. Len(q) - 1 : Tail(q)[i] = q[i + 1]
    OBVIOUS
  <2> QED BY <2>1, Zenon
<1>4. PICK g : g = TextOf(r, x)
  OBVIOUS
<1>5. g \in Seq(Texts) /\ Len(g) = Len(q) - 1 /\ \A i \in 1 .. Len(q) - 1 : g[i] = x[r[i]]
  BY <1>3, <1>4, TextFacts, Zenon
<1>6. f # <<>> /\ Head(f) = x[Head(q)]
  <2>1. 1 \in 1 .. Len(q)
    OBVIOUS
  <2> QED BY <1>2, <2>1
<1>7. PICK h \in Seq(Texts) :
        h = Tail(f) /\ Len(h) = Len(q) - 1 /\ \A i \in 1 .. Len(q) - 1 : h[i] = f[i + 1]
  <2>1. /\ Tail(f) \in Seq(Texts) /\ Len(Tail(f)) = Len(f) - 1
        /\ \A i \in 1 .. Len(f) - 1 : Tail(f)[i] = f[i + 1]
    BY <1>2, <1>6
  <2> QED BY <1>2, <2>1, Zenon
<1>8. \A i \in 1 .. Len(q) - 1 : g[i] = h[i]
  <2> TAKE i \in 1 .. Len(q) - 1
  <2>1. i + 1 \in 1 .. Len(q)
    OBVIOUS
  <2> QED BY <1>2, <1>3, <1>5, <1>7, <2>1
<1>9. g = h
  <2>1. PICK n \in Nat : n = Len(q) - 1
    OBVIOUS
  <2>2. /\ g \in Seq(Texts) /\ Len(g) = n /\ h \in Seq(Texts) /\ Len(h) = n
        /\ \A i \in 1 .. n : g[i] = h[i]
    BY <1>5, <1>7, <1>8, <2>1
  <2> QED BY <2>2
<1> QED BY <1>1, <1>3, <1>4, <1>6, <1>7, <1>9

LEMMA MessagesAre ==
  ASSUME BlockInv, MqInv
  PROVE  /\ Messages = TextOf(Queued, text) /\ Len(Messages) = msgEntry /\ msgEntry \in Nat
         /\ Queued \in Seq(MsgBlock) /\ Len(Queued) = msgEntry
         /\ text \in [MsgBlock -> Texts]
         /\ \A b : Occurs(Queued, b) => b \in MsgBlock
<1>1. PICK f : Chains(Queued, f)
  BY ChainsNow
<1>2. Len(Queued) = msgEntry /\ Queued \in Seq(MsgBlock)
  BY <1>1 DEF Chains, Parts
<1>3. msgEntry \in Nat /\ Messages = TextOf(Queued, text)
  BY <1>2 DEF Messages, TextOf
<1>4. text \in [MsgBlock -> Texts]
  BY DEF MqInv, MqLocals, Texts
<1>5. Len(TextOf(Queued, text)) = Len(Queued)
  BY <1>2, <1>4, TextFacts
<1> QED BY <1>2, <1>3, <1>4, <1>5 DEF Occurs

(* The same after a step.                                                  *)
Readable ==
  BlockInv /\ MqInv =>
    Messages = TextOf(Queued, text) /\ text \in [MsgBlock -> Texts]

LEMMA ReadableNow == Readable
BY MessagesAre DEF Readable

LEMMA ReadableNext == Readable'
BY ReadableNow, PTL

QueueStepOK ==
  [Messaging!Next \/ \E v \in Message : Messaging!PutUrgent(v)]_<<Messages, Delivered>>

(* What each consumer has, for steps that copy nothing out.                *)
LEMMA SameDelivered ==
  ASSUME pc \in [Thread -> MqPlaces], pc' \in [Thread -> MqPlaces],
         \A t \in Thread : pc'[t] = "mq_copy_out" <=> pc[t] = "mq_copy_out",
         \A t \in Thread : pc[t] = "mq_copy_out" =>
           msg'[t] = msg[t] /\ text'[msg[t]] = text[msg[t]],
         \A c \in Thread \union {MqIsr} : mqGot'[c] = mqGot[c]
  PROVE  Delivered' = Delivered
<1>1. \A c \in Thread \union {MqIsr} :
        (IF c \in Thread /\ pc'[c] = "mq_copy_out" THEN text'[msg'[c]] ELSE mqGot'[c])
          = (IF c \in Thread /\ pc[c] = "mq_copy_out" THEN text[msg[c]] ELSE mqGot[c])
  OBVIOUS
<1> QED BY <1>1 DEF Delivered

(* Steps that move no message.                                             *)
LEMMA QuietQueue ==
  ASSUME BlockInv, MqInv, BlockInv', MqInv', Queued' = Queued, UNCHANGED text,
         Delivered' = Delivered
  PROVE  QueueStepOK
<1>1. Messages = TextOf(Queued, text) /\ Messages' = TextOf(Queued', text')
  BY ReadableNow, ReadableNext DEF Readable
<1>2. Messages' = Messages
  BY <1>1
<1> QED BY <1>2 DEF QueueStepOK

(* A message is put in, behind or before the others, ...                   *)
LEMMA PutQueue ==
  ASSUME BlockInv, MqInv, BlockInv', MqInv', NEW b \in MsgBlock, NEW v \in Message,
         ~ Occurs(Queued, b), text' = [text EXCEPT ![b] = v],
         Queued' = Append(Queued, b) \/ Queued' = <<b>> \o Queued, Delivered' = Delivered,
         msgEntry < Cardinality(MsgBlock)
  PROVE  QueueStepOK
<1>1. /\ Messages = TextOf(Queued, text) /\ Len(Messages) = msgEntry
      /\ Queued \in Seq(MsgBlock) /\ text \in [MsgBlock -> Texts]
  BY MessagesAre
<1>2. Messages' = TextOf(Queued', text') /\ text' \in [MsgBlock -> Texts]
  BY ReadableNext DEF Readable
<1>3. text'[b] = v /\ \A c \in MsgBlock : c # b => text'[c] = text[c]
  BY <1>1
<1>4. CASE Queued' = Append(Queued, b)
  <2>1. TextOf(Append(Queued, b), text') = Append(TextOf(Queued, text), text'[b])
    <3>1. PICK x \in [MsgBlock -> Texts], y \in [MsgBlock -> Texts], q \in Seq(MsgBlock) :
            x = text /\ y = text' /\ q = Queued
      BY <1>1, <1>2
    <3>2. ~ Occurs(q, b) /\ \A c \in MsgBlock : c # b => y[c] = x[c]
      BY <1>3, <3>1
    <3>3. TextOf(Append(q, b), y) = Append(TextOf(q, x), y[b])
      BY <3>2, TextBehind
    <3> QED BY <3>1, <3>3, Zenon
  <2>2. Messages' = Append(Messages, v)
    BY <1>1, <1>2, <1>3, <1>4, <2>1
  <2>3. Messaging!Put(v)
    BY <1>1, <2>2 DEF Messaging!Put
  <2> QED BY <2>3 DEF QueueStepOK, Messaging!Next
<1>5. CASE Queued' = <<b>> \o Queued
  <2>1. TextOf(<<b>> \o Queued, text') = <<text'[b]>> \o TextOf(Queued, text)
    <3>1. PICK x \in [MsgBlock -> Texts], y \in [MsgBlock -> Texts], q \in Seq(MsgBlock) :
            x = text /\ y = text' /\ q = Queued
      BY <1>1, <1>2
    <3>2. ~ Occurs(q, b) /\ \A c \in MsgBlock : c # b => y[c] = x[c]
      BY <1>3, <3>1
    <3>3. TextOf(<<b>> \o q, y) = <<y[b]>> \o TextOf(q, x)
      BY <3>2, TextBefore
    <3> QED BY <3>1, <3>3, Zenon
  <2>2. Messages' = <<v>> \o Messages
    BY <1>1, <1>2, <1>3, <1>5, <2>1
  <2>3. Messaging!PutUrgent(v)
    BY <1>1, <2>2 DEF Messaging!PutUrgent
  <2> QED BY <2>3 DEF QueueStepOK
<1> QED BY <1>4, <1>5

(* ... and the first one is taken out for one consumer.                    *)
LEMMA GetQueue ==
  ASSUME BlockInv, MqInv, BlockInv', MqInv', Queued # <<>>, Queued' = Tail(Queued),
         UNCHANGED text, NEW c \in Thread \union {MqIsr},
         Delivered' = [Delivered EXCEPT ![c] = text[Head(Queued)]]
  PROVE  QueueStepOK
<1>1. /\ Messages = TextOf(Queued, text)
      /\ Queued \in Seq(MsgBlock) /\ text \in [MsgBlock -> Texts]
  BY MessagesAre
<1>2. Messages' = TextOf(Queued', text')
  BY ReadableNext DEF Readable
<1>3. /\ Messages # <<>> /\ Head(Messages) = text[Head(Queued)]
      /\ TextOf(Tail(Queued), text) = Tail(Messages)
  BY <1>1, TextFirst
<1>4. Messages' = Tail(Messages)
  BY <1>2, <1>3
<1>5. Messaging!Get(c)
  BY <1>3, <1>4 DEF Messaging!Get
<1> QED BY <1>5 DEF QueueStepOK, Messaging!Next

(* Each action does one of these.                                          *)
StepTaken == BlockInv /\ MqInv /\ BlockInv' /\ MqInv'

LEMMA TakeIsQuiet ==
  ASSUME StepTaken, NEW t \in Thread, cur = t,
         pc[t] \in {"run", "mq_send_woken"}, NEW to \in {"mq_copy_in", "mq_copy_urgent"},
         TakeFreeBlock(msgFree), msg' = [msg EXCEPT ![t] = msgFree], Goto(t, to),
         UNCHANGED <<next, text, msgHead, msgTail, msgEntry, mqGot>>
  PROVE  QueueStepOK
<1>1. pc[t] \notin CopyPlaces /\ to \in CopyPlaces
  BY DEF CopyPlaces
<1>2. Queued' = Queued
  BY <1>1, TakeFreeStep DEF StepTaken
<1>3. /\ pc \in [Thread -> MqPlaces] /\ pc' \in [Thread -> MqPlaces]
      /\ msg \in [Thread -> MsgBlock \union {NoBlock}]
  BY DEF StepTaken, BlockInv
<1>4. /\ \A u \in Thread : pc'[u] = "mq_copy_out" <=> pc[u] = "mq_copy_out"
      /\ \A u \in Thread : pc[u] = "mq_copy_out" => msg'[u] = msg[u]
  BY <1>3 DEF Goto
<1>5. Delivered' = Delivered
  BY <1>3, <1>4, SameDelivered
<1> QED BY <1>2, <1>5, QuietQueue DEF StepTaken

LEMMA LinkIsPut ==
  ASSUME StepTaken, NEW t \in Thread, MqSendLink(t)
  PROVE  QueueStepOK
<1>1. PICK to : to \in {"mq_post", "run"} /\ Goto(t, to)
  BY DEF MqSendLink
<1>2. /\ pc[t] \in CopyPlaces /\ to \in MqPlaces \ CopyPlaces
      /\ LinkLast(msg[t]) \/ LinkFirst(msg[t])
      /\ UNCHANGED <<msgFree, msg, mqGot>>
      /\ text' = [text EXCEPT ![msg[t]] = mqText[t]]
      /\ pc[t] \in {"mq_copy_in", "mq_copy_urgent"}
  BY <1>1 DEF MqSendLink, CopyPlaces, MqPlaces
<1>3. /\ msg[t] \in MsgBlock /\ ~ Occurs(Queued, msg[t])
      /\ Queued' = Append(Queued, msg[t]) \/ Queued' = <<msg[t]>> \o Queued
  BY <1>1, <1>2, LinkStep DEF StepTaken
<1>4. mqText[t] \in Message
  BY <1>2 DEF StepTaken, MqInv, MqLocals
<1>5. /\ pc \in [Thread -> MqPlaces] /\ pc' \in [Thread -> MqPlaces] /\ HeldOnce
      /\ text \in [MsgBlock -> Message \union {NoMessage}]
      /\ msg \in [Thread -> MsgBlock \union {NoBlock}]
  BY DEF StepTaken, BlockInv, MqInv, MqLocals
<1>6. \A u \in Thread : pc[u] = "mq_copy_out" => msg[u] # msg[t] /\ msg[u] \in MsgBlock
  <2>1. ASSUME NEW u \in Thread, pc[u] = "mq_copy_out"
        PROVE  msg[u] # msg[t] /\ msg[u] \in MsgBlock
    <3>1. u \in Copying /\ t \in Copying /\ u # t
      BY <1>2, <2>1 DEF Copying, CopyPlaces
    <3>2. Held \subseteq MsgBlock
      BY ChainsNow DEF StepTaken, Chains, Parts
    <3> QED BY <1>5, <3>1, <3>2 DEF HeldOnce, Held
  <2> QED BY <2>1
<1>7. /\ \A u \in Thread : pc'[u] = "mq_copy_out" <=> pc[u] = "mq_copy_out"
      /\ \A u \in Thread : pc[u] = "mq_copy_out" =>
           msg'[u] = msg[u] /\ text'[msg[u]] = text[msg[u]]
  BY <1>1, <1>2, <1>5, <1>6 DEF Goto
<1>8. Delivered' = Delivered
  BY <1>2, <1>5, <1>7, SameDelivered
<1>9. msgEntry < Cardinality(MsgBlock)
  <2>1. t \in Copying /\ Copying # {}
    BY <1>2 DEF Copying, CopyPlaces
  <2>2. Cardinality(Copying) # 0
    BY <2>1, CopyingFinite, FS_EmptySet
  <2> QED BY <2>2, Amounts DEF StepTaken, Spare
<1> QED BY <1>2, <1>3, <1>4, <1>8, <1>9, PutQueue DEF StepTaken

LEMMA IsrSendIsPut ==
  ASSUME StepTaken, NEW v \in Message, MqSendFromIsr(v)
  PROVE  QueueStepOK
<1>1. /\ TakeFreeBlock(msgFree) /\ (LinkLast(msgFree) \/ LinkFirst(msgFree))
      /\ UNCHANGED <<pc, msg, mqGot>> /\ text' = [text EXCEPT ![msgFree] = v]
  BY DEF MqSendFromIsr
<1>2. /\ msgFree \in MsgBlock /\ ~ Occurs(Queued, msgFree) /\ msgFree \notin Held
      /\ Queued' = Append(Queued, msgFree) \/ Queued' = <<msgFree>> \o Queued
  BY <1>1, IsrSendBlocks DEF StepTaken
<1>3. /\ pc \in [Thread -> MqPlaces] /\ pc' \in [Thread -> MqPlaces]
      /\ text \in [MsgBlock -> Message \union {NoMessage}]
  BY DEF StepTaken, BlockInv, MqInv, MqLocals
<1>4. \A u \in Thread : pc[u] = "mq_copy_out" => msg[u] # msgFree /\ msg[u] \in MsgBlock
  <2>1. Held \subseteq MsgBlock
    BY ChainsNow DEF StepTaken, Chains, Parts
  <2> QED BY <1>2, <2>1 DEF Copying, Held
<1>5. \A u \in Thread : pc[u] = "mq_copy_out" =>
        msg'[u] = msg[u] /\ text'[msg[u]] = text[msg[u]]
  BY <1>1, <1>3, <1>4
<1>6. Delivered' = Delivered
  BY <1>1, <1>3, <1>5, SameDelivered
<1>7. msgEntry < Cardinality(MsgBlock)
  <2>1. Spare # 0
    BY <1>1, Amounts DEF StepTaken, TakeFreeBlock
  <2> QED BY <2>1, Amounts DEF StepTaken, Spare
<1> QED BY <1>1, <1>2, <1>6, <1>7, PutQueue DEF StepTaken

LEMMA RecvTakeIsGet ==
  ASSUME StepTaken, NEW t \in Thread, pc[t] \in {"run", "mq_recv_woken"}, MqRecvTake(t)
  PROVE  QueueStepOK
<1>1. /\ Goto(t, "mq_copy_out") /\ TakeFirst(msgHead) /\ msg' = [msg EXCEPT ![t] = msgHead]
      /\ UNCHANGED <<next, msgFree, text, mqGot>>
  BY DEF MqRecvTake
<1>2. pc[t] \notin CopyPlaces /\ "mq_copy_out" \in CopyPlaces
  BY DEF CopyPlaces
<1>3. Queued # <<>> /\ msgHead = Head(Queued) /\ Queued' = Tail(Queued)
  BY <1>1, <1>2, TakeFirstStep DEF StepTaken
<1>4. pc \in [Thread -> MqPlaces] /\ msg \in [Thread -> MsgBlock \union {NoBlock}]
  BY DEF StepTaken, BlockInv
<1>5. /\ pc'[t] = "mq_copy_out" /\ msg'[t] = msgHead
      /\ \A u \in Thread : u # t => pc'[u] = pc[u] /\ msg'[u] = msg[u]
  BY <1>1, <1>4 DEF Goto
<1>6. \A c \in Thread \union {MqIsr} :
        (IF c \in Thread /\ pc'[c] = "mq_copy_out" THEN text'[msg'[c]] ELSE mqGot'[c])
          = (IF c = t THEN text[msgHead]
             ELSE IF c \in Thread /\ pc[c] = "mq_copy_out" THEN text[msg[c]] ELSE mqGot[c])
  BY <1>1, <1>5
<1>7. Delivered' = [Delivered EXCEPT ![t] = text[msgHead]]
  BY <1>6 DEF Delivered
<1> QED BY <1>1, <1>3, <1>7, GetQueue DEF StepTaken

LEMMA RecvFreeIsQuiet ==
  ASSUME StepTaken, NEW t \in Thread, MqRecvFree(t)
  PROVE  QueueStepOK
<1>1. PICK to : to \in {"mq_post", "run"} /\ Goto(t, to)
  BY DEF MqRecvFree
<1>2. /\ pc[t] = "mq_copy_out" /\ pc[t] \in CopyPlaces /\ to \in MqPlaces \ CopyPlaces
      /\ next' = [next EXCEPT ![msg[t]] = msgFree] /\ msgFree' = msg[t]
      /\ UNCHANGED <<text, msgHead, msgTail, msgEntry, msg>>
      /\ mqGot' = [mqGot EXCEPT ![t] = text[msg[t]]]
  BY <1>1 DEF MqRecvFree, At, CopyPlaces, MqPlaces
<1>3. Queued' = Queued
  BY <1>1, <1>2, FreeBlockStep DEF StepTaken
<1>4. /\ pc \in [Thread -> MqPlaces]
      /\ mqGot \in [Thread \union {MqIsr} -> Message \union {NoMessage}]
  BY DEF StepTaken, BlockInv, MqInv, MqLocals
<1>5. /\ pc'[t] = to /\ to # "mq_copy_out" /\ mqGot'[t] = text[msg[t]]
      /\ \A u \in Thread : u # t => pc'[u] = pc[u]
      /\ \A c \in Thread \union {MqIsr} : c # t => mqGot'[c] = mqGot[c]
  BY <1>1, <1>2, <1>4 DEF Goto
<1>6. \A c \in Thread \union {MqIsr} :
        (IF c \in Thread /\ pc'[c] = "mq_copy_out" THEN text'[msg'[c]] ELSE mqGot'[c])
          = (IF c \in Thread /\ pc[c] = "mq_copy_out" THEN text[msg[c]] ELSE mqGot[c])
  BY <1>2, <1>5
<1>7. Delivered' = Delivered
  BY <1>6 DEF Delivered
<1> QED BY <1>2, <1>3, <1>7, QuietQueue DEF StepTaken

LEMMA IsrRecvIsGet ==
  ASSUME StepTaken, MqRecvFromIsr
  PROVE  QueueStepOK
<1>1. /\ TakeFirst(msgHead) /\ next' = [next EXCEPT ![msgHead] = msgFree] /\ msgFree' = msgHead
      /\ UNCHANGED <<pc, text, msg>> /\ mqGot' = [mqGot EXCEPT ![MqIsr] = text[msgHead]]
  BY DEF MqRecvFromIsr
<1>2. Queued # <<>> /\ msgHead = Head(Queued) /\ Queued' = Tail(Queued)
  BY <1>1, IsrRecvBlocks DEF StepTaken
<1>3. mqGot \in [Thread \union {MqIsr} -> Message \union {NoMessage}] /\ MqIsr \notin Thread
  BY MsgQueueAssumption DEF StepTaken, MqInv, MqLocals
<1>4. \A c \in Thread \union {MqIsr} :
        (IF c \in Thread /\ pc'[c] = "mq_copy_out" THEN text'[msg'[c]] ELSE mqGot'[c])
          = (IF c = MqIsr THEN text[msgHead]
             ELSE IF c \in Thread /\ pc[c] = "mq_copy_out" THEN text[msg[c]] ELSE mqGot[c])
  BY <1>1, <1>3
<1>5. Delivered' = [Delivered EXCEPT ![MqIsr] = text[msgHead]]
  BY <1>4 DEF Delivered
<1> QED BY <1>1, <1>2, <1>5, GetQueue DEF StepTaken

LEMMA ResetIsClear ==
  ASSUME StepTaken, NEW t \in Thread, MqReset(t)
  PROVE  QueueStepOK
<1>1. /\ pc[t] = "run" /\ Goto(t, "mq_post") /\ msgEntry' = 0 /\ UNCHANGED <<text, msg, mqGot>>
  BY DEF MqReset, Running
<1>2. pc \in [Thread -> MqPlaces] /\ pc' \in [Thread -> MqPlaces]
  BY DEF StepTaken, BlockInv
<1>3. \A u \in Thread : pc'[u] = "mq_copy_out" <=> pc[u] = "mq_copy_out"
  BY <1>1, <1>2 DEF Goto
<1>4. Delivered' = Delivered
  BY <1>1, <1>2, <1>3, SameDelivered
<1>5. Messages' = <<>>
  BY <1>1 DEF Messages
<1>6. Messaging!Clear
  BY <1>4, <1>5 DEF Messaging!Clear
<1> QED BY <1>6 DEF QueueStepOK, Messaging!Next

(* The steps that leave the chains, the texts and the buffers alone.       *)
LEMMA AsideIsQuiet ==
  ASSUME StepTaken, UNCHANGED <<chains, text, msg, mqGot>>,
         \A u \in Thread : pc'[u] = pc[u] \/ {pc'[u], pc[u]} \intersect CopyPlaces = {}
  PROVE  QueueStepOK
<1>1. pc \in [Thread -> MqPlaces] /\ pc' \in [Thread -> MqPlaces]
  BY DEF StepTaken, BlockInv
<1>2. Copying' = Copying
  BY DEF Copying, CopyPlaces
<1>3. Queued' = Queued
  BY <1>1, <1>2, SameBlocks DEF StepTaken, chains
<1>4. \A u \in Thread : pc'[u] = "mq_copy_out" <=> pc[u] = "mq_copy_out"
  BY DEF CopyPlaces
<1>5. Delivered' = Delivered
  BY <1>1, <1>4, SameDelivered
<1> QED BY <1>3, <1>5, QuietQueue DEF StepTaken

LEMMA SendBodyQueue ==
  ASSUME StepTaken, NEW t \in Thread, cur = t, pc[t] \in {"run", "mq_send_woken"},
         NEW v, NEW w, MqSendBody(t, v, w)
  PROVE  QueueStepOK
<1>1. CASE MqSendTake(t, v)
  BY <1>1, TakeIsQuiet DEF MqSendTake
<1>2. CASE MqSendFull(t, w) \/ MqSendBlock(t, v, w)
  <2>1. /\ UNCHANGED <<chains, text, msg, mqGot>>
        /\ \E to \in {"run", "mq_send_wait"} : Goto(t, to)
    BY <1>2 DEF MqSendFull, MqSendBlock, Block, mqVars
  <2>2. pc \in [Thread -> MqPlaces]
    BY DEF StepTaken, BlockInv
  <2>3. \A u \in Thread : pc'[u] = pc[u] \/ {pc'[u], pc[u]} \intersect CopyPlaces = {}
    BY <2>1, <2>2 DEF Goto, CopyPlaces
  <2> QED BY <2>1, <2>3, AsideIsQuiet
<1> QED BY <1>1, <1>2 DEF MqSendBody

LEMMA RecvBodyQueue ==
  ASSUME StepTaken, NEW t \in Thread, pc[t] \in {"run", "mq_recv_woken"},
         NEW w, MqRecvBody(t, w)
  PROVE  QueueStepOK
<1>1. CASE MqRecvTake(t)
  BY <1>1, RecvTakeIsGet
<1>2. CASE MqRecvEmpty(t, w) \/ MqRecvBlock(t, w)
  <2>1. /\ UNCHANGED <<chains, text, msg, mqGot>>
        /\ \E to \in {"run", "mq_recv_wait"} : Goto(t, to)
    BY <1>2 DEF MqRecvEmpty, MqRecvBlock, Block, mqVars
  <2>2. pc \in [Thread -> MqPlaces]
    BY DEF StepTaken, BlockInv
  <2>3. \A u \in Thread : pc'[u] = pc[u] \/ {pc'[u], pc[u]} \intersect CopyPlaces = {}
    BY <2>1, <2>2 DEF Goto, CopyPlaces
  <2> QED BY <2>1, <2>3, AsideIsQuiet
<1> QED BY <1>1, <1>2 DEF MqRecvBody

LEMMA AsideQueue ==
  ASSUME StepTaken, NEW t \in Thread,
         \/ MqSendSchedule(t) \/ MqRecvSchedule(t) \/ MqPostSchedule(t) \/ MqFailed(t)
         \/ MqDetach(t) \/ MqDrainTest(t) \/ MqDrainOne(t) \/ MqTimeoutOf(t)
  PROVE  QueueStepOK
<1>1. UNCHANGED <<chains, text, msg, mqGot>>
  BY DEF MqSendSchedule, MqRecvSchedule, MqPostSchedule, MqFailed, MqDetach, MqDrainTest,
         MqDrainOne, MqTimeoutOf, mqVars
<1>2. UNCHANGED pc \/ (pc[t] \notin CopyPlaces /\ \E to \in MqPlaces \ CopyPlaces : Goto(t, to))
  BY DEF MqSendSchedule, MqRecvSchedule, MqPostSchedule, MqFailed, MqDetach, MqDrainTest,
         MqDrainOne, MqTimeoutOf, TimeoutOf, Reschedule, At, Running, CopyPlaces, MqPlaces
<1>3. pc \in [Thread -> MqPlaces]
  BY DEF StepTaken, BlockInv
<1>4. \A u \in Thread : pc'[u] = pc[u] \/ {pc'[u], pc[u]} \intersect CopyPlaces = {}
  BY <1>2, <1>3 DEF Goto
<1> QED BY <1>1, <1>4, AsideIsQuiet

LEMMA NextQueue ==
  ASSUME BlockInv, MqInv, [MqNext]_<<threadVars, mqVars>>
  PROVE  QueueStepOK
<1>0. StepTaken
  BY MqNextStep DEF StepOK, StepTaken
<1>1. ASSUME NEW t \in Thread, NEW w \in MqWaits, NEW v \in Message, MqSend(t, v, w)
      PROVE  QueueStepOK
  BY <1>0, <1>1, SendBodyQueue DEF MqSend, Running
<1>2. ASSUME NEW t \in Thread, MqSendAgain(t)
      PROVE  QueueStepOK
  <2>1. PICK w : MqSendBody(t, mqText[t], w)
    BY <1>2 DEF MqSendAgain
  <2> QED BY <1>0, <1>2, <2>1, SendBodyQueue DEF MqSendAgain, At
<1>3. ASSUME NEW t \in Thread, NEW v \in Message, MqUrgentTake(t, v)
      PROVE  QueueStepOK
  BY <1>0, <1>3, TakeIsQuiet DEF MqUrgentTake, Running
<1>4. ASSUME NEW t \in Thread, NEW w \in MqWaits, MqRecv(t, w)
      PROVE  QueueStepOK
  BY <1>0, <1>4, RecvBodyQueue DEF MqRecv, Running
<1>5. ASSUME NEW t \in Thread, MqRecvAgain(t)
      PROVE  QueueStepOK
  <2>1. PICK w : MqRecvBody(t, w)
    BY <1>5 DEF MqRecvAgain
  <2> QED BY <1>0, <1>5, <2>1, RecvBodyQueue DEF MqRecvAgain, At
<1>6. ASSUME NEW t \in Thread,
             \/ MqSendSchedule(t) \/ MqSendAgain(t) \/ MqSendLink(t)
             \/ MqRecvSchedule(t) \/ MqRecvAgain(t) \/ MqRecvFree(t)
             \/ MqFailed(t) \/ MqPostSchedule(t) \/ MqDrainTest(t) \/ MqDrainOne(t)
             \/ MqTimeoutOf(t) \/ MqReset(t) \/ MqDetach(t)
      PROVE  QueueStepOK
  BY <1>0, <1>2, <1>5, <1>6, LinkIsPut, RecvFreeIsQuiet, AsideQueue, ResetIsClear, Zenon
<1>7. ASSUME NEW v \in Message, MqSendFromIsr(v) PROVE QueueStepOK
  BY <1>0, <1>7, IsrSendIsPut
<1>8. ASSUME MqRecvFromIsr PROVE QueueStepOK
  BY <1>0, <1>8, IsrRecvIsGet
<1>9. CASE SliceEnd /\ UNCHANGED mqVars
  BY <1>0, <1>9, AsideIsQuiet DEF SliceEnd, mqVars
<1>10. CASE UNCHANGED <<threadVars, mqVars>>
  BY <1>0, <1>10, AsideIsQuiet DEF threadVars, mqVars
<1> QED BY <1>1, <1>3, <1>4, <1>6, <1>7, <1>8, <1>9, <1>10, Zenon DEF MqNext

LEMMA InitQueue == MqInit => Messaging!Init
<1> SUFFICES ASSUME MqInit PROVE Messaging!Init
  OBVIOUS
<1>1. Messages = <<>>
  BY DEF MqInit, Messages
<1>2. /\ pc = [t \in Thread |-> "run"]
      /\ mqGot = [c \in Thread \union {MqIsr} |-> NoMessage]
  BY DEF MqInit, ThreadInit
<1>3. \A c \in Thread \union {MqIsr} :
        (IF c \in Thread /\ pc[c] = "mq_copy_out" THEN text[msg[c]] ELSE mqGot[c]) = NoMessage
  BY <1>2
<1>4. Delivered = [c \in Thread \union {MqIsr} |-> NoMessage]
  BY <1>3 DEF Delivered
<1> QED BY <1>1, <1>4 DEF Messaging!Init

(* A message queue of any size is a bounded queue with urgent messages:    *)
(* each message goes to one consumer, whole and in order, although every   *)
(* call copies between two critical sections with interrupts enabled.      *)
THEOREM MsgQueueIsQueue == MqSpec => MqImplementsQueue
<1>1. MqInit => Messaging!Init
  BY InitQueue
<1>2. BlockInv /\ MqInv /\ [MqNext]_<<threadVars, mqVars>> =>
        [Messaging!Next \/ \E v \in Message : Messaging!PutUrgent(v)]_<<Messages, Delivered>>
  BY NextQueue DEF QueueStepOK
<1> QED BY <1>1, <1>2, MqInvHolds, PTL DEF MqSpec, MqImplementsQueue, Messaging!UrgentSpec
----------------------------------------------------------------------------
(***************************************************************************)
(* MCObjects lets one object at a time run on the thread layer.  Its       *)
(* theorems follow from those of the objects: a behaviour of one part is a *)
(* behaviour of that object.                                               *)
(***************************************************************************)
Mutexes == INSTANCE RtMutexProofs
  WITH Mutex <- {m1, m2}, NoPriority <- 255, MaxHold <- 1, Ordered <- TRUE,
       Rank <- NestedRank, Detachable <- {}, Sleepers <- {hi, mid},
       ByPriority <- TRUE, alive <- live

LEMMA OnePartRuns ==
  ASSUME [ObjectsNext]_objectVars
  PROVE  /\ part' = part
         /\ part = "mailbox" => [Next]_vars
         /\ part = "event" => [EventNext]_<<threadVars, eventVars>>
         /\ part = "queue" => [MqNext]_<<threadVars, mqVars>>
         /\ part = "pool" => [MpNext]_<<threadVars, poolVars>>
         /\ part = "mutexes" => [Nested!Next]_<<threadVars, mutexVars>>
<1>1. CASE ObjectsNext
  BY <1>1 DEF ObjectsNext
<1>2. CASE UNCHANGED objectVars
  BY <1>2 DEF objectVars, vars
<1> QED BY <1>1, <1>2

LEMMA MailboxPart == ObjectsSpec => [](part = "mailbox" => TypeOK)
<1>1. ObjectsInit => Init
  BY DEF ObjectsInit
<1>2. [ObjectsNext]_objectVars => part' = part /\ (part = "mailbox" => [Next]_vars)
  BY OnePartRuns
<1>3. part' = part => (part = "mailbox" <=> (part = "mailbox")')
  OBVIOUS
<1> QED BY <1>1, <1>2, <1>3, MailboxTypeCorrect, PTL DEF ObjectsSpec, Spec

LEMMA EventPart == ObjectsSpec => [](part = "event" => EventTypeOK)
<1>1. ObjectsInit => EventInit
  BY DEF ObjectsInit
<1>2. [ObjectsNext]_objectVars => part' = part /\ (part = "event" => [EventNext]_<<threadVars, eventVars>>)
  BY OnePartRuns
<1>3. part' = part => (part = "event" <=> (part = "event")')
  OBVIOUS
<1> QED BY <1>1, <1>2, <1>3, EventTypeCorrect, PTL DEF ObjectsSpec, EventSpec

LEMMA QueuePart == ObjectsSpec => [](part = "queue" => MqTypeOK)
<1>1. ObjectsInit => MqInit
  BY DEF ObjectsInit
<1>2. [ObjectsNext]_objectVars => part' = part /\ (part = "queue" => [MqNext]_<<threadVars, mqVars>>)
  BY OnePartRuns
<1>3. part' = part => (part = "queue" <=> (part = "queue")')
  OBVIOUS
<1> QED BY <1>1, <1>2, <1>3, MsgQueueTypeCorrect, PTL DEF ObjectsSpec, MqSpec

LEMMA PoolPart == ObjectsSpec => [](part = "pool" => MpTypeOK)
<1>1. ObjectsInit => MpInit
  BY DEF ObjectsInit
<1>2. [ObjectsNext]_objectVars => part' = part /\ (part = "pool" => [MpNext]_<<threadVars, poolVars>>)
  BY OnePartRuns
<1>3. part' = part => (part = "pool" <=> (part = "pool")')
  OBVIOUS
<1> QED BY <1>1, <1>2, <1>3, MempoolTypeCorrect, PTL DEF ObjectsSpec, MpSpec

(* The instance of RtMutex that runs and the one whose theorems are known  *)
(* are the same, operator by operator.                                     *)
LEMMA SameMutexes ==
  /\ Nested!Init <=> Mutexes!Init
  /\ [Nested!Next]_<<threadVars, mutexVars>> <=> [Mutexes!Next]_Mutexes!vars
  /\ Nested!TypeOK <=> Mutexes!TypeOK
  /\ Nested!MutualExclusion <=> Mutexes!MutualExclusion
  /\ Nested!BoostEnds <=> Mutexes!BoostEnds
BY DEF threadVars, mutexVars,
     Nested!Occurs, Mutexes!Occurs, Nested!NoDuplicates, Mutexes!NoDuplicates,
     Nested!Position, Mutexes!Position, Nested!ListRemove, Mutexes!ListRemove,
     Nested!ListInsertBefore, Mutexes!ListInsertBefore,
     Nested!ListAddTail, Mutexes!ListAddTail, Nested!threadVars, Mutexes!threadVars,
     Nested!Errors, Mutexes!Errors, Nested!ThreadTypeOK, Mutexes!ThreadTypeOK,
     Nested!ThreadInit, Mutexes!ThreadInit, Nested!Running, Mutexes!Running,
     Nested!At, Mutexes!At, Nested!Goto, Mutexes!Goto, Nested!ReadyIn, Mutexes!ReadyIn,
     Nested!Highest, Mutexes!Highest, Nested!Dispatch, Mutexes!Dispatch,
     Nested!PlaceByPriority, Mutexes!PlaceByPriority, Nested!Enqueued, Mutexes!Enqueued,
     Nested!Block, Mutexes!Block, Nested!Wake, Mutexes!Wake,
     Nested!WakeAll, Mutexes!WakeAll, Nested!Reschedule, Mutexes!Reschedule,
     Nested!SliceEnd, Mutexes!SliceEnd, Nested!Sleep, Mutexes!Sleep,
     Nested!SleepSchedule, Mutexes!SleepSchedule, Nested!SleepReturn, Mutexes!SleepReturn,
     Nested!TimeoutOf, Mutexes!TimeoutOf, Nested!mutexVars, Mutexes!mutexVars,
     Nested!vars, Mutexes!vars, Nested!Places, Mutexes!Places, Nested!Init, Mutexes!Init,
     Nested!Holds, Mutexes!Holds, Nested!MayTake, Mutexes!MayTake,
     Nested!MayLetGo, Mutexes!MayLetGo, Nested!Draining, Mutexes!Draining,
     Nested!Usable, Mutexes!Usable, Nested!ResetError, Mutexes!ResetError,
     Nested!TakeAgain, Mutexes!TakeAgain, Nested!TakeFull, Mutexes!TakeFull,
     Nested!TakeFree, Mutexes!TakeFree, Nested!TakeBusy, Mutexes!TakeBusy,
     Nested!Boosted, Mutexes!Boosted, Nested!TakeWait, Mutexes!TakeWait,
     Nested!TakeSchedule, Mutexes!TakeSchedule, Nested!TakeReturn, Mutexes!TakeReturn,
     Nested!ReleaseNotOwner, Mutexes!ReleaseNotOwner,
     Nested!ReleaseNested, Mutexes!ReleaseNested, Nested!Restored, Mutexes!Restored,
     Nested!ReleaseTo, Mutexes!ReleaseTo, Nested!ReleaseFree, Mutexes!ReleaseFree,
     Nested!PostSchedule, Mutexes!PostSchedule, Nested!Detach, Mutexes!Detach,
     Nested!DrainTest, Mutexes!DrainTest, Nested!DrainOne, Mutexes!DrainOne,
     Nested!Timeout, Mutexes!Timeout, Nested!InCall, Mutexes!InCall,
     Nested!Take, Mutexes!Take, Nested!LetGo, Mutexes!LetGo,
     Nested!Release, Mutexes!Release, Nested!Next, Mutexes!Next,
     Nested!TypeOK, Mutexes!TypeOK, Nested!FreeOrOwned, Mutexes!FreeOrOwned,
     Nested!Granted, Mutexes!Granted, Nested!MutualExclusion, Mutexes!MutualExclusion,
     Nested!WaitersAreBlocked, Mutexes!WaitersAreBlocked,
     Nested!BoostEnds, Mutexes!BoostEnds

LEMMA MutexesFit == Mutexes!IpcAssumption /\ Mutexes!MutexAssumption /\ Mutexes!Nested
<1>1. Mutexes!IpcAssumption
  BY IpcAssumption DEF Mutexes!IpcAssumption, IsFiniteSet, Mutexes!IsFiniteSet
<1>2. NestedRank \in [{m1, m2} -> Nat]
  BY DEF NestedRank
<1>3. Mutexes!MutexAssumption
  BY <1>2, NestedAssumption DEF Mutexes!MutexAssumption
<1>4. Mutexes!Nested
  BY DEF Mutexes!Nested
<1> QED BY <1>1, <1>3, <1>4

LEMMA MutexPart ==
  ObjectsSpec => [](part = "mutexes" =>
                      Nested!TypeOK /\ Nested!MutualExclusion /\ Nested!BoostEnds)
<1>1. ObjectsInit => Mutexes!Init
  BY SameMutexes DEF ObjectsInit
<1>2. [ObjectsNext]_objectVars =>
        part' = part /\ (part = "mutexes" => [Mutexes!Next]_Mutexes!vars)
  BY OnePartRuns, SameMutexes
<1>3. part' = part => (part = "mutexes" <=> (part = "mutexes")')
  OBVIOUS
<1>4. Mutexes!Spec => []Mutexes!TypeOK
  BY MutexesFit, Mutexes!TypeCorrect, PTL
<1>5. Mutexes!Spec => []Mutexes!MutualExclusion
  BY MutexesFit, Mutexes!MutexExcludes, PTL
<1>6. Mutexes!Spec => []Mutexes!BoostEnds
  BY MutexesFit, Mutexes!MutexBoostsEnd, PTL
<1>7. /\ Nested!TypeOK <=> Mutexes!TypeOK
      /\ Nested!MutualExclusion <=> Mutexes!MutualExclusion
      /\ Nested!BoostEnds <=> Mutexes!BoostEnds
  BY SameMutexes
<1> QED BY <1>1, <1>2, <1>3, <1>4, <1>5, <1>6, <1>7, PTL DEF ObjectsSpec, Mutexes!Spec

(* Whichever object the threads use, its state and theirs keep their       *)
(* types: no call leaves an offset, a chain or a thread's word half done.  *)
THEOREM ObjectsTypeCorrect == ObjectsSpec => []ObjectsTypeOK
<1>1. /\ part = "mailbox" => TypeOK
      /\ part = "event" => EventTypeOK
      /\ part = "queue" => MqTypeOK
      /\ part = "pool" => MpTypeOK
      /\ part = "mutexes" => Nested!TypeOK /\ Nested!MutualExclusion /\ Nested!BoostEnds
      => ObjectsTypeOK
  BY DEF ObjectsTypeOK
<1> QED BY <1>1, MailboxPart, EventPart, QueuePart, PoolPart, MutexPart, PTL

(* Two mutexes that are taken in their order exclude each other's users,   *)
(* and a thread that owns neither of them runs at its own priority         *)
(* (rt_mutex_take, rt_mutex_release), for any number of threads.           *)
THEOREM NestedBoostsEnd == ObjectsSpec => []NestedBoostEnds
<1>1. (part = "mutexes" => Nested!TypeOK /\ Nested!MutualExclusion /\ Nested!BoostEnds)
        => NestedBoostEnds
  BY DEF NestedBoostEnds
<1> QED BY <1>1, MutexPart, PTL
=============================================================================
