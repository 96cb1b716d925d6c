----------------------------- MODULE RtSemProofs ----------------------------
(***************************************************************************)
(* Conservation of tokens and wake-ups of a semaphore, for any number of   *)
(* threads, any priorities, limits and reset values, FIFO or by priority,  *)
(* whether or not it is detached while timed waiters are left.             *)
(*                                                                         *)
(* Tokens are counted over the threads that were woken with one and have   *)
(* not returned, so the induction needs to know when a thread enters and   *)
(* leaves that set: only a release puts a thread in, because a waiter has  *)
(* error number RT_EOK until it is woken, and only rt_sem_take takes it    *)
(* out, because its timer is stopped by then.                              *)
(***************************************************************************)
EXTENDS RtSem, RtIpcLemmas, FiniteSetTheorems

Handshake ==
  /\ \A t \in armed : stat[t] = "suspend"
  /\ \A t \in Thread : Occurs(waiters, t) => error[t] = "RT_EOK"
  /\ cur \in Thread /\ pc[cur] \notin {"wait", "sleep"} => stat[cur] = "ready"

Inv ==
  /\ TypeOK /\ WaitersAreBlocked /\ NoWaiterBesideToken /\ TokensConserved
  /\ Handshake

(* OnTheirWay, of one thread.                                              *)
Carries(t) == pc[t] \in {"wait", "woken"} /\ stat[t] = "ready" /\ error[t] = "RT_EOK"

LEMMA Constants == MaxValue \in Nat /\ ResetValues \subseteq 0 .. MaxValue
BY SemAssumption

LEMMA OnTheirWayFinite ==
  IsFiniteSet(OnTheirWay) /\ Cardinality(OnTheirWay) \in Nat
<1>1. OnTheirWay \subseteq Thread
  BY DEF OnTheirWay
<1> QED BY <1>1, IpcAssumption, FS_Subset, FS_CardinalityType

(* The number of tokens on their way does not change, grows or shrinks by  *)
(* one with the set of their threads.                                      *)
LEMMA SameCarriers ==
  ASSUME \A t \in Thread : Carries(t)' <=> Carries(t)
  PROVE  OnTheirWay' = OnTheirWay
BY DEF OnTheirWay, Carries

LEMMA OneMore ==
  ASSUME NEW u \in Thread, ~ Carries(u), Carries(u)',
         \A t \in Thread : t # u => (Carries(t)' <=> Carries(t))
  PROVE  Cardinality(OnTheirWay') = Cardinality(OnTheirWay) + 1
<1>1. OnTheirWay' = OnTheirWay \union {u} /\ u \notin OnTheirWay
  BY DEF OnTheirWay, Carries
<1> QED BY <1>1, OnTheirWayFinite, FS_AddElement

LEMMA OneLess ==
  ASSUME NEW u \in Thread, Carries(u), ~ Carries(u)',
         \A t \in Thread : t # u => (Carries(t)' <=> Carries(t))
  PROVE  Cardinality(OnTheirWay') = Cardinality(OnTheirWay) - 1
<1>1. OnTheirWay' = OnTheirWay \ {u} /\ u \in OnTheirWay
  BY DEF OnTheirWay, Carries
<1> QED BY <1>1, OnTheirWayFinite, FS_RemoveElement

(* A thread outside the wait carries nothing and is in no list.            *)
LEMMA RunnerIsFree ==
  ASSUME Inv, NEW t \in Thread, pc[t] \notin {"wait", "woken"}
  PROVE  ~ Carries(t) /\ ~ Occurs(waiters, t)
BY DEF Inv, Carries, WaitersAreBlocked

(* One waiting list, no waiters, no tokens on their way.                   *)
LEMMA InitInv == Init => Inv
<1> SUFFICES ASSUME Init PROVE Inv
  OBVIOUS
<1> USE DEF Init, ThreadInit
<1>1. ThreadTypeOK(Places)
  BY IpcAssumption DEF ThreadTypeOK, Places, Errors
<1>2. TypeOK
  BY <1>1, SemAssumption, EmptyFacts DEF TypeOK
<1>3. WaitersAreBlocked
  <2>1. SortedByPriority(<<>>)
    BY DEF SortedByPriority
  <2> QED BY <2>1, EmptyFacts DEF WaitersAreBlocked
<1>4. NoWaiterBesideToken
  BY DEF NoWaiterBesideToken
<1>5. TokensConserved
  <2>1. OnTheirWay = {}
    BY DEF OnTheirWay
  <2> QED BY <2>1, FS_EmptySet, SemAssumption DEF TokensConserved
<1>6. Handshake
  BY EmptyFacts DEF Handshake
<1> QED BY <1>2, <1>3, <1>4, <1>5, <1>6 DEF Inv
----------------------------------------------------------------------------
(* One lemma per action.                                                   *)

(* rt_sem_take and rt_sem_trytake of a token that is there.                *)
LEMMA TakeNowStep ==
  ASSUME Inv, NEW t \in Thread, TakeNow(t)
  PROVE  Inv'
<1> USE DEF Inv, TakeNow, threadVars
<1>1. OnTheirWay' = OnTheirWay
  BY SameCarriers DEF Carries
<1>2. TypeOK'
  BY Constants, OnTheirWayFinite DEF TypeOK, ThreadTypeOK, TokensConserved
<1>3. NoWaiterBesideToken'
  BY DEF NoWaiterBesideToken
<1>4. TokensConserved'
  BY <1>1, Constants, OnTheirWayFinite DEF TokensConserved, TypeOK
<1>5. WaitersAreBlocked' /\ Handshake'
  BY DEF WaitersAreBlocked, SortedByPriority, Handshake
<1> QED BY <1>2, <1>3, <1>4, <1>5

(* rt_sem_take that blocks.                                                *)
LEMMA TakeWaitStep ==
  ASSUME Inv, NEW t \in Thread, NEW timed \in BOOLEAN, TakeWait(t, timed)
  PROVE  Inv'
<1> USE DEF Inv, TakeWait, Running, Block, Goto
<1>1. ~ Carries(t) /\ ~ Occurs(waiters, t)
  BY RunnerIsFree
<1>2. /\ stat' \in [Thread -> {"ready", "suspend"}] /\ error' \in [Thread -> Errors]
      /\ pc' \in [Thread -> Places]
      /\ stat'[t] = "suspend" /\ error'[t] = "RT_EOK" /\ pc'[t] = "wait"
      /\ \A u \in Thread : u # t =>
           stat'[u] = stat[u] /\ error'[u] = error[u] /\ pc'[u] = pc[u]
  BY DEF TypeOK, ThreadTypeOK, Errors, Places
<1>3. waiters \in Seq(Thread) /\ prio \in [Thread -> Nat]
      /\ NoDuplicates(waiters) /\ SortedByPriority(waiters)
  BY DEF TypeOK, ThreadTypeOK, WaitersAreBlocked
<1>4. /\ waiters' \in Seq(Thread) /\ NoDuplicates(waiters')
      /\ \A x : Occurs(waiters', x) <=> x = t \/ Occurs(waiters, x)
  BY <1>1, <1>3, EnqueuedFacts
<1>5. SortedByPriority(waiters)'
  <2>1. SortedByPriority(Enqueued(waiters, t))
    BY <1>3, EnqueuedSorted
  <2> QED BY <2>1 DEF SortedByPriority
<1>6. OnTheirWay' = OnTheirWay
  BY <1>1, <1>2, SameCarriers DEF Carries
<1>7. TypeOK'
  BY <1>2, <1>4 DEF TypeOK, ThreadTypeOK
<1>8. NoWaiterBesideToken'
  BY DEF NoWaiterBesideToken
<1>9. TokensConserved'
  BY <1>6 DEF TokensConserved
<1>10. WaitersAreBlocked'
  BY <1>1, <1>2, <1>4, <1>5 DEF WaitersAreBlocked
<1>11. Handshake'
  <2>1. \A u \in armed' : stat'[u] = "suspend"
    BY <1>2 DEF Handshake, TypeOK, ThreadTypeOK
  <2>2. \A u \in Thread : Occurs(waiters', u) => error'[u] = "RT_EOK"
    BY <1>2, <1>4 DEF Handshake
  <2> QED BY <1>2, <2>1, <2>2 DEF Handshake
<1> QED BY <1>7, <1>8, <1>9, <1>10, <1>11

(* rt_schedule() at the end of a call.                                     *)
LEMMA RescheduleStep ==
  ASSUME Inv, NEW t \in Thread,
         \/ Reschedule(t, "wait", "woken") \/ Reschedule(t, "post", "run")
         \/ Reschedule(t, "sleep", "slept"),
         UNCHANGED semVars
  PROVE  Inv'
<1> USE DEF Inv, Reschedule, At, Goto, semVars
<1>1. /\ pc' \in [Thread -> Places]
      /\ \A u \in Thread : pc'[u] \in {"wait", "woken"} <=> pc[u] \in {"wait", "woken"}
  BY DEF TypeOK, ThreadTypeOK, Places
<1>2. UNCHANGED <<stat, prio, armed, error>> /\ Dispatch
  OBVIOUS
<1>3. cur' \in Thread \union {Idle} /\ (cur' \in Thread => stat'[cur'] = "ready")
  BY <1>2, DispatchFacts
<1>4. OnTheirWay' = OnTheirWay
  BY <1>1, <1>2, SameCarriers DEF Carries
<1>5. TypeOK'
  BY <1>1, <1>2, <1>3 DEF TypeOK, ThreadTypeOK
<1>6. NoWaiterBesideToken' /\ TokensConserved'
  BY <1>4 DEF NoWaiterBesideToken, TokensConserved
<1>7. WaitersAreBlocked'
  BY <1>1, <1>2 DEF WaitersAreBlocked, SortedByPriority
<1>8. Handshake'
  BY <1>2, <1>3 DEF Handshake
<1> QED BY <1>5, <1>6, <1>7, <1>8

(* The woken thread returns with its token or its error.                   *)
LEMMA TakeReturnStep ==
  ASSUME Inv, NEW t \in Thread, TakeReturn(t)
  PROVE  Inv'
<1> USE DEF Inv, TakeReturn, At, Goto
<1>1. stat[t] = "ready" /\ ~ Occurs(waiters, t)
  BY DEF Handshake, WaitersAreBlocked
<1>2. /\ pc' \in [Thread -> Places] /\ pc'[t] = "run"
      /\ \A u \in Thread : u # t => pc'[u] = pc[u]
  BY DEF TypeOK, ThreadTypeOK, Places
<1>3. credit' \in Nat /\ credit' = value + Cardinality(OnTheirWay')
  <2>1. CASE error[t] = "RT_EOK"
    <3>1. Carries(t) /\ ~ Carries(t)' /\ \A u \in Thread : u # t => (Carries(u)' <=> Carries(u))
      BY <1>1, <1>2, <2>1 DEF Carries
    <3>2. Cardinality(OnTheirWay') = Cardinality(OnTheirWay) - 1
      BY <3>1, OneLess
    <3>3. Cardinality(OnTheirWay) > 0
      <4>1. t \in OnTheirWay
        BY <3>1 DEF Carries, OnTheirWay
      <4>2. Cardinality(OnTheirWay) # 0
        BY <4>1, OnTheirWayFinite, FS_EmptySet
      <4> QED BY <4>2, OnTheirWayFinite
    <3> QED BY <2>1, <3>2, <3>3, Constants, OnTheirWayFinite DEF TokensConserved, TypeOK
  <2>2. CASE error[t] # "RT_EOK"
    <3>1. \A u \in Thread : Carries(u)' <=> Carries(u)
      BY <1>2, <2>2 DEF Carries
    <3> QED BY <2>2, <3>1, SameCarriers DEF TokensConserved, TypeOK
  <2> QED BY <2>1, <2>2
<1>4. TypeOK'
  BY <1>2, <1>3 DEF TypeOK, ThreadTypeOK
<1>5. NoWaiterBesideToken' /\ TokensConserved'
  BY <1>3 DEF NoWaiterBesideToken, TokensConserved
<1>6. WaitersAreBlocked'
  BY <1>1, <1>2 DEF WaitersAreBlocked, SortedByPriority
<1>7. Handshake'
  BY <1>1, <1>2 DEF Handshake
<1> QED BY <1>4, <1>5, <1>6, <1>7

(* What waking the first waiter does to the threads and the list.          *)
LEMMA WakeFacts ==
  ASSUME Inv, waiters # <<>>, Wake(Head(waiters)), waiters' = Tail(waiters),
         UNCHANGED prio
  PROVE  LET u == Head(waiters) IN
         /\ u \in Thread /\ Occurs(waiters, u)
         /\ stat[u] = "suspend" /\ pc[u] \in {"wait", "woken"} /\ error[u] = "RT_EOK"
         /\ stat' \in [Thread -> {"ready", "suspend"}]
         /\ armed' \subseteq armed /\ armed' \subseteq Thread /\ u \notin armed'
         /\ stat'[u] = "ready" /\ \A v \in Thread : v # u => stat'[v] = stat[v]
         /\ \A v \in armed' : stat'[v] = "suspend"
         /\ waiters' \in Seq(Thread) /\ NoDuplicates(waiters') /\ SortedByPriority(waiters)'
         /\ \A v : Occurs(waiters', v) <=> Occurs(waiters, v) /\ v # u
<1> DEFINE u == Head(waiters)
<1> USE DEF Inv, Wake
<1>1. waiters \in Seq(Thread) /\ NoDuplicates(waiters) /\ SortedByPriority(waiters)
  BY DEF TypeOK, WaitersAreBlocked
<1>2. /\ u \in Thread /\ Occurs(waiters, u)
      /\ waiters' \in Seq(Thread) /\ NoDuplicates(waiters')
      /\ \A x : Occurs(waiters', x) <=> Occurs(waiters, x) /\ x # u
  BY <1>1, TailFacts
<1>3. SortedByPriority(waiters)'
  <2>1. SortedByPriority(Tail(waiters))
    BY <1>1, TailSorted
  <2> QED BY <2>1 DEF SortedByPriority
<1>4. stat[u] = "suspend" /\ pc[u] \in {"wait", "woken"} /\ error[u] = "RT_EOK"
  BY <1>2 DEF WaitersAreBlocked, Handshake
<1>5. /\ stat' \in [Thread -> {"ready", "suspend"}] /\ stat'[u] = "ready"
      /\ armed' \subseteq armed /\ armed' \subseteq Thread /\ u \notin armed'
      /\ \A v \in Thread : v # u => stat'[v] = stat[v]
  BY <1>2 DEF TypeOK, ThreadTypeOK
<1>6. \A v \in armed' : stat'[v] = "suspend"
  BY <1>5 DEF Handshake
<1> QED BY <1>2, <1>3, <1>4, <1>5, <1>6

(* The critical section of rt_sem_release, in a thread or in an interrupt: *)
(* the token goes to the first waiter or into the value, never to both.    *)
LEMMA GiveFacts ==
  ASSUME Inv, Give, UNCHANGED <<prio, error>>,
         \A t \in Thread : pc'[t] \in {"wait", "woken"} <=> pc[t] \in {"wait", "woken"}
  PROVE  /\ stat' \in [Thread -> {"ready", "suspend"}] /\ armed' \subseteq Thread
         /\ waiters' \in Seq(Thread) /\ value' \in 0 .. MaxValue /\ credit' \in Nat
         /\ WaitersAreBlocked' /\ NoWaiterBesideToken' /\ TokensConserved'
         /\ \A t \in armed' : stat'[t] = "suspend"
         /\ \A t \in Thread : Occurs(waiters', t) => error'[t] = "RT_EOK"
         /\ \A t \in Thread : stat[t] = "ready" => stat'[t] = "ready"
<1> USE DEF Inv
<1>1. CASE waiters # <<>>
  <2> PICK u : u = Head(waiters)
    OBVIOUS
  <2>1. /\ Wake(u) /\ waiters' = Tail(waiters)
        /\ credit' = credit + 1 /\ value' = value
    BY <1>1 DEF Give
  <2>2. /\ u \in Thread /\ Occurs(waiters, u)
        /\ stat[u] = "suspend" /\ pc[u] \in {"wait", "woken"} /\ error[u] = "RT_EOK"
        /\ stat' \in [Thread -> {"ready", "suspend"}]
        /\ armed' \subseteq armed /\ armed' \subseteq Thread /\ u \notin armed'
        /\ stat'[u] = "ready" /\ \A v \in Thread : v # u => stat'[v] = stat[v]
        /\ \A v \in armed' : stat'[v] = "suspend"
        /\ waiters' \in Seq(Thread) /\ NoDuplicates(waiters') /\ SortedByPriority(waiters)'
        /\ \A v : Occurs(waiters', v) <=> Occurs(waiters, v) /\ v # u
    BY <1>1, <2>1, WakeFacts
  <2>3. ~ Carries(u) /\ Carries(u)' /\ \A v \in Thread : v # u => (Carries(v)' <=> Carries(v))
    BY <2>2 DEF Carries
  <2>4. Cardinality(OnTheirWay') = Cardinality(OnTheirWay) + 1
    BY <2>2, <2>3, OneMore
  <2>5. value' \in 0 .. MaxValue /\ credit' \in Nat /\ TokensConserved'
    BY <2>1, <2>4, Constants, OnTheirWayFinite DEF TokensConserved, TypeOK
  <2>6. NoWaiterBesideToken'
    BY <1>1, <2>1 DEF NoWaiterBesideToken
  <2>7. WaitersAreBlocked'
    BY <2>2 DEF WaitersAreBlocked
  <2>8. \A t \in Thread : Occurs(waiters', t) => error'[t] = "RT_EOK"
    BY <2>2 DEF Handshake
  <2>9. \A t \in Thread : stat[t] = "ready" => stat'[t] = "ready"
    BY <2>2
  <2> QED BY <2>2, <2>5, <2>6, <2>7, <2>8, <2>9
<1>2. CASE waiters = <<>>
  <2>1. /\ value < MaxValue /\ value' = value + 1 /\ credit' = credit + 1
        /\ UNCHANGED <<stat, armed, waiters>>
    BY <1>2 DEF Give
  <2>2. OnTheirWay' = OnTheirWay
    BY <2>1, SameCarriers DEF Carries
  <2>3. value' \in 0 .. MaxValue /\ credit' \in Nat /\ TokensConserved'
    BY <2>1, <2>2, Constants, OnTheirWayFinite DEF TokensConserved, TypeOK
  <2>4. NoWaiterBesideToken'
    BY <1>2, <2>1 DEF NoWaiterBesideToken
  <2>5. WaitersAreBlocked'
    BY <2>1 DEF WaitersAreBlocked, SortedByPriority
  <2> QED BY <2>1, <2>3, <2>4, <2>5 DEF TypeOK, ThreadTypeOK, Handshake
<1> QED BY <1>1, <1>2

(* rt_sem_release in a thread.                                             *)
LEMMA ReleaseStep ==
  ASSUME Inv, NEW t \in Thread, Release(t)
  PROVE  Inv'
<1> USE DEF Inv, Release, Running, Goto
<1>1. /\ pc' \in [Thread -> Places] /\ pc'[t] \in {"post", "run"} /\ cur' = t
      /\ \A u \in Thread : pc'[u] \in {"wait", "woken"} <=> pc[u] \in {"wait", "woken"}
  BY DEF TypeOK, ThreadTypeOK, Places
<1>2. Give /\ UNCHANGED <<prio, cur, error, alive>> /\ stat[t] = "ready"
  BY DEF Handshake
<1>3. /\ stat' \in [Thread -> {"ready", "suspend"}] /\ armed' \subseteq Thread
      /\ waiters' \in Seq(Thread) /\ value' \in 0 .. MaxValue /\ credit' \in Nat
      /\ WaitersAreBlocked' /\ NoWaiterBesideToken' /\ TokensConserved'
      /\ \A u \in armed' : stat'[u] = "suspend"
      /\ \A u \in Thread : Occurs(waiters', u) => error'[u] = "RT_EOK"
      /\ \A u \in Thread : stat[u] = "ready" => stat'[u] = "ready"
  BY <1>1, <1>2, GiveFacts
<1>4. TypeOK'
  BY <1>1, <1>2, <1>3 DEF TypeOK, ThreadTypeOK
<1>5. Handshake'
  BY <1>1, <1>2, <1>3 DEF Handshake
<1> QED BY <1>3, <1>4, <1>5

(* rt_sem_release in an interrupt handler.                                 *)
LEMMA ReleaseFromIsrStep ==
  ASSUME Inv, ReleaseFromIsr
  PROVE  Inv'
<1> USE DEF Inv, ReleaseFromIsr
<1>1. Give /\ UNCHANGED <<prio, error, pc, alive>>
  OBVIOUS
<1>2. /\ stat' \in [Thread -> {"ready", "suspend"}] /\ armed' \subseteq Thread
      /\ waiters' \in Seq(Thread) /\ value' \in 0 .. MaxValue /\ credit' \in Nat
      /\ WaitersAreBlocked' /\ NoWaiterBesideToken' /\ TokensConserved'
      /\ \A u \in armed' : stat'[u] = "suspend"
      /\ \A u \in Thread : Occurs(waiters', u) => error'[u] = "RT_EOK"
      /\ \A u \in Thread : stat[u] = "ready" => stat'[u] = "ready"
  BY <1>1, GiveFacts
<1>3. Dispatch \/ UNCHANGED cur
  OBVIOUS
<1>4. /\ cur' \in Thread \union {Idle}
      /\ cur' \in Thread /\ pc'[cur'] \notin {"wait", "sleep"} => stat'[cur'] = "ready"
  BY <1>1, <1>2, <1>3, DispatchFacts DEF TypeOK, ThreadTypeOK, Handshake
<1>5. TypeOK'
  BY <1>1, <1>2, <1>4 DEF TypeOK, ThreadTypeOK
<1>6. Handshake'
  BY <1>2, <1>4 DEF Handshake
<1> QED BY <1>2, <1>5, <1>6

(* RT_IPC_CMD_RESET: no waiter is left, and none of them carries a token.  *)
LEMMA ResetStep ==
  ASSUME Inv, NEW t \in Thread, NEW v \in ResetValues, Reset(t, v)
  PROVE  Inv'
<1> USE DEF Inv, Reset, Running, Goto, WakeAll
<1>1. ~ Carries(t) /\ ~ Occurs(waiters, t) /\ stat[t] = "ready"
  BY RunnerIsFree DEF Handshake
<1>2. /\ pc' \in [Thread -> Places] /\ pc'[t] = "post"
      /\ \A u \in Thread : u # t => pc'[u] = pc[u]
  BY DEF TypeOK, ThreadTypeOK, Places
<1>3. /\ stat' \in [Thread -> {"ready", "suspend"}] /\ error' \in [Thread -> Errors]
      /\ \A u \in Thread : stat'[u] = IF Occurs(waiters, u) THEN "ready" ELSE stat[u]
      /\ \A u \in Thread : error'[u] = IF Occurs(waiters, u) THEN "RT_ERROR" ELSE error[u]
      /\ armed' \subseteq armed /\ armed' \subseteq Thread
      /\ \A u \in armed' : ~ Occurs(waiters, u)
  BY DEF TypeOK, ThreadTypeOK, Errors
<1>4. OnTheirWay' = OnTheirWay
  <2>1. ASSUME NEW u \in Thread PROVE Carries(u)' <=> Carries(u)
    <3>1. CASE Occurs(waiters, u)
      BY <1>3, <3>1 DEF Carries, WaitersAreBlocked
    <3>2. CASE ~ Occurs(waiters, u)
      BY <1>1, <1>2, <1>3, <3>2 DEF Carries
    <3> QED BY <3>1, <3>2
  <2> QED BY <2>1, SameCarriers
<1>5. v \in 0 .. MaxValue /\ value' = v /\ credit' = Cardinality(OnTheirWay) + v
  BY Constants, OnTheirWayFinite DEF TokensConserved, TypeOK
<1>6. TypeOK'
  BY <1>2, <1>3, <1>5, Constants, OnTheirWayFinite, EmptyFacts DEF TypeOK, ThreadTypeOK
<1>7. NoWaiterBesideToken' /\ TokensConserved'
  BY <1>4, <1>5, Constants, OnTheirWayFinite DEF NoWaiterBesideToken, TokensConserved
<1>8. WaitersAreBlocked'
  <2>1. NoDuplicates(waiters') /\ \A u \in Thread : ~ Occurs(waiters', u)
    BY EmptyFacts
  <2>2. SortedByPriority(waiters)'
    BY DEF SortedByPriority
  <2>3. ASSUME NEW u \in Thread
        PROVE  ~ (stat'[u] = "suspend" /\ pc'[u] \in {"wait", "woken"})
    BY <1>1, <1>2, <1>3 DEF WaitersAreBlocked
  <2> QED BY <2>1, <2>2, <2>3 DEF WaitersAreBlocked
<1>9. Handshake'
  <2>1. \A u \in armed' : stat'[u] = "suspend"
    BY <1>3 DEF Handshake
  <2>2. \A u \in Thread : ~ Occurs(waiters', u)
    BY EmptyFacts
  <2> QED BY <1>1, <1>3, <2>1, <2>2 DEF Handshake
<1> QED BY <1>6, <1>7, <1>8, <1>9

(* The steps of rt_sem_detach that wake nobody.                            *)
LEMMA DetachStep ==
  ASSUME Inv, NEW t \in Thread, Detach(t) \/ DrainTest(t)
  PROVE  Inv'
<1> USE DEF Inv
<1>1. /\ cur = t /\ pc[t] \in {"run", "drain"}
      /\ \E place \in {"run", "drain", "drain_one"} : pc' = [pc EXCEPT ![t] = place]
      /\ alive' \in BOOLEAN
      /\ UNCHANGED <<stat, prio, cur, armed, error, value, waiters, credit>>
  BY DEF Detach, DrainTest, Running, At, Goto, semVars, TypeOK
<1>2. /\ pc' \in [Thread -> Places] /\ pc'[t] \in {"run", "drain", "drain_one"}
      /\ \A u \in Thread : u # t => pc'[u] = pc[u]
  BY <1>1 DEF TypeOK, ThreadTypeOK, Places
<1>3. ~ Carries(t) /\ ~ Occurs(waiters, t) /\ stat[t] = "ready"
  BY <1>1, RunnerIsFree DEF Handshake
<1>4. OnTheirWay' = OnTheirWay
  BY <1>1, <1>2, <1>3, SameCarriers DEF Carries
<1>5. TypeOK'
  BY <1>1, <1>2 DEF TypeOK, ThreadTypeOK
<1>6. NoWaiterBesideToken' /\ TokensConserved'
  BY <1>1, <1>4 DEF NoWaiterBesideToken, TokensConserved
<1>7. WaitersAreBlocked'
  BY <1>1, <1>2, <1>3 DEF WaitersAreBlocked, SortedByPriority
<1>8. Handshake'
  BY <1>1, <1>2, <1>3 DEF Handshake
<1> QED BY <1>5, <1>6, <1>7, <1>8

(* rt_ipc_list_resume_all wakes one waiter with -RT_ERROR.                 *)
LEMMA DrainOneStep ==
  ASSUME Inv, NEW t \in Thread, DrainOne(t)
  PROVE  Inv'
<1> USE DEF Inv
<1>1. /\ cur = t /\ pc[t] = "drain_one" /\ waiters # <<>>
      /\ Wake(Head(waiters)) /\ waiters' = Tail(waiters)
      /\ error' = [error EXCEPT ![Head(waiters)] = "RT_ERROR"]
      /\ pc' = [pc EXCEPT ![t] = "drain"]
      /\ UNCHANGED <<prio, cur, value, alive, credit>>
  BY DEF DrainOne, At, Goto
<1>2. PICK u : u = Head(waiters)
  OBVIOUS
<1>3. /\ u \in Thread /\ Occurs(waiters, u)
      /\ stat[u] = "suspend" /\ pc[u] \in {"wait", "woken"} /\ error[u] = "RT_EOK"
      /\ stat' \in [Thread -> {"ready", "suspend"}]
      /\ armed' \subseteq armed /\ armed' \subseteq Thread /\ u \notin armed'
      /\ stat'[u] = "ready" /\ \A v \in Thread : v # u => stat'[v] = stat[v]
      /\ \A v \in armed' : stat'[v] = "suspend"
      /\ waiters' \in Seq(Thread) /\ NoDuplicates(waiters') /\ SortedByPriority(waiters)'
      /\ \A v : Occurs(waiters', v) <=> Occurs(waiters, v) /\ v # u
  BY <1>1, <1>2, WakeFacts
<1>4. /\ error' \in [Thread -> Errors] /\ error'[u] = "RT_ERROR"
      /\ \A v \in Thread : v # u => error'[v] = error[v]
  BY <1>1, <1>2, <1>3 DEF TypeOK, ThreadTypeOK, Errors
<1>5. /\ pc' \in [Thread -> Places] /\ pc'[t] = "drain"
      /\ \A v \in Thread : v # t => pc'[v] = pc[v]
  BY <1>1 DEF TypeOK, ThreadTypeOK, Places
<1>6. ~ Carries(t) /\ ~ Occurs(waiters, t) /\ stat[t] = "ready"
  BY <1>1, RunnerIsFree DEF Handshake
<1>7. OnTheirWay' = OnTheirWay
  <2>1. ASSUME NEW v \in Thread PROVE Carries(v)' <=> Carries(v)
    BY <1>3, <1>4, <1>5, <1>6 DEF Carries
  <2> QED BY <2>1, SameCarriers
<1>8. TypeOK'
  BY <1>1, <1>3, <1>4, <1>5 DEF TypeOK, ThreadTypeOK
<1>9. NoWaiterBesideToken' /\ TokensConserved'
  BY <1>1, <1>7 DEF NoWaiterBesideToken, TokensConserved
<1>10. WaitersAreBlocked'
  <2>1. ASSUME NEW v \in Thread
        PROVE  Occurs(waiters', v)
                 <=> stat'[v] = "suspend" /\ pc'[v] \in {"wait", "woken"}
    BY <1>3, <1>5, <1>6 DEF WaitersAreBlocked
  <2> QED BY <1>3, <2>1 DEF WaitersAreBlocked
<1>11. Handshake'
  <2>1. \A v \in Thread : Occurs(waiters', v) => error'[v] = "RT_EOK"
    BY <1>3, <1>4 DEF Handshake
  <2>2. cur' = t /\ stat'[t] = "ready"
    BY <1>1, <1>3, <1>6
  <2> QED BY <1>3, <2>1, <2>2 DEF Handshake
<1> QED BY <1>8, <1>9, <1>10, <1>11

(* A timeout only meets a suspended thread, which carries no token.        *)
LEMMA TimeoutStep ==
  ASSUME Inv, NEW u \in Thread, Timeout(u)
  PROVE  Inv'
<1> USE DEF Inv, Timeout, TimeoutOf
<1>1. stat[u] = "suspend" /\ ~ Carries(u)
  BY DEF Handshake, Carries
<1>2. /\ stat' \in [Thread -> {"ready", "suspend"}] /\ error' \in [Thread -> Errors]
      /\ stat'[u] = "ready" /\ error'[u] = "RT_ETIMEOUT"
      /\ \A v \in Thread : v # u => stat'[v] = stat[v] /\ error'[v] = error[v]
  BY DEF TypeOK, ThreadTypeOK, Errors
<1>3. cur' \in Thread \union {Idle} /\ (cur' \in Thread => stat'[cur'] = "ready")
  BY DispatchFacts
<1>4. waiters \in Seq(Thread) /\ NoDuplicates(waiters) /\ SortedByPriority(waiters)
  BY DEF TypeOK, WaitersAreBlocked
<1>5. /\ waiters' \in Seq(Thread) /\ NoDuplicates(waiters')
      /\ \A v : Occurs(waiters', v) <=> Occurs(waiters, v) /\ v # u
  BY <1>4, RemoveFacts
<1>6. SortedByPriority(waiters)'
  <2>1. SortedByPriority(ListRemove(waiters, u))
    BY <1>4, RemoveSorted
  <2> QED BY <2>1 DEF SortedByPriority
<1>7. OnTheirWay' = OnTheirWay
  <2>1. ASSUME NEW v \in Thread PROVE Carries(v)' <=> Carries(v)
    BY <1>1, <1>2 DEF Carries
  <2> QED BY <2>1, SameCarriers
<1>8. TypeOK'
  BY <1>2, <1>3, <1>5 DEF TypeOK, ThreadTypeOK
<1>9. NoWaiterBesideToken'
  <2>1. waiters = <<>> => waiters' = <<>>
    BY <1>4, <1>5, EmptyFacts
  <2> QED BY <2>1 DEF NoWaiterBesideToken
<1>10. TokensConserved'
  BY <1>7 DEF TokensConserved
<1>11. WaitersAreBlocked'
  <2>1. ASSUME NEW v \in Thread
        PROVE  Occurs(waiters', v)
                 <=> stat'[v] = "suspend" /\ pc'[v] \in {"wait", "woken"}
    BY <1>2, <1>5 DEF WaitersAreBlocked
  <2> QED BY <1>5, <1>6, <2>1 DEF WaitersAreBlocked
<1>12. Handshake'
  <2>1. \A v \in armed' : stat'[v] = "suspend"
    BY <1>2 DEF Handshake, TypeOK, ThreadTypeOK
  <2>2. \A v \in Thread : Occurs(waiters', v) => error'[v] = "RT_EOK"
    BY <1>2, <1>5 DEF Handshake
  <2> QED BY <1>3, <2>1, <2>2 DEF Handshake
<1> QED BY <1>8, <1>9, <1>10, <1>11, <1>12

(* rt_thread_sleep and the end of a time slice do not touch the semaphore. *)
LEMMA OtherStep ==
  ASSUME Inv, UNCHANGED semVars,
         (\E t \in Thread : Sleep(t) \/ SleepReturn(t)) \/ SliceEnd
  PROVE  Inv'
<1> USE DEF Inv, semVars
<1>1. ASSUME NEW t \in Thread, Sleep(t) \/ SleepReturn(t) PROVE Inv'
  <2> USE <1>1 DEF Sleep, SleepReturn, Running, At, Goto
  <2>1. ~ Carries(t) /\ ~ Occurs(waiters, t) /\ UNCHANGED <<prio, cur>> /\ cur = t
    BY RunnerIsFree
  <2>2. /\ stat' \in [Thread -> {"ready", "suspend"}] /\ pc' \in [Thread -> Places]
        /\ error' \in [Thread -> Errors] /\ armed' \subseteq Thread
        /\ pc'[t] \in {"sleep", "run"} /\ (pc'[t] = "run" => stat'[t] = "ready")
        /\ \A u \in Thread :
             u # t => stat'[u] = stat[u] /\ pc'[u] = pc[u] /\ error'[u] = error[u]
        /\ \A u \in armed' : stat'[u] = "suspend"
    <3>1. CASE Sleep(t)
      BY <3>1 DEF TypeOK, ThreadTypeOK, Places, Errors, Handshake
    <3>2. CASE SleepReturn(t)
      BY <3>2 DEF TypeOK, ThreadTypeOK, Places, Errors, Handshake
    <3> QED BY <3>1, <3>2
  <2> HIDE DEF Sleep, SleepReturn
  <2>3. OnTheirWay' = OnTheirWay
    BY <2>1, <2>2, SameCarriers DEF Carries
  <2>4. TypeOK'
    BY <2>1, <2>2 DEF TypeOK, ThreadTypeOK
  <2>5. NoWaiterBesideToken' /\ TokensConserved'
    BY <2>3 DEF NoWaiterBesideToken, TokensConserved
  <2>6. WaitersAreBlocked'
    BY <2>1, <2>2 DEF WaitersAreBlocked, SortedByPriority
  <2>7. Handshake'
    BY <2>1, <2>2 DEF Handshake
  <2> QED BY <2>4, <2>5, <2>6, <2>7
<1>2. ASSUME SliceEnd PROVE Inv'
  <2> USE <1>2 DEF SliceEnd
  <2>1. cur' \in Thread \union {Idle} /\ (cur' \in Thread => stat'[cur'] = "ready")
    BY DispatchFacts
  <2>2. OnTheirWay' = OnTheirWay
    BY SameCarriers DEF Carries
  <2>3. TypeOK' /\ Handshake'
    BY <2>1 DEF TypeOK, ThreadTypeOK, Handshake
  <2>4. WaitersAreBlocked' /\ NoWaiterBesideToken' /\ TokensConserved'
    BY <2>2 DEF WaitersAreBlocked, SortedByPriority, NoWaiterBesideToken, TokensConserved
  <2> QED BY <2>3, <2>4
<1> QED BY <1>1, <1>2
----------------------------------------------------------------------------
(* Every step keeps the invariant.                                         *)
LEMMA NextInv == Inv /\ [Next]_vars => Inv'
<1> SUFFICES ASSUME Inv, [Next]_vars PROVE Inv'
  OBVIOUS
<1>1. CASE UNCHANGED vars
  BY <1>1 DEF vars, threadVars, semVars, Inv, TypeOK, ThreadTypeOK, WaitersAreBlocked,
              SortedByPriority, NoWaiterBesideToken, TokensConserved, OnTheirWay, Handshake
<1>2. ASSUME NEW t \in Thread, InCall(t) PROVE Inv'
  <2>1. CASE SleepSchedule(t) /\ UNCHANGED semVars
    BY <2>1, RescheduleStep DEF SleepSchedule
  <2>2. CASE SleepReturn(t) /\ UNCHANGED semVars
    BY <2>2, OtherStep
  <2>3. CASE TakeSchedule(t) \/ PostSchedule(t)
    BY <2>3, RescheduleStep DEF TakeSchedule, PostSchedule
  <2>4. CASE TakeReturn(t)
    BY <2>4, TakeReturnStep
  <2>5. CASE DrainTest(t)
    BY <2>5, DetachStep
  <2>6. CASE DrainOne(t)
    BY <2>6, DrainOneStep
  <2> QED BY <1>2, <2>1, <2>2, <2>3, <2>4, <2>5, <2>6 DEF InCall
<1>3. ASSUME NEW t \in Thread, Call(t) PROVE Inv'
  <2>1. CASE Sleep(t) /\ UNCHANGED semVars
    BY <2>1, OtherStep
  <2>2. CASE TakeNow(t)
    BY <2>2, TakeNowStep
  <2>3. CASE Release(t)
    BY <2>3, ReleaseStep
  <2>4. CASE Detach(t)
    BY <2>4, DetachStep
  <2>5. ASSUME NEW timed \in BOOLEAN, TakeWait(t, timed) PROVE Inv'
    BY <2>5, TakeWaitStep
  <2>6. ASSUME NEW v \in ResetValues, Reset(t, v) PROVE Inv'
    BY <2>6, ResetStep
  <2> QED BY <1>3, <2>1, <2>2, <2>3, <2>4, <2>5, <2>6 DEF Call
<1>4. ASSUME NEW t \in Thread, Timeout(t) PROVE Inv'
  BY <1>4, TimeoutStep
<1>5. CASE ReleaseFromIsr
  BY <1>5, ReleaseFromIsrStep
<1>6. CASE SliceEnd /\ UNCHANGED semVars
  BY <1>6, OtherStep
<1> QED BY <1>1, <1>2, <1>3, <1>4, <1>5, <1>6, Zenon DEF Next

(* The inductive invariant holds in every behaviour of the specification.  *)
THEOREM Invariance == Spec => []Inv
BY InitInv, NextInv, PTL DEF Spec

(* Types, for every instance: value never leaves 0 .. RT_SEM_VALUE_MAX.    *)
THEOREM TypeCorrect == Spec => []TypeOK
<1>1. Inv => TypeOK
  BY DEF Inv
<1> QED BY <1>1, Invariance, PTL

(* The wait list holds exactly the threads blocked in rt_sem_take, each    *)
(* once and in the order of the object's flag.                             *)
THEOREM SemWaitersAreBlocked == Spec => []WaitersAreBlocked
<1>1. Inv => WaitersAreBlocked
  BY DEF Inv
<1> QED BY <1>1, Invariance, PTL

(* Nobody waits in rt_sem_take while there is a token (ipc.c:448-460).     *)
THEOREM SemNoLostWakeup == Spec => []NoWaiterBesideToken
<1>1. Inv => NoWaiterBesideToken
  BY DEF Inv
<1> QED BY <1>1, Invariance, PTL

(* No token is lost or handed out twice, whatever races the release.       *)
THEOREM SemConservesTokens == Spec => []TokensConserved
<1>1. Inv => TokensConserved
  BY DEF Inv
<1> QED BY <1>1, Invariance, PTL
----------------------------------------------------------------------------
(* Who may be READY above the running thread.  Inside a call that will end *)
(* in rt_schedule() anybody may; elsewhere only threads that rt_sem_detach *)
(* has woken, while it is under way or after it.                           *)
Detaching == {"drain", "drain_one"}
Steady == {"run", "slept", "woken"} \union Detaching

WokenByDetach(u) == pc[u] \in {"wait", "woken"} /\ error[u] = "RT_ERROR"

Exempt(u) == WokenByDetach(u) /\ (alive => pc[cur] \in Detaching)

Above(u) == stat[u] = "ready" /\ prio[u] < prio[cur]

HighInv ==
  cur \in Thread /\ pc[cur] \in Steady => \A u \in Thread : Above(u) => Exempt(u)

(* After rt_schedule() nobody is.                                          *)
LEMMA DispatchedHigh ==
  ASSUME Inv, Dispatch, UNCHANGED prio
  PROVE  HighInv'
<1>1. prio' \in [Thread -> Nat]
  BY DEF Inv, TypeOK, ThreadTypeOK
<1>2. ASSUME NEW u \in Thread, cur' \in Thread, stat'[u] = "ready"
      PROVE  ~ prio'[u] < prio'[cur']
  <2>1. cur' \in ReadyIn(stat') /\ \A v \in ReadyIn(stat') : prio'[cur'] <= prio'[v]
    BY <1>2, IpcAssumption DEF Dispatch, Highest, ReadyIn
  <2> QED BY <1>1, <1>2, <2>1 DEF ReadyIn
<1> QED BY <1>2 DEF HighInv, Above

(* A step of the current thread that makes no other thread READY, except   *)
(* with -RT_ERROR in the middle of a detach.                               *)
LEMMA StaysHigh ==
  ASSUME Inv, HighInv, UNCHANGED <<cur, prio>>, alive' => alive,
         pc'[cur] \in Steady => pc[cur] \in Steady,
         alive' /\ pc[cur] \in Detaching => pc'[cur] \in Detaching,
         \A u \in Thread : u # cur /\ stat'[u] = "ready" =>
           \/ stat[u] = "ready" /\ pc'[u] = pc[u] /\ error'[u] = error[u]
           \/ WokenByDetach(u)' /\ pc'[cur] \in Detaching
  PROVE  HighInv'
<1>1. ASSUME cur \in Thread, pc'[cur] \in Steady, NEW u \in Thread, Above(u)'
      PROVE  Exempt(u)'
  <2>1. u # cur /\ stat'[u] = "ready" /\ prio[u] < prio[cur]
    BY <1>1 DEF Above, Inv, TypeOK, ThreadTypeOK
  <2>2. CASE stat[u] = "ready" /\ pc'[u] = pc[u] /\ error'[u] = error[u]
    <3>1. Exempt(u)
      BY <1>1, <2>1, <2>2 DEF HighInv, Above
    <3> QED BY <2>2, <3>1 DEF Exempt, WokenByDetach
  <2>3. CASE WokenByDetach(u)' /\ pc'[cur] \in Detaching
    BY <2>3 DEF Exempt
  <2> QED BY <2>1, <2>2, <2>3
<1> QED BY <1>1 DEF HighInv

(* A step after which the current thread is about to reschedule.           *)
LEMMA WillSchedule ==
  ASSUME pc'[cur'] \notin Steady
  PROVE  HighInv'
BY DEF HighInv

LEMMA NextHigh ==
  ASSUME Inv, HighInv, [Next]_vars
  PROVE  HighInv'
<1> USE DEF At, Running, Goto, Steady, Detaching
<1>1. pc \in [Thread -> Places] /\ error \in [Thread -> Errors]
      /\ stat \in [Thread -> {"ready", "suspend"}]
  BY DEF Inv, TypeOK, ThreadTypeOK
<1>2. CASE UNCHANGED vars
  BY <1>2, StaysHigh DEF vars, threadVars, semVars
<1>3. ASSUME NEW t \in Thread, InCall(t) PROVE HighInv'
  <2>1. CASE SleepSchedule(t) \/ TakeSchedule(t) \/ PostSchedule(t)
    BY <2>1, DispatchedHigh DEF SleepSchedule, TakeSchedule, PostSchedule, Reschedule
  <2>2. CASE SleepReturn(t) /\ UNCHANGED semVars
    BY <1>1, <2>2, StaysHigh DEF SleepReturn, semVars
  <2>3. CASE TakeReturn(t)
    BY <1>1, <2>3, StaysHigh DEF TakeReturn
  <2>4. CASE DrainTest(t)
    <3>1. /\ cur = t /\ pc[t] = "drain" /\ UNCHANGED <<stat, prio, cur, error>>
          /\ \/ pc' = [pc EXCEPT ![t] = "drain_one"] /\ alive' = alive
             \/ pc' = [pc EXCEPT ![t] = "run"] /\ alive' = FALSE
      BY <2>4 DEF DrainTest
    <3>2. \A u \in Thread : u # t => pc'[u] = pc[u]
      BY <1>1, <3>1
    <3>3. (pc'[t] = "drain_one" /\ alive' = alive) \/ (pc'[t] = "run" /\ alive' = FALSE)
      BY <1>1, <3>1
    <3>4. (alive' => alive) /\ (alive' => pc'[t] \in Detaching)
      BY <3>3
    <3> QED BY <3>1, <3>2, <3>4, StaysHigh
  <2>5. CASE DrainOne(t)
    <3>1. PICK v : v = Head(waiters)
      OBVIOUS
    <3>2. /\ cur = t /\ pc[t] = "drain_one" /\ waiters # <<>> /\ Wake(v) /\ waiters' = Tail(waiters)
          /\ error' = [error EXCEPT ![v] = "RT_ERROR"] /\ pc' = [pc EXCEPT ![t] = "drain"]
          /\ UNCHANGED <<prio, cur, alive>>
      BY <2>5, <3>1 DEF DrainOne
    <3>3. /\ v \in Thread /\ pc[v] \in {"wait", "woken"}
          /\ \A u \in Thread : u # v => stat'[u] = stat[u]
      BY <3>1, <3>2, WakeFacts
    <3>4. /\ pc'[t] = "drain" /\ error'[v] = "RT_ERROR" /\ pc'[v] = pc[v]
          /\ \A u \in Thread : u # v /\ u # t => pc'[u] = pc[u] /\ error'[u] = error[u]
      BY <1>1, <3>2, <3>3
    <3> QED BY <3>2, <3>3, <3>4, StaysHigh DEF WokenByDetach
  <2> QED BY <1>3, <2>1, <2>2, <2>3, <2>4, <2>5 DEF InCall
<1>4. ASSUME NEW t \in Thread, Call(t) PROVE HighInv'
  <2>1. CASE Sleep(t) /\ UNCHANGED semVars
    BY <1>1, <2>1, WillSchedule DEF Sleep
  <2>2. CASE TakeNow(t)
    BY <2>2, StaysHigh DEF TakeNow, threadVars
  <2>3. CASE Release(t)
    <3>1. CASE waiters # <<>>
      BY <1>1, <2>3, <3>1, WillSchedule DEF Release
    <3>2. CASE waiters = <<>>
      BY <1>1, <2>3, <3>2, StaysHigh DEF Release, Give
    <3> QED BY <3>1, <3>2
  <2>4. CASE Detach(t)
    <3>1. UNCHANGED <<stat, prio, cur, error, alive>>
      BY <2>4 DEF Detach, semVars
    <3>2. cur = t /\ pc[t] = "run" /\ pc'[t] = "drain" /\ \A u \in Thread : u # t => pc'[u] = pc[u]
      BY <1>1, <2>4 DEF Detach
    <3> QED BY <3>1, <3>2, StaysHigh
  <2>5. ASSUME NEW timed \in BOOLEAN, TakeWait(t, timed) PROVE HighInv'
    BY <1>1, <2>5, WillSchedule DEF TakeWait, Block
  <2>6. ASSUME NEW v \in ResetValues, Reset(t, v) PROVE HighInv'
    BY <1>1, <2>6, WillSchedule DEF Reset
  <2> QED BY <1>4, <2>1, <2>2, <2>3, <2>4, <2>5, <2>6 DEF Call
<1>5. ASSUME NEW t \in Thread, Timeout(t) PROVE HighInv'
  BY <1>5, DispatchedHigh DEF Timeout, TimeoutOf
<1>6. CASE ReleaseFromIsr
  <2>1. CASE waiters # <<>>
    BY <1>6, <2>1, DispatchedHigh DEF ReleaseFromIsr
  <2>2. CASE waiters = <<>>
    BY <1>6, <2>2, StaysHigh DEF ReleaseFromIsr, Give
  <2> QED BY <2>1, <2>2
<1>7. CASE SliceEnd /\ UNCHANGED semVars
  BY <1>7, DispatchedHigh DEF SliceEnd
<1> QED BY <1>2, <1>3, <1>4, <1>5, <1>6, <1>7, Zenon DEF Next

(* For any number of threads, in any mix of calls: application code never  *)
(* runs on a thread below a READY one, except for the threads that a       *)
(* rt_sem_detach left READY (ipc.c:245).                                   *)
THEOREM SemRunsHighest == Spec => []RunsHighest
<1>1. Init => HighInv
  <2>1. ASSUME Init PROVE HighInv
    <3>1. prio = BasePrio /\ cur \in Thread /\ \A u \in Thread : prio[cur] <= prio[u]
      BY <2>1 DEF Init, ThreadInit
    <3>2. \A u \in Thread : prio[u] \in Nat
      BY <3>1, IpcAssumption
    <3> QED BY <3>1, <3>2 DEF HighInv, Above
  <2> QED BY <2>1
<1>2. Inv /\ HighInv /\ [Next]_vars => HighInv'
  BY NextHigh
<1>3. HighInv => RunsHighest
  <2>1. ASSUME HighInv, cur \in Thread, pc[cur] = "run", NEW u \in Thread, Above(u)
        PROVE  LeftByDetach(u)
    <3>1. pc[cur] \in Steady /\ pc[cur] \notin Detaching
      BY <2>1 DEF Steady, Detaching
    <3>2. WokenByDetach(u) /\ (alive => pc[cur] \in Detaching)
      BY <2>1, <3>1 DEF HighInv, Exempt
    <3>3. ~ alive
      BY <3>1, <3>2
    <3> QED BY <3>2, <3>3 DEF LeftByDetach, WokenByDetach
  <2> QED BY <2>1 DEF RunsHighest, Above
<1> QED BY <1>1, <1>2, <1>3, Invariance, PTL DEF Spec
=============================================================================
