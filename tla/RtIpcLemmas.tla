---------------------------- MODULE RtIpcLemmas -----------------------------
(* Facts about the wait lists of RtIpc that the proofs of every IPC object *)
(* use.                                                                    *)
EXTENDS RtIpc, RtListLemmas, FiniteSetTheorems

(* A list without duplicates is no longer than the set it draws from, and  *)
(* holds all of it if it is as long.                                       *)
LEMMA NoLongerThanSet ==
  ASSUME NEW S, IsFiniteSet(S), NEW q \in Seq(S), NoDuplicates(q)
  PROVE  /\ Len(q) <= Cardinality(S)
         /\ Len(q) = Cardinality(S) => \A x \in S : Occurs(q, x)
<1>1. q \in Injection(1 .. Len(q), S)
  <2>1. q \in [1 .. Len(q) -> S]
    OBVIOUS
  <2>2. PICK n \in Nat : n = Len(q)
    OBVIOUS
  <2>3. \A a, b \in 1 .. n : q[a] = q[b] => a = b
    BY <2>2 DEF NoDuplicates
  <2>4. q \in Injection(1 .. n, S)
    BY <2>1, <2>2, <2>3 DEF Injection, IsInjective
  <2> QED BY <2>2, <2>4
<1>2. Len(q) \in Nat /\ Cardinality(1 .. Len(q)) = Len(q)
  <2>1. PICK n \in Nat : n = Len(q)
    OBVIOUS
  <2>2. Cardinality(1 .. n) = IF 1 > n THEN 0 ELSE n - 1 + 1
    BY FS_Interval
  <2>3. Cardinality(1 .. n) = n
    BY <2>2
  <2> QED BY <2>1, <2>3
<1>3. /\ Cardinality(1 .. Len(q)) <= Cardinality(S)
      /\ Cardinality(1 .. Len(q)) = Cardinality(S) <=> q \in Surjection(1 .. Len(q), S)
  BY <1>1, FS_Injection
<1>4. q \in Surjection(1 .. Len(q), S) => \A x \in S : Occurs(q, x)
  BY DEF Surjection, Occurs
<1> QED BY <1>2, <1>3, <1>4

(* rt_ipc_list_suspend always finds a place, within the list or at its     *)
(* head, and it is the one between the waiters that are not less urgent    *)
(* than the new one and the first that is.                                 *)
LEMMA PlaceFacts ==
  ASSUME NEW q \in Seq(Thread), NEW t \in Thread, NEW pr \in [Thread -> Nat]
  PROVE  LET p == PlaceByPriority(q, t, pr) IN
         /\ p \in 1 .. Len(q) + 1
         /\ \A i \in 1 .. Len(q) : i < p => pr[q[i]] <= pr[t]
         /\ p <= Len(q) => pr[t] < pr[q[p]]
<1> DEFINE lower == {i \in 1 .. Len(q) : pr[t] < pr[q[i]]}
<1>0. \A i \in 1 .. Len(q) : q[i] \in Thread /\ pr[q[i]] \in Nat
  OBVIOUS
<1>1. CASE lower = {}
  <2>1. PlaceByPriority(q, t, pr) = Len(q) + 1
    BY <1>1 DEF PlaceByPriority
  <2>2. \A i \in 1 .. Len(q) : pr[q[i]] <= pr[t]
    BY <1>0, <1>1
  <2> QED BY <2>1, <2>2
<1>2. CASE lower # {}
  <2>1. lower \in SUBSET Nat
    OBVIOUS
  <2>2. \E i \in lower : \A j \in lower : i <= j
    <3> HIDE DEF lower
    <3> QED BY <1>2, <2>1, LeastNatural
  <2>3. /\ PlaceByPriority(q, t, pr) \in lower
        /\ \A j \in lower : PlaceByPriority(q, t, pr) <= j
    BY <1>2, <2>2 DEF PlaceByPriority
  <2> HIDE DEF PlaceByPriority
  <2>4. \A i \in 1 .. Len(q) : i < PlaceByPriority(q, t, pr) => i \notin lower
    BY <2>3
  <2> QED BY <1>0, <2>3, <2>4
<1> QED BY <1>1, <1>2

(* A thread that blocks is put into the wait list, once, and nobody else   *)
(* is moved out of it.                                                     *)
LEMMA EnqueuedFacts ==
  ASSUME NEW q \in Seq(Thread), NEW t \in Thread, prio \in [Thread -> Nat],
         NoDuplicates(q), ~ Occurs(q, t)
  PROVE  /\ Enqueued(q, t) \in Seq(Thread)
         /\ NoDuplicates(Enqueued(q, t))
         /\ \A x : Occurs(Enqueued(q, t), x) <=> x = t \/ Occurs(q, x)
<1>1. PlaceByPriority(q, t, prio) \in 1 .. Len(q) + 1
  BY PlaceFacts
<1>2. Len(q) + 1 \in 1 .. Len(q) + 1
  OBVIOUS
<1>3. \E p \in 1 .. Len(q) + 1 : Enqueued(q, t) = ListInsertBefore(q, p, t)
  BY <1>1, <1>2 DEF Enqueued, ListAddTail
<1>4. PICK p \in 1 .. Len(q) + 1 : Enqueued(q, t) = ListInsertBefore(q, p, t)
  BY <1>3
<1>5. /\ ListInsertBefore(q, p, t) \in Seq(Thread)
      /\ \A x : Occurs(ListInsertBefore(q, p, t), x) <=> x = t \/ Occurs(q, x)
  BY InsertFacts
<1>6. NoDuplicates(ListInsertBefore(q, p, t))
  BY InsertNoDuplicates
<1> QED BY <1>4, <1>5, <1>6

(* ... and a list that is in priority order stays so, also when a thread   *)
(* is taken out, at its head or anywhere.                                  *)
NotBelow == {x \in Thread \X Thread : prio[x[1]] <= prio[x[2]]}

LEMMA SortedAs ==
  ASSUME NEW q \in Seq(Thread)
  PROVE  SortedByPriority(q) <=> (ByPriority => SortedIn(q, NotBelow))
<1>1. ASSUME NEW i \in 1 .. Len(q), NEW j \in 1 .. Len(q)
      PROVE  <<q[i], q[j]>> \in NotBelow <=> prio[q[i]] <= prio[q[j]]
  <2>1. q[i] \in Thread /\ q[j] \in Thread
    OBVIOUS
  <2> QED BY <2>1 DEF NotBelow
<1> QED BY <1>1 DEF SortedByPriority, SortedIn

LEMMA EnqueuedSorted ==
  ASSUME NEW q \in Seq(Thread), NEW t \in Thread, prio \in [Thread -> Nat],
         SortedByPriority(q)
  PROVE  SortedByPriority(Enqueued(q, t))
<1> SUFFICES ASSUME ByPriority PROVE SortedByPriority(Enqueued(q, t))
  BY DEF SortedByPriority
<1> DEFINE p == PlaceByPriority(q, t, prio)
<1>1. /\ p \in 1 .. Len(q) + 1
      /\ \A i \in 1 .. Len(q) : i < p => prio[q[i]] <= prio[t]
      /\ p <= Len(q) => prio[t] < prio[q[p]]
  BY PlaceFacts
<1>2. \A i \in 1 .. Len(q) : q[i] \in Thread /\ prio[q[i]] \in Nat /\ prio[t] \in Nat
  OBVIOUS
<1>3. SortedIn(q, NotBelow)
  BY SortedAs
<1>4. Enqueued(q, t) = ListInsertBefore(q, p, t)
  BY DEF Enqueued
<1> HIDE DEF p
<1>5. \A i \in 1 .. Len(q) : i < p => <<q[i], t>> \in NotBelow
  BY <1>1, <1>2 DEF NotBelow
<1>6. ASSUME NEW i \in 1 .. Len(q), p <= i PROVE <<t, q[i]>> \in NotBelow
  <2>1. p \in 1 .. Len(q) /\ prio[t] < prio[q[p]]
    BY <1>1, <1>6
  <2>2. prio[q[p]] <= prio[q[i]]
    <3>1. CASE p = i
      BY <1>2, <3>1
    <3>2. CASE p < i
      <4>1. <<q[p], q[i]>> \in NotBelow
        BY <1>3, <2>1, <3>2 DEF SortedIn
      <4> QED BY <4>1 DEF NotBelow
    <3> QED BY <1>1, <1>6, <3>1, <3>2
  <2> QED BY <1>2, <2>1, <2>2 DEF NotBelow
<1>7. SortedIn(ListInsertBefore(q, p, t), NotBelow)
  BY <1>1, <1>3, <1>5, <1>6, InsertSortedIn
<1>8. ListInsertBefore(q, p, t) \in Seq(Thread)
  BY <1>1, InsertFacts
<1> QED BY <1>4, <1>7, <1>8, SortedAs

LEMMA TailSorted ==
  ASSUME NEW q \in Seq(Thread), q # <<>>, SortedByPriority(q)
  PROVE  SortedByPriority(Tail(q))
<1>1. Tail(q) \in Seq(Thread)
  OBVIOUS
<1> QED BY <1>1, SortedAs, TailSortedIn

LEMMA RemoveSorted ==
  ASSUME NEW q \in Seq(Thread), NEW t, NoDuplicates(q), SortedByPriority(q)
  PROVE  SortedByPriority(ListRemove(q, t))
<1>1. ListRemove(q, t) \in Seq(Thread)
  BY RemoveFacts
<1> QED BY <1>1, SortedAs, RemoveSortedIn

(* rt_schedule() leaves a READY thread or tidle in rt_current_thread.      *)
LEMMA DispatchFacts ==
  ASSUME Dispatch
  PROVE  cur' \in Thread \union {Idle} /\ (cur' \in Thread => stat'[cur'] = "ready")
BY IpcAssumption DEF Dispatch, Highest, ReadyIn
----------------------------------------------------------------------------
(* What every call of an IPC object keeps true of the threads: a timer     *)
(* runs only for a suspended thread, the error number of a suspended       *)
(* thread is RT_EOK until it is woken, and the current thread is READY but *)
(* at the places `entering', between its suspension and rt_schedule().     *)
Coherent(entering) ==
  /\ \A t \in armed : stat[t] = "suspend"
  /\ \A t \in Thread : stat[t] = "suspend" => error[t] = "RT_EOK"
  /\ cur \in Thread /\ pc[cur] \notin entering => stat[cur] = "ready"

(* The threads woken without an error at one of some places.               *)
Comes(t, places) == pc[t] \in places /\ stat[t] = "ready" /\ error[t] = "RT_EOK"
Coming(places) == {t \in Thread : Comes(t, places)}

LEMMA ComingFinite ==
  ASSUME NEW places
  PROVE  IsFiniteSet(Coming(places)) /\ Cardinality(Coming(places)) \in Nat
<1>1. Coming(places) \subseteq Thread
  BY DEF Coming
<1> QED BY <1>1, IpcAssumption, FS_Subset, FS_CardinalityType

LEMMA ComingFiniteNext ==
  ASSUME NEW places
  PROVE  Cardinality(Coming(places)') \in Nat
<1>1. Coming(places)' \subseteq Thread
  BY DEF Coming
<1> QED BY <1>1, IpcAssumption, FS_Subset, FS_CardinalityType

LEMMA SameComing ==
  ASSUME NEW places, \A t \in Thread : Comes(t, places)' <=> Comes(t, places)
  PROVE  Coming(places)' = Coming(places)
BY DEF Coming

LEMMA OneMoreComing ==
  ASSUME NEW places, NEW u \in Thread, ~ Comes(u, places), Comes(u, places)',
         \A t \in Thread : t # u => (Comes(t, places)' <=> Comes(t, places))
  PROVE  Cardinality(Coming(places)') = Cardinality(Coming(places)) + 1
<1>1. Coming(places)' = Coming(places) \union {u} /\ u \notin Coming(places)
  BY DEF Coming
<1> QED BY <1>1, ComingFinite, FS_AddElement

LEMMA OneLessComing ==
  ASSUME NEW places, NEW u \in Thread, Comes(u, places), ~ Comes(u, places)',
         \A t \in Thread : t # u => (Comes(t, places)' <=> Comes(t, places))
  PROVE  Cardinality(Coming(places)') = Cardinality(Coming(places)) - 1
<1>1. Coming(places)' = Coming(places) \ {u} /\ u \in Coming(places)
  BY DEF Coming
<1> QED BY <1>1, ComingFinite, FS_RemoveElement

(* The effects that the steps of RtIpc have on the threads.                *)

(* rt_schedule() at the end of a call.                                     *)
LEMMA RescheduleFacts ==
  ASSUME NEW places, NEW entering, ThreadTypeOK(places), Coherent(entering),
         NEW t \in Thread, NEW from, NEW to \in places, Reschedule(t, from, to)
  PROVE  /\ ThreadTypeOK(places)' /\ Coherent(entering)'
         /\ UNCHANGED <<stat, prio, armed, error>>
         /\ pc[t] = from /\ pc'[t] = to /\ \A u \in Thread : u # t => pc'[u] = pc[u]
<1>1. /\ UNCHANGED <<stat, prio, armed, error>> /\ Dispatch
      /\ pc' \in [Thread -> places]
      /\ pc[t] = from /\ pc'[t] = to /\ \A u \in Thread : u # t => pc'[u] = pc[u]
  BY DEF Reschedule, At, Goto, ThreadTypeOK
<1>2. cur' \in Thread \union {Idle} /\ (cur' \in Thread => stat'[cur'] = "ready")
  BY <1>1, DispatchFacts
<1> QED BY <1>1, <1>2 DEF ThreadTypeOK, Coherent

(* The running thread goes on and touches no thread but itself.            *)
LEMMA RunnerFacts ==
  ASSUME NEW places, NEW entering, ThreadTypeOK(places), Coherent(entering),
         NEW t \in Thread, NEW to \in places, cur = t, pc[t] \notin entering, Goto(t, to),
         UNCHANGED <<stat, prio, cur, armed>>, error' \in [Thread -> Errors],
         \A u \in Thread : u # t => error'[u] = error[u]
  PROVE  /\ ThreadTypeOK(places)' /\ Coherent(entering)'
         /\ stat[t] = "ready"
         /\ pc'[t] = to /\ \A u \in Thread : u # t => pc'[u] = pc[u]
<1>1. /\ pc' \in [Thread -> places]
      /\ pc'[t] = to /\ \A u \in Thread : u # t => pc'[u] = pc[u]
  BY DEF Goto, ThreadTypeOK
<1>2. stat[t] = "ready"
  BY DEF Coherent
<1> QED BY <1>1, <1>2 DEF ThreadTypeOK, Coherent

(* It blocks.                                                              *)
LEMMA BlockFacts ==
  ASSUME NEW places, NEW entering, ThreadTypeOK(places), Coherent(entering),
         NEW t \in Thread, NEW to \in places \intersect entering, NEW timed \in BOOLEAN,
         cur = t, pc[t] \notin entering, Block(t, timed, to), UNCHANGED <<prio, cur>>
  PROVE  /\ ThreadTypeOK(places)' /\ Coherent(entering)'
         /\ stat[t] = "ready" /\ stat'[t] = "suspend"
         /\ pc'[t] = to
         /\ \A u \in Thread : u # t =>
              pc'[u] = pc[u] /\ stat'[u] = stat[u] /\ error'[u] = error[u]
<1>1. /\ pc' \in [Thread -> places] /\ error' \in [Thread -> Errors]
      /\ stat' \in [Thread -> {"ready", "suspend"}] /\ armed' \subseteq armed \union {t}
      /\ armed' \subseteq Thread
      /\ pc'[t] = to /\ error'[t] = "RT_EOK" /\ stat'[t] = "suspend"
      /\ \A u \in Thread : u # t =>
           pc'[u] = pc[u] /\ stat'[u] = stat[u] /\ error'[u] = error[u]
  BY DEF Block, Goto, ThreadTypeOK, Errors
<1>2. stat[t] = "ready"
  BY DEF Coherent
<1>3. \A u \in armed' : stat'[u] = "suspend"
  BY <1>1 DEF Coherent, ThreadTypeOK
<1> QED BY <1>1, <1>2, <1>3 DEF ThreadTypeOK, Coherent

(* The first thread of a wait list is woken.                               *)
LEMMA WakeFirstFacts ==
  ASSUME NEW places, NEW entering, ThreadTypeOK(places), Coherent(entering),
         NEW q \in Seq(Thread), q # <<>>, NoDuplicates(q),
         \A t \in Thread : Occurs(q, t) => stat[t] = "suspend",
         NEW u, u = Head(q), Wake(u)
  PROVE  /\ u \in Thread /\ Occurs(q, u)
         /\ stat[u] = "suspend" /\ error[u] = "RT_EOK" /\ stat'[u] = "ready"
         /\ stat' \in [Thread -> {"ready", "suspend"}]
         /\ \A t \in Thread : t # u => stat'[t] = stat[t]
         /\ armed' \subseteq armed /\ u \notin armed'
         /\ \A t \in armed' : stat'[t] = "suspend"
         /\ Tail(q) \in Seq(Thread) /\ NoDuplicates(Tail(q))
         /\ \A x : Occurs(Tail(q), x) <=> Occurs(q, x) /\ x # u
<1>1. /\ u \in Thread /\ Occurs(q, u) /\ Tail(q) \in Seq(Thread) /\ NoDuplicates(Tail(q))
      /\ \A x : Occurs(Tail(q), x) <=> Occurs(q, x) /\ x # u
  BY TailFacts
<1>2. /\ stat' \in [Thread -> {"ready", "suspend"}] /\ stat'[u] = "ready"
      /\ \A t \in Thread : t # u => stat'[t] = stat[t]
      /\ armed' \subseteq armed /\ u \notin armed'
  BY <1>1 DEF Wake, ThreadTypeOK
<1>3. stat[u] = "suspend" /\ error[u] = "RT_EOK"
  BY <1>1 DEF Coherent
<1>4. \A t \in armed' : stat'[t] = "suspend"
  BY <1>2 DEF Coherent, ThreadTypeOK
<1> QED BY <1>1, <1>2, <1>3, <1>4

(* All of a wait list, or of two, are woken with an error.                 *)
LEMMA WakeAllFacts ==
  ASSUME NEW places, NEW entering, ThreadTypeOK(places), Coherent(entering),
         NEW q, WakeAll(q)
  PROVE  /\ stat' \in [Thread -> {"ready", "suspend"}] /\ error' \in [Thread -> Errors]
         /\ \A t \in Thread :
              /\ stat'[t] = IF Occurs(q, t) THEN "ready" ELSE stat[t]
              /\ error'[t] = IF Occurs(q, t) THEN "RT_ERROR" ELSE error[t]
         /\ armed' \subseteq Thread /\ \A t \in armed' : stat'[t] = "suspend"
<1>1. /\ stat' \in [Thread -> {"ready", "suspend"}] /\ error' \in [Thread -> Errors]
      /\ \A t \in Thread :
           /\ stat'[t] = IF Occurs(q, t) THEN "ready" ELSE stat[t]
           /\ error'[t] = IF Occurs(q, t) THEN "RT_ERROR" ELSE error[t]
      /\ armed' \subseteq Thread /\ \A t \in armed' : t \in armed /\ ~ Occurs(q, t)
  BY DEF WakeAll, ThreadTypeOK, Errors
<1> QED BY <1>1 DEF Coherent

LEMMA ConcatOccurs ==
  ASSUME NEW p \in Seq(Thread), NEW q \in Seq(Thread)
  PROVE  \A x : Occurs(p \o q, x) <=> Occurs(p, x) \/ Occurs(q, x)
<1> TAKE x
<1>1. ASSUME Occurs(p \o q, x) PROVE Occurs(p, x) \/ Occurs(q, x)
  <2>1. PICK i \in 1 .. Len(p) + Len(q) : (p \o q)[i] = x
    BY <1>1 DEF Occurs
  <2>2. CASE i <= Len(p)
    BY <2>1, <2>2 DEF Occurs
  <2>3. CASE i > Len(p)
    <3>1. i - Len(p) \in 1 .. Len(q) /\ q[i - Len(p)] = x
      BY <2>1, <2>3
    <3> QED BY <3>1 DEF Occurs
  <2> QED BY <2>1, <2>2, <2>3
<1>2. ASSUME Occurs(p, x) PROVE Occurs(p \o q, x)
  <2>1. PICK i \in 1 .. Len(p) : p[i] = x
    BY <1>2 DEF Occurs
  <2>2. i \in 1 .. Len(p \o q) /\ (p \o q)[i] = x
    BY <2>1
  <2> QED BY <2>2 DEF Occurs
<1>3. ASSUME Occurs(q, x) PROVE Occurs(p \o q, x)
  <2>1. PICK i \in 1 .. Len(q) : q[i] = x
    BY <1>3 DEF Occurs
  <2>2. i + Len(p) \in 1 .. Len(p \o q) /\ (p \o q)[i + Len(p)] = x
    BY <2>1
  <2> QED BY <2>2 DEF Occurs
<1> QED BY <1>1, <1>2, <1>3

(* A timer of a thread expires.                                            *)
LEMMA TimeoutFacts ==
  ASSUME NEW places, NEW entering, ThreadTypeOK(places), Coherent(entering),
         NEW u \in Thread, TimeoutOf(u)
  PROVE  /\ ThreadTypeOK(places)' /\ Coherent(entering)' /\ UNCHANGED <<prio, pc>>
         /\ stat[u] = "suspend" /\ stat'[u] = "ready" /\ error'[u] = "RT_ETIMEOUT"
         /\ \A t \in Thread : t # u => stat'[t] = stat[t] /\ error'[t] = error[t]
<1>1. /\ stat' \in [Thread -> {"ready", "suspend"}] /\ error' \in [Thread -> Errors]
      /\ stat'[u] = "ready" /\ error'[u] = "RT_ETIMEOUT" /\ stat[u] = "suspend"
      /\ \A t \in Thread : t # u => stat'[t] = stat[t] /\ error'[t] = error[t]
      /\ armed' = armed \ {u} /\ UNCHANGED <<prio, pc>> /\ Dispatch
  BY DEF TimeoutOf, ThreadTypeOK, Errors, Coherent
<1>2. cur' \in Thread \union {Idle} /\ (cur' \in Thread => stat'[cur'] = "ready")
  BY <1>1, DispatchFacts
<1> QED BY <1>1, <1>2 DEF ThreadTypeOK, Coherent

(* A time slice ends.                                                      *)
LEMMA SliceFacts ==
  ASSUME NEW places, NEW entering, ThreadTypeOK(places), Coherent(entering), SliceEnd
  PROVE  /\ ThreadTypeOK(places)' /\ Coherent(entering)'
         /\ UNCHANGED <<stat, prio, armed, error, pc>>
<1>1. cur' \in Thread \union {Idle} /\ (cur' \in Thread => stat'[cur'] = "ready")
  BY DispatchFacts DEF SliceEnd
<1> QED BY <1>1 DEF SliceEnd, ThreadTypeOK, Coherent

(* A wait list holds the threads that are blocked at its places.           *)
WaitsAt(q, places) ==
  /\ q \in Seq(Thread) /\ NoDuplicates(q)
  /\ \A t \in Thread : Occurs(q, t) <=> stat[t] = "suspend" /\ pc[t] \in places

WakeOne(q, r) ==
  IF q # <<>> THEN Wake(Head(q)) /\ r = Tail(q) ELSE UNCHANGED <<stat, armed>> /\ r = q

(* The end of a call that has something for a waiter: the first one, if    *)
(* there is one, is woken and comes for it; nobody else is moved.          *)
LEMMA WakeOneFacts ==
  ASSUME NEW places, NEW entering, ThreadTypeOK(places), Coherent(entering),
         NEW q, NEW S, WaitsAt(q, S), NEW r, WakeOne(q, r),
         UNCHANGED error, \A t \in Thread : pc'[t] \in S <=> pc[t] \in S
  PROVE  /\ stat' \in [Thread -> {"ready", "suspend"}]
         /\ armed' \subseteq Thread /\ \A t \in armed' : stat'[t] = "suspend"
         /\ \A t \in Thread : stat'[t] # stat[t] => pc[t] \in S
         /\ \A t \in Thread : stat[t] = "ready" => stat'[t] = "ready"
         /\ r \in Seq(Thread) /\ NoDuplicates(r)
         /\ \A t \in Thread : Occurs(r, t) <=> stat'[t] = "suspend" /\ pc'[t] \in S
         /\ Cardinality(Coming(S)')
              = IF q # <<>> THEN Cardinality(Coming(S)) + 1 ELSE Cardinality(Coming(S))
<1> USE DEF WaitsAt
<1>1. CASE q # <<>>
  <2>1. PICK u : u = Head(q)
    OBVIOUS
  <2>2. Wake(u) /\ r = Tail(q)
    BY <1>1, <2>1 DEF WakeOne
  <2>3. /\ u \in Thread /\ Occurs(q, u)
        /\ stat[u] = "suspend" /\ error[u] = "RT_EOK" /\ stat'[u] = "ready"
        /\ stat' \in [Thread -> {"ready", "suspend"}]
        /\ \A t \in Thread : t # u => stat'[t] = stat[t]
        /\ armed' \subseteq armed /\ u \notin armed'
        /\ \A t \in armed' : stat'[t] = "suspend"
        /\ r \in Seq(Thread) /\ NoDuplicates(r)
        /\ \A x : Occurs(r, x) <=> Occurs(q, x) /\ x # u
    BY <1>1, <2>1, <2>2, WakeFirstFacts
  <2>4. pc[u] \in S
    BY <2>3
  <2>5. /\ ~ Comes(u, S) /\ Comes(u, S)'
        /\ \A t \in Thread : t # u => (Comes(t, S)' <=> Comes(t, S))
    BY <2>3, <2>4 DEF Comes
  <2>6. Cardinality(Coming(S)') = Cardinality(Coming(S)) + 1
    BY <2>3, <2>5, OneMoreComing
  <2>7. armed' \subseteq Thread
    BY <2>3 DEF ThreadTypeOK
  <2> QED BY <1>1, <2>3, <2>4, <2>6, <2>7
<1>2. CASE q = <<>>
  <2>1. UNCHANGED <<stat, armed>> /\ r = q
    BY <1>2 DEF WakeOne
  <2>2. Coming(S)' = Coming(S)
    BY <2>1, SameComing DEF Comes
  <2> QED BY <1>2, <2>1, <2>2 DEF ThreadTypeOK, Coherent
<1> QED BY <1>1, <1>2
=============================================================================
