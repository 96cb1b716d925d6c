---------------------------- MODULE RtSchedProofs ----------------------------
(***************************************************************************)
(* The scheduler's invariants for any number of threads and priorities,    *)
(* any nesting limit and any set of managing threads, provided that calls  *)
(* about one thread are serialised (Serialised).                           *)
(*                                                                         *)
(* The first part says what removing and inserting a thread do to ready    *)
(* lists and bitmap, and which thread rt_schedule() picks from them.  The  *)
(* second is the inductive invariant.  ListsMatchStates is not inductive:  *)
(* it needs what holds of a thread while another one is in the middle of   *)
(* a call about it (Calls), of the current thread (Current), and that no   *)
(* timer runs for a thread that is not suspended.                          *)
(***************************************************************************)
EXTENDS RtSched, RtListLemmas, WellFoundedInduction

(* Lists r, bitmap g, states s and priorities pr agree.                    *)
GoodLists(r, g, s, pr) ==
  /\ r \in [Prio -> Seq(Thread)]
  /\ g \subseteq Prio
  /\ \A p \in Prio : p \in g <=> r[p] # <<>>
  /\ \A p \in Prio : NoDuplicates(r[p])
  /\ \A p \in Prio : \A x \in Thread : Occurs(r[p], x) => s[x] = "ready" /\ pr[x] = p

In(r, x) == \E p \in Prio : Occurs(r[p], x)

LEMMA Constants ==
  /\ Idle \in Thread /\ NoThread \notin Thread /\ Prio \subseteq Nat
  /\ InitPrio \in [Thread -> Prio] /\ InitTick \in [Thread -> Nat \ {0}]
  /\ Managers \subseteq Thread /\ NewPrio \subseteq Prio
  BY SchedAssumption DEF Prio

(* rt_schedule_remove_thread leaves the other threads linked as they were. *)
LEMMA UnlinkedFacts ==
  ASSUME NEW r \in [Prio -> Seq(Thread)], \A p \in Prio : NoDuplicates(r[p]),
         NEW u \in Thread
  PROVE  /\ Unlinked(r, u) \in [Prio -> Seq(Thread)]
         /\ \A p \in Prio : NoDuplicates(Unlinked(r, u)[p])
         /\ \A p \in Prio : \A x \in Thread :
              Occurs(Unlinked(r, u)[p], x) <=> Occurs(r[p], x) /\ x # u
<1>1. ASSUME NEW p \in Prio
      PROVE  /\ ListRemove(r[p], u) \in Seq(Thread) /\ NoDuplicates(ListRemove(r[p], u))
             /\ \A x \in Thread : Occurs(ListRemove(r[p], u), x) <=> Occurs(r[p], x) /\ x # u
  <2>1. r[p] \in Seq(Thread) /\ NoDuplicates(r[p])
    OBVIOUS
  <2> QED BY <2>1, RemoveFacts
<1>2. \A p \in Prio : Unlinked(r, u)[p] = ListRemove(r[p], u)
  BY DEF Unlinked
<1>3. Unlinked(r, u) \in [Prio -> Seq(Thread)]
  BY <1>1 DEF Unlinked
<1> QED BY <1>1, <1>2, <1>3

LEMMA NotEmptyFacts ==
  ASSUME NEW q \in Seq(Thread)
  PROVE  q # <<>> <=> \E x \in Thread : Occurs(q, x)
  BY EmptyFacts

LEMMA RemoveGood ==
  ASSUME NEW r, NEW g, NEW s, NEW pr, GoodLists(r, g, s, pr), NEW u \in Thread,
         NEW s2, NEW pr2, \A x \in Thread \ {u} : s2[x] = s[x] /\ pr2[x] = pr[x]
  PROVE  /\ GoodLists(Unlinked(r, u), RemovedGroup(Unlinked(r, u), g, pr[u]), s2, pr2)
         /\ \A x \in Thread : In(Unlinked(r, u), x) <=> In(r, x) /\ x # u
<1> DEFINE n == Unlinked(r, u)
           h == RemovedGroup(n, g, pr[u])
<1>1. /\ n \in [Prio -> Seq(Thread)] /\ \A p \in Prio : NoDuplicates(n[p])
      /\ \A p \in Prio : \A x \in Thread : Occurs(n[p], x) <=> Occurs(r[p], x) /\ x # u
  BY UnlinkedFacts DEF GoodLists
<1> HIDE DEF n
<1>2. h \subseteq Prio /\ \A p \in Prio : p \in h <=> n[p] # <<>>
  <2>1. ASSUME NEW p \in Prio, p # pr[u] PROVE n[p] # <<>> <=> r[p] # <<>>
    <3>1. \A x \in Thread : Occurs(n[p], x) <=> Occurs(r[p], x)
      BY <1>1, <2>1 DEF GoodLists
    <3>2. n[p] \in Seq(Thread) /\ r[p] \in Seq(Thread)
      BY <1>1 DEF GoodLists
    <3> QED BY <3>1, <3>2, NotEmptyFacts
  <2>2. ASSUME NEW p \in Prio, n[p] # <<>> PROVE r[p] # <<>>
    <3>1. n[p] \in Seq(Thread) /\ r[p] \in Seq(Thread)
      BY <1>1 DEF GoodLists
    <3>2. PICK x \in Thread : Occurs(n[p], x)
      BY <2>2, <3>1, NotEmptyFacts
    <3> QED BY <1>1, <3>1, <3>2, NotEmptyFacts
  <2> QED BY <2>1, <2>2 DEF GoodLists, RemovedGroup
<1>3. GoodLists(n, h, s2, pr2)
  <2>1. \A p \in Prio : \A x \in Thread : Occurs(n[p], x) => s2[x] = "ready" /\ pr2[x] = p
    BY <1>1 DEF GoodLists
  <2> QED BY <1>1, <1>2, <2>1 DEF GoodLists
<1>4. \A x \in Thread : In(n, x) <=> In(r, x) /\ x # u
  BY <1>1 DEF In
<1> QED BY <1>3, <1>4 DEF n

(* Removing a thread that is in no list changes nothing.                   *)
LEMMA RemoveAbsent ==
  ASSUME NEW r \in [Prio -> Seq(Thread)], NEW u, ~ In(r, u)
  PROVE  Unlinked(r, u) = r
<1>1. \A p \in Prio : ListRemove(r[p], u) = r[p]
  BY DEF In, ListRemove
<1> QED BY <1>1 DEF Unlinked

(* rt_schedule_insert_thread on a thread that is in no list.               *)
LEMMA InsertGood ==
  ASSUME NEW r, NEW g, NEW s, NEW pr, GoodLists(r, g, s, pr), NEW u \in Thread,
         ~ In(r, u), NEW q \in Prio, NEW s2, NEW pr2,
         \A x \in Thread \ {u} : s2[x] = s[x] /\ pr2[x] = pr[x],
         s2[u] = "ready", pr2[u] = q
  PROVE  /\ GoodLists(Inserted(r, u, q), g \union {q}, s2, pr2)
         /\ \A x \in Thread : In(Inserted(r, u, q), x) <=> In(r, x) \/ x = u
<1> DEFINE n == Inserted(r, u, q)
<1>1. /\ ListAddTail(r[q], u) \in Seq(Thread) /\ NoDuplicates(ListAddTail(r[q], u))
      /\ \A x : Occurs(ListAddTail(r[q], u), x) <=> x = u \/ Occurs(r[q], x)
  <2>1. r[q] \in Seq(Thread) /\ NoDuplicates(r[q]) /\ ~ Occurs(r[q], u)
    BY DEF GoodLists, In
  <2>2. Len(r[q]) + 1 \in 1 .. Len(r[q]) + 1
    BY <2>1
  <2> QED BY <2>1, <2>2, InsertFacts, InsertNoDuplicates DEF ListAddTail
<1>2. /\ n \in [Prio -> Seq(Thread)]
      /\ \A p \in Prio : n[p] = IF p = q THEN ListAddTail(r[q], u) ELSE r[p]
  BY <1>1 DEF GoodLists, Inserted
<1> HIDE DEF n
<1>3. \A p \in Prio : NoDuplicates(n[p])
  BY <1>1, <1>2 DEF GoodLists
<1>4. \A p \in Prio : \A x \in Thread : Occurs(n[p], x) <=> Occurs(r[p], x) \/ (p = q /\ x = u)
  BY <1>1, <1>2
<1>5. \A p \in Prio : p \in g \union {q} <=> n[p] # <<>>
  <2>1. n[q] # <<>>
    BY <1>2, <1>4, NotEmptyFacts
  <2> QED BY <1>2, <2>1 DEF GoodLists
<1>6. \A p \in Prio : \A x \in Thread : Occurs(n[p], x) => s2[x] = "ready" /\ pr2[x] = p
  BY <1>4 DEF GoodLists, In
<1>7. GoodLists(n, g \union {q}, s2, pr2)
  BY <1>2, <1>3, <1>5, <1>6 DEF GoodLists
<1>8. \A x \in Thread : In(n, x) <=> In(r, x) \/ x = u
  BY <1>4 DEF In
<1> QED BY <1>7, <1>8 DEF n

(* A thread taken out and put at the tail of the list of a priority.       *)
LEMMA MoveGood ==
  ASSUME NEW r, NEW g, NEW s, NEW pr, GoodLists(r, g, s, pr), NEW u \in Thread,
         NEW q \in Prio, NEW s2, NEW pr2,
         \A x \in Thread \ {u} : s2[x] = s[x] /\ pr2[x] = pr[x],
         s2[u] = "ready", pr2[u] = q
  PROVE  /\ GoodLists(Inserted(Unlinked(r, u), u, q),
                      RemovedGroup(Unlinked(r, u), g, pr[u]) \union {q}, s2, pr2)
         /\ \A x \in Thread : In(Inserted(Unlinked(r, u), u, q), x) <=> In(r, x) \/ x = u
<1> DEFINE n == Unlinked(r, u)
           h == RemovedGroup(n, g, pr[u])
<1>1. GoodLists(n, h, s2, pr2) /\ \A x \in Thread : In(n, x) <=> In(r, x) /\ x # u
  BY RemoveGood
<1> HIDE DEF n, h
<1>2. /\ GoodLists(Inserted(n, u, q), h \union {q}, s2, pr2)
      /\ \A x \in Thread : In(Inserted(n, u, q), x) <=> In(n, x) \/ x = u
  BY <1>1, InsertGood
<1> QED BY <1>1, <1>2 DEF n, h

(* rt_thread_yield: the thread goes to the tail of its list.               *)
LEMMA RotatedGood ==
  ASSUME NEW r, NEW g, NEW s, NEW pr, GoodLists(r, g, s, pr), NEW u \in Thread,
         pr[u] \in Prio, Occurs(r[pr[u]], u)
  PROVE  /\ GoodLists(Inserted(Unlinked(r, u), u, pr[u]), g, s, pr)
         /\ \A x \in Thread : In(Inserted(Unlinked(r, u), u, pr[u]), x) <=> In(r, x)
<1>1. PICK q \in Prio : q = pr[u]
  OBVIOUS
<1>2. s[u] = "ready" /\ q \in g /\ In(r, u)
  <2>1. r[q] # <<>>
    BY <1>1, NotEmptyFacts DEF GoodLists
  <2> QED BY <1>1, <2>1 DEF GoodLists, In
<1>3. /\ GoodLists(Inserted(Unlinked(r, u), u, q),
                   RemovedGroup(Unlinked(r, u), g, pr[u]) \union {q}, s, pr)
      /\ \A x \in Thread : In(Inserted(Unlinked(r, u), u, q), x) <=> In(r, x) \/ x = u
  BY <1>1, <1>2, MoveGood
<1>4. RemovedGroup(Unlinked(r, u), g, pr[u]) \union {q} = g
  BY <1>1, <1>2 DEF RemovedGroup
<1> QED BY <1>1, <1>2, <1>3, <1>4

(* Every set of priorities that is not empty has a highest one.            *)
Less == {ss \in Nat \X Nat : ss[1] < ss[2]}

LEMMA LessWellFounded == IsWellFoundedOn(Less, Nat)
  BY NatLessThanWellFounded DEF OpToRel, Less

LEMMA TopFacts ==
  ASSUME NEW g \in SUBSET Prio, g # {}
  PROVE  Top(g) \in g /\ \A q \in g : Top(g) <= q
<1>1. g \subseteq Nat
  BY Constants
<1>2. PICK p \in g : \A q \in g : ~ (<<q, p>> \in Less)
  BY <1>1, LessWellFounded, WFMin
<1>3. \A q \in g : p <= q
  <2> TAKE q \in g
  <2>1. ~ (q < p) /\ p \in Nat /\ q \in Nat
    BY <1>1, <1>2 DEF Less
  <2> QED BY <2>1
<1> QED BY <1>3 DEF Top

LEMMA TopIs ==
  ASSUME NEW g \in SUBSET Prio, NEW p \in g, \A q \in g : p <= q
  PROVE  Top(g) = p
<1>1. Top(g) \in g /\ Top(g) <= p
  BY TopFacts
<1>2. p <= Top(g) /\ p \in Nat /\ Top(g) \in Nat
  BY <1>1, Constants
<1> QED BY <1>1, <1>2

(* rt_schedule() picks a linked thread than which no linked one is higher. *)
LEMMA PickFacts ==
  ASSUME NEW r, NEW g, NEW s, NEW pr, GoodLists(r, g, s, pr), NEW u \in Thread, In(r, u)
  PROVE  /\ Pick(r, g) \in Thread /\ In(r, Pick(r, g))
         /\ s[Pick(r, g)] = "ready"
         /\ \A x \in Thread : In(r, x) => pr[Pick(r, g)] <= pr[x]
<1>1. \A x \in Thread : In(r, x) => pr[x] \in g
  <2> SUFFICES ASSUME NEW x \in Thread, In(r, x) PROVE pr[x] \in g
    OBVIOUS
  <2>1. PICK p \in Prio : Occurs(r[p], x)
    BY DEF In
  <2>2. r[p] # <<>> /\ pr[x] = p
    BY <2>1, NotEmptyFacts DEF GoodLists
  <2> QED BY <2>2 DEF GoodLists
<1>2. Top(g) \in g /\ (\A q \in g : Top(g) <= q) /\ g # {}
  BY <1>1, TopFacts DEF GoodLists
<1>3. PICK p \in Prio : p = Top(g)
  BY <1>2 DEF GoodLists
<1>4. r[p] \in Seq(Thread) /\ r[p] # <<>> /\ NoDuplicates(r[p])
  BY <1>2, <1>3 DEF GoodLists
<1>5. Head(r[p]) \in Thread /\ Occurs(r[p], Head(r[p]))
  BY <1>4, TailFacts
<1>6. Pick(r, g) = Head(r[p])
  BY <1>2, <1>3, <1>4 DEF Pick
<1>7. s[Pick(r, g)] = "ready" /\ pr[Pick(r, g)] = p
  BY <1>5, <1>6 DEF GoodLists
<1> QED BY <1>1, <1>2, <1>3, <1>5, <1>6, <1>7 DEF In

(* Taking another thread out leaves the picked one the one to pick.        *)
LEMMA PickKept ==
  ASSUME NEW r, NEW g, NEW s, NEW pr, GoodLists(r, g, s, pr),
         NEW t \in Thread, In(r, t), t = Pick(r, g), NEW u \in Thread, u # t
  PROVE  Pick(Unlinked(r, u), RemovedGroup(Unlinked(r, u), g, pr[u])) = t
<1>1. g # {} /\ r[Top(g)] # <<>> /\ t = Head(r[Top(g)])
  BY Constants DEF Pick
<1>2. Top(g) \in g /\ (\A q \in g : Top(g) <= q)
  BY <1>1, TopFacts DEF GoodLists
<1>3. PICK p \in Prio : p = Top(g)
  BY <1>2 DEF GoodLists
<1>4. r[p] \in Seq(Thread) /\ Len(r[p]) \in Nat /\ Len(r[p]) > 0 /\ r[p][1] = t
  BY <1>1, <1>3 DEF GoodLists
<1>5. ListRemove(r[p], u) # <<>> /\ Head(ListRemove(r[p], u)) = t
  <2>1. CASE ~ Occurs(r[p], u)
    BY <1>1, <1>3, <2>1 DEF ListRemove
  <2>2. CASE Occurs(r[p], u)
    <3>1. Position(r[p], u) \in 1 .. Len(r[p]) /\ r[p][Position(r[p], u)] = u
      BY <1>4, <2>2, PositionFacts
    <3>2. Position(r[p], u) > 1 /\ Len(r[p]) > 1
      BY <1>4, <3>1
    <3>3. PICK k \in 1 .. Len(r[p]) : k = Position(r[p], u) /\ k > 1
      BY <3>1, <3>2
    <3>4. ListRemove(r[p], u)
            = [i \in 1 .. Len(r[p]) - 1 |-> IF i < k THEN r[p][i] ELSE r[p][i + 1]]
      BY <2>2, <3>3 DEF ListRemove
    <3>5. ListRemove(r[p], u) \in Seq(Thread) /\ Len(ListRemove(r[p], u)) = Len(r[p]) - 1
      BY <1>4, <3>2, <3>3, <3>4
    <3>6. ListRemove(r[p], u)[1] = t
      BY <1>4, <3>2, <3>3, <3>4
    <3> QED BY <1>4, <3>2, <3>5, <3>6
  <2> QED BY <2>1, <2>2
<1>6. Unlinked(r, u)[p] = ListRemove(r[p], u)
  BY DEF Unlinked
<1>7. PICK h : h = RemovedGroup(Unlinked(r, u), g, pr[u])
  OBVIOUS
<1>8. h \subseteq g /\ p \in h
  BY <1>2, <1>3, <1>5, <1>6, <1>7 DEF RemovedGroup
<1>9. Top(h) = p
  BY <1>2, <1>3, <1>8, TopIs DEF GoodLists
<1> QED BY <1>5, <1>6, <1>7, <1>8, <1>9 DEF Pick
----------------------------------------------------------------------------
(* The inductive invariant                                                 *)

TypeInv ==
  /\ stat \in [Thread -> Stats]
  /\ prio \in [Thread -> Prio]
  /\ cur \in Thread \union {NoThread}
  /\ nest \in Nat
  /\ remain \in [Thread -> Nat \ {0}]
  /\ armed \subseteq Thread
  /\ pc \in [Thread -> Places]
  /\ arg \in [Thread -> Thread]
  /\ owed \in BOOLEAN

(* A READY thread that nobody is detaching is linked.                      *)
Complete == \A u \in Thread : stat[u] = "ready" /\ ~ BeingDetached(u) => In(ready, u)

Resuming == {"resume", "startup", "insert", "start"}
Busy == Resuming \union {"suspend", "detach"}

(* What holds of the thread a call is about: nobody else makes it READY    *)
(* while it is resumed, and nobody links it again while it is detached.    *)
Calls ==
  \A t \in Thread :
    /\ pc[t] \in Resuming => stat[arg[t]] = "suspend" /\ cur # arg[t]
    /\ pc[t] \in Resuming => \A v \in Thread \ {t} : arg[v] = arg[t] => pc[v] \notin Busy
    /\ pc[t] = "detach" => ~ In(ready, arg[t]) /\ (cur = arg[t] => arg[t] = t)
    /\ pc[t] \in Resuming \union {"detach"} => arg[t] \notin armed
    /\ pc[t] \in Busy => arg[t] # Idle

(* What holds of the current thread: it has been started, and it is SUSPEND *)
(* only under the scheduler lock or on its way to rt_schedule().           *)
Current ==
  /\ cur = NoThread => nest = 0 /\ \A t \in Thread : pc[t] = "run"
  /\ cur # NoThread => stat[Idle] = "ready" /\ stat[cur] # "init"
  /\ cur # NoThread /\ nest = 0 /\ pc[cur] # "schedule" => stat[cur] # "suspend"

IInv ==
  /\ TypeInv
  /\ GoodLists(ready, group, stat, prio)
  /\ Complete
  /\ TimeoutFindsSuspended
  /\ Calls
  /\ Current
  /\ RunsHighest

LEMMA InitInv == Init => IInv
<1> SUFFICES ASSUME Init PROVE IInv
  OBVIOUS
<1>1. TypeInv
  BY Constants DEF Init, TypeInv, Stats, Places
<1>2. \A p \in Prio : ready[p] = <<>>
  BY DEF Init
<1>3. GoodLists(ready, group, stat, prio)
  BY <1>2, EmptyFacts DEF Init, GoodLists
<1>4. Complete /\ TimeoutFindsSuspended
  BY DEF Init, Complete, TimeoutFindsSuspended
<1>5. Calls /\ Current /\ RunsHighest
  BY DEF Init, Calls, Current, RunsHighest, Resuming, Busy
<1> QED BY <1>1, <1>3, <1>4, <1>5 DEF IInv

(* Once the scheduler runs, tidle is linked, so there is a thread to pick. *)
LEMMA IdleLinked == IInv /\ cur # NoThread => In(ready, Idle)
  BY Constants DEF IInv, Complete, Calls, Current, BeingDetached, Busy

(* rt_schedule() with nothing but the program counter of t changed.        *)
LEMMA ScheduleInv ==
  ASSUME IInv, NEW t \in Thread, Schedule(t)
  PROVE  IInv'
<1>1. In(ready, Idle) /\ cur \in Thread
  BY IdleLinked, Constants DEF Schedule
<1>2. /\ Pick(ready, group) \in Thread /\ In(ready, Pick(ready, group))
      /\ stat[Pick(ready, group)] = "ready"
  BY <1>1, PickFacts, Constants DEF IInv
<1>3. cur' \in Thread /\ (nest = 0 => cur' = Pick(ready, group)) /\ (nest # 0 => cur' = cur)
  BY <1>1, <1>2 DEF Schedule, Scheduled
<1>4. TypeInv'
  BY <1>3 DEF IInv, TypeInv, Schedule, Places, AfterSchedule
<1>5. GoodLists(ready, group, stat, prio)'
  BY DEF IInv, Schedule, GoodLists
<1>6. Complete' /\ TimeoutFindsSuspended'
  BY DEF IInv, TypeInv, Complete, TimeoutFindsSuspended, BeingDetached, Schedule, In
<1>7. Calls'
  BY <1>2, <1>3 DEF IInv, TypeInv, Calls, Schedule, Resuming, Busy, In
<1>8. Current'
  BY <1>2, <1>3, Constants DEF IInv, TypeInv, Current, Schedule
<1>9. RunsHighest'
  BY <1>3 DEF RunsHighest, Schedule, Pick
<1> QED BY <1>4, <1>5, <1>6, <1>7, <1>8, <1>9 DEF IInv

(* Calls that change no list, no state and not the current thread.         *)
LEMMA CallScheduleInv ==
  ASSUME IInv, NEW t \in Thread, CallSchedule(t)
  PROVE  IInv'
<1>1. TypeInv'
  BY DEF IInv, TypeInv, CallSchedule, Places
<1>2. GoodLists(ready, group, stat, prio)'
  BY DEF IInv, CallSchedule, GoodLists
<1>3. Complete' /\ TimeoutFindsSuspended'
  BY DEF IInv, TypeInv, Complete, TimeoutFindsSuspended, BeingDetached, CallSchedule, In
<1>4. Calls'
  BY DEF IInv, TypeInv, Calls, CallSchedule, Resuming, Busy, In
<1>5. Current' /\ RunsHighest'
  BY Constants DEF IInv, TypeInv, Current, CallSchedule, RunsHighest
<1> QED BY <1>1, <1>2, <1>3, <1>4, <1>5 DEF IInv

LEMMA CriticalInv ==
  ASSUME IInv, NEW t \in Thread, EnterCritical(t) \/ ExitCritical(t)
  PROVE  IInv'
<1>1. /\ UNCHANGED <<ready, group, stat, prio, cur, remain, armed, arg, owed>>
      /\ cur = t /\ pc[t] = "run" /\ stat[t] # "close"
      /\ nest' \in Nat /\ (nest' = 0 => pc'[t] = "schedule")
      /\ pc' \in [Thread -> Places] /\ pc'[t] \in {"run", "schedule"}
      /\ \A v \in Thread \ {t} : pc'[v] = pc[v]
  <2>1. nest \in Nat /\ pc \in [Thread -> Places] /\ {"run", "schedule"} \subseteq Places
    BY DEF IInv, TypeInv, Places
  <2>2. CASE EnterCritical(t)
    BY <2>1, <2>2 DEF EnterCritical, Running
  <2>3. CASE ExitCritical(t)
    BY <2>1, <2>3 DEF ExitCritical, Running
  <2> QED BY <2>2, <2>3
<1>2. TypeInv'
  BY <1>1 DEF IInv, TypeInv, Places
<1>3. GoodLists(ready, group, stat, prio)'
  BY <1>1 DEF IInv, GoodLists
<1>4. Complete' /\ TimeoutFindsSuspended'
  BY <1>1 DEF IInv, TypeInv, Complete, TimeoutFindsSuspended, BeingDetached, In
<1>5. Calls'
  BY <1>1 DEF IInv, TypeInv, Calls, Resuming, Busy, In
<1>6. Current' /\ RunsHighest'
  BY <1>1, Constants DEF IInv, TypeInv, Current, RunsHighest
<1> QED BY <1>2, <1>3, <1>4, <1>5, <1>6 DEF IInv

LEMMA SuspendInv ==
  ASSUME IInv, NEW t \in Thread, NEW u \in Thread, Suspend(t, u)
  PROVE  IInv'
<1>1. TypeInv'
  BY DEF IInv, TypeInv, Suspend, Places
<1>2. GoodLists(ready, group, stat, prio)'
  BY DEF IInv, Suspend, GoodLists
<1>3. Complete' /\ TimeoutFindsSuspended'
  BY DEF IInv, TypeInv, Complete, TimeoutFindsSuspended, BeingDetached, Suspend, Running, In
<1>4. Calls'
  <2>1. cur = t /\ pc[t] = "run" /\ u # Idle /\ stat[u] = "ready"
    BY DEF Suspend, Running, MayManage
  <2> QED BY <2>1 DEF IInv, TypeInv, Calls, Suspend, Resuming, Busy, In
<1>5. Current' /\ RunsHighest'
  BY Constants DEF IInv, TypeInv, Current, Suspend, Running, RunsHighest, Pick
<1> QED BY <1>1, <1>2, <1>3, <1>4, <1>5 DEF IInv

(* A serialised call about u finds no other call about it under way.       *)
LEMMA Unmanaged ==
  ASSUME IInv, Serialised, NEW t \in Thread, NEW u \in Thread, MayManage(t, u)
  PROVE  u # Idle /\ u \notin armed /\ \A v \in Thread \ {t} : arg[v] = u => pc[v] \notin Busy
  BY DEF MayManage, Busy, Resuming

LEMMA ResumeInv ==
  ASSUME IInv, Serialised, NEW t \in Thread, NEW u \in Thread, Resume(t, u)
  PROVE  IInv'
<1>1. TypeInv'
  BY DEF IInv, TypeInv, Resume, Places
<1>2. GoodLists(ready, group, stat, prio)'
  BY DEF IInv, Resume, GoodLists
<1>3. Complete' /\ TimeoutFindsSuspended'
  BY DEF IInv, TypeInv, Complete, TimeoutFindsSuspended, BeingDetached, Resume, Running, In
<1>4. Calls'
  <2>1. /\ cur = t /\ pc[t] = "run" /\ u # Idle /\ u # t /\ stat[u] = "suspend" /\ u \notin armed
        /\ \A v \in Thread \ {t} : arg[v] = u => pc[v] \notin Busy
    BY Unmanaged DEF Resume, Running
  <2> QED BY <2>1 DEF IInv, TypeInv, Calls, Resume, Resuming, Busy, In
<1>5. Current' /\ RunsHighest'
  BY Constants DEF IInv, TypeInv, Current, Resume, Running, RunsHighest, Pick
<1> QED BY <1>1, <1>2, <1>3, <1>4, <1>5 DEF IInv

LEMMA StartupInv ==
  ASSUME IInv, Serialised, NEW t \in Thread, NEW u \in Thread, Startup(t, u)
  PROVE  IInv'
<1>1. /\ cur = t /\ pc[t] = "run" /\ u # Idle /\ stat[u] = "init" /\ u \notin armed /\ u # t
      /\ \A v \in Thread \ {t} : arg[v] = u => pc[v] \notin Busy
  BY Unmanaged, Constants DEF Startup, Running, IInv, Current
<1>2. TypeInv'
  BY Constants DEF IInv, TypeInv, Startup, Places, Stats
<1>3. GoodLists(ready, group, stat, prio)'
  BY <1>1 DEF IInv, TypeInv, Startup, GoodLists
<1>4. Complete' /\ TimeoutFindsSuspended'
  BY <1>1 DEF IInv, TypeInv, Complete, TimeoutFindsSuspended, BeingDetached, Startup, In
<1>5. Calls'
  BY <1>1 DEF IInv, TypeInv, Calls, Startup, Resuming, Busy, In
<1>6. Current' /\ RunsHighest'
  BY <1>1, Constants DEF IInv, TypeInv, Current, Startup, RunsHighest, Pick
<1> QED BY <1>2, <1>3, <1>4, <1>5, <1>6 DEF IInv

(* rt_thread_resume unlinks a thread that is in no list.                   *)
LEMMA ResumeUnlinkInv ==
  ASSUME IInv, NEW t \in Thread, ResumeUnlink(t)
  PROVE  IInv'
<1>1. cur = t /\ pc[t] \in {"resume", "startup"} /\ arg[t] \in Thread /\ stat[arg[t]] = "suspend"
  BY DEF IInv, TypeInv, Calls, ResumeUnlink, Resuming
<1>2. ~ In(ready, arg[t])
  BY <1>1 DEF IInv, GoodLists, In
<1>3. ready' = ready
  BY <1>2, RemoveAbsent DEF IInv, GoodLists, ResumeUnlink
<1>4. armed' = armed
  BY <1>1 DEF IInv, Calls, ResumeUnlink, Resuming
<1>5. TypeInv'
  BY <1>4 DEF IInv, TypeInv, ResumeUnlink, Places
<1>6. GoodLists(ready, group, stat, prio)'
  BY <1>3 DEF IInv, ResumeUnlink, GoodLists
<1>7. Complete' /\ TimeoutFindsSuspended'
  BY <1>1, <1>3, <1>4 DEF IInv, TypeInv, Complete, TimeoutFindsSuspended, BeingDetached,
     ResumeUnlink, In
<1>8. Calls'
  BY <1>1, <1>3, <1>4 DEF IInv, TypeInv, Calls, ResumeUnlink, Resuming, Busy, In
<1>9. Current' /\ RunsHighest'
  BY <1>1, <1>3, Constants DEF IInv, TypeInv, Current, ResumeUnlink, RunsHighest, Pick
<1> QED BY <1>5, <1>6, <1>7, <1>8, <1>9 DEF IInv

(* ... and inserts it at the tail of its priority.                         *)
LEMMA ResumeInsertInv ==
  ASSUME IInv, NEW t \in Thread, ResumeInsert(t)
  PROVE  IInv'
<1>1. /\ cur = t /\ pc[t] \in {"insert", "start"}
      /\ arg[t] \in Thread /\ stat[arg[t]] = "suspend" /\ arg[t] # t /\ arg[t] \notin armed
      /\ \A v \in Thread \ {t} : arg[v] = arg[t] => pc[v] \notin Busy
  BY DEF IInv, TypeInv, Calls, ResumeInsert, Resuming
<1>2. ~ In(ready, arg[t])
  BY <1>1 DEF IInv, GoodLists, In
<1>3. /\ GoodLists(ready', group', stat', prio')
      /\ \A x \in Thread : In(ready', x) <=> In(ready, x) \/ x = arg[t]
  <2>1. PICK u \in Thread : u = arg[t]
    BY <1>1
  <2>2. PICK q \in Prio : q = prio[u]
    BY DEF IInv, TypeInv
  <2>3. /\ \A x \in Thread \ {u} : stat'[x] = stat[x] /\ prio'[x] = prio[x]
        /\ stat'[u] = "ready" /\ prio'[u] = q
    BY <2>1, <2>2 DEF IInv, TypeInv, ResumeInsert
  <2>4. ready' = Inserted(ready, u, q) /\ group' = group \union {q}
    BY <2>1, <2>2 DEF ResumeInsert
  <2>5. GoodLists(ready, group, stat, prio) /\ ~ In(ready, u)
    BY <1>2, <2>1 DEF IInv
  <2>6. /\ GoodLists(Inserted(ready, u, q), group \union {q}, stat', prio')
        /\ \A x \in Thread : In(Inserted(ready, u, q), x) <=> In(ready, x) \/ x = u
    BY <2>3, <2>5, InsertGood
  <2> QED BY <2>1, <2>4, <2>6
<1>4. TypeInv'
  BY <1>1 DEF IInv, TypeInv, ResumeInsert, Places, Stats
<1>5. Complete' /\ TimeoutFindsSuspended'
  BY <1>1, <1>3 DEF IInv, TypeInv, Complete, TimeoutFindsSuspended, BeingDetached,
     ResumeInsert
<1>6. Calls'
  BY <1>1, <1>3 DEF IInv, TypeInv, Calls, ResumeInsert, Resuming, Busy
<1>7. Current' /\ RunsHighest'
  BY <1>1, Constants DEF IInv, TypeInv, Current, ResumeInsert, RunsHighest
<1> QED BY <1>3, <1>4, <1>5, <1>6, <1>7 DEF IInv

(* rt_schedule() run as the last thing of a critical section: what it      *)
(* picks is READY, linked, and the thread of no call that would mind.      *)
LEMMA SuspendBodyInv ==
  ASSUME IInv, NEW t \in Thread, SuspendBody(t)
  PROVE  IInv'
<1>1. PICK u \in Thread : u = arg[t]
  BY DEF IInv, TypeInv
<1>2. cur = t /\ t # NoThread /\ pc[t] = "suspend" /\ u # Idle
  BY <1>1, Constants DEF IInv, Calls, SuspendBody, Busy
<1>3. /\ stat' = [stat EXCEPT ![u] = "suspend"] /\ armed' = armed \ {u}
      /\ arg' = [arg EXCEPT ![t] = t] /\ UNCHANGED <<prio, cur, nest, remain, owed>>
      /\ pc' = [pc EXCEPT ![t] = IF u = t THEN "schedule" ELSE "run"]
      /\ ready' = Unlinked(ready, u)
      /\ group' = RemovedGroup(Unlinked(ready, u), group, prio[u])
  BY <1>1 DEF SuspendBody
<1>4. /\ GoodLists(ready', group', stat', prio')
      /\ \A x \in Thread : In(ready', x) <=> In(ready, x) /\ x # u
  <2>1. \A x \in Thread \ {u} : stat'[x] = stat[x] /\ prio'[x] = prio[x]
    BY <1>3 DEF IInv, TypeInv
  <2>2. GoodLists(ready, group, stat, prio)
    BY DEF IInv
  <2>3. /\ GoodLists(Unlinked(ready, u), RemovedGroup(Unlinked(ready, u), group, prio[u]),
                     stat', prio')
        /\ \A x \in Thread : In(Unlinked(ready, u), x) <=> In(ready, x) /\ x # u
    BY <2>1, <2>2, RemoveGood
  <2> QED BY <1>3, <2>3
<1>5. TypeInv'
  BY <1>3 DEF IInv, TypeInv, Places, Stats
<1>6. Complete' /\ TimeoutFindsSuspended'
  BY <1>2, <1>3, <1>4 DEF IInv, TypeInv, Complete, TimeoutFindsSuspended, BeingDetached
<1>7. Calls'
  BY <1>2, <1>3, <1>4 DEF IInv, TypeInv, Calls, Resuming, Busy
<1>8. Current'
  BY <1>2, <1>3, Constants DEF IInv, TypeInv, Current
<1>9. RunsHighest'
  <2> SUFFICES ASSUME u # t, cur = Pick(ready, group) PROVE cur' = Pick(ready', group')
    BY <1>2, <1>3 DEF IInv, TypeInv, RunsHighest
  <2>1. In(ready, t)
    BY <1>2, IdleLinked, PickFacts, Constants DEF IInv
  <2>2. GoodLists(ready, group, stat, prio) /\ t = Pick(ready, group)
    BY <1>2 DEF IInv
  <2>3. Pick(Unlinked(ready, u), RemovedGroup(Unlinked(ready, u), group, prio[u])) = t
    BY <2>1, <2>2, PickKept
  <2> QED BY <1>2, <1>3, <2>3
<1> QED BY <1>4, <1>5, <1>6, <1>7, <1>8, <1>9 DEF IInv

LEMMA YieldInv ==
  ASSUME IInv, NEW t \in Thread, Yield(t)
  PROVE  IInv'
<1>1. cur = t /\ t # NoThread /\ pc[t] = "run" /\ stat[t] = "ready" /\ Occurs(ready[prio[t]], t)
  BY Constants DEF Yield, Running, CanYield
<1>2. /\ GoodLists(ready', group, stat, prio)
      /\ \A x \in Thread : In(ready', x) <=> In(ready, x)
  <2>1. GoodLists(ready, group, stat, prio) /\ prio[t] \in Prio
    BY DEF IInv, TypeInv
  <2>2. /\ GoodLists(Inserted(Unlinked(ready, t), t, prio[t]), group, stat, prio)
        /\ \A x \in Thread : In(Inserted(Unlinked(ready, t), t, prio[t]), x) <=> In(ready, x)
    BY <1>1, <2>1, RotatedGood
  <2> QED BY <2>2 DEF Yield, Rotated
<1>3. TypeInv'
  BY DEF IInv, TypeInv, Yield, Places
<1>4. GoodLists(ready, group, stat, prio)'
  BY <1>2 DEF Yield
<1>5. Complete' /\ TimeoutFindsSuspended'
  BY <1>1, <1>2 DEF IInv, TypeInv, Complete, TimeoutFindsSuspended, BeingDetached, Yield
<1>6. Calls'
  BY <1>1, <1>2 DEF IInv, TypeInv, Calls, Yield, Resuming, Busy
<1>7. Current' /\ RunsHighest'
  BY <1>1, Constants DEF IInv, TypeInv, Current, Yield, RunsHighest
<1> QED BY <1>3, <1>4, <1>5, <1>6, <1>7 DEF IInv

LEMMA SleepInv ==
  ASSUME IInv, NEW t \in Thread, Sleep(t)
  PROVE  IInv'
<1>1. /\ cur = t /\ t # NoThread /\ t # Idle /\ pc[t] = "run" /\ stat[t] \in {"ready", "suspend"}
      /\ armed' = armed \union {t} /\ pc' = [pc EXCEPT ![t] = "schedule"]
      /\ UNCHANGED <<prio, cur, nest, remain, arg, owed>>
  BY Constants DEF Sleep, Running, MayBlock
<1>2. /\ GoodLists(ready', group', stat', prio')
      /\ \A x \in Thread : In(ready', x) <=> In(ready, x) /\ x # t
      /\ stat' = [stat EXCEPT ![t] = "suspend"]
  <2>1. CASE stat[t] = "ready"
    <3>1. /\ stat' = [stat EXCEPT ![t] = "suspend"] /\ ready' = Unlinked(ready, t)
          /\ group' = RemovedGroup(Unlinked(ready, t), group, prio[t])
      BY <2>1 DEF Sleep
    <3>2. \A x \in Thread \ {t} : stat'[x] = stat[x] /\ prio'[x] = prio[x]
      BY <1>1, <3>1 DEF IInv, TypeInv
    <3>3. GoodLists(ready, group, stat, prio)
      BY DEF IInv
    <3>4. /\ GoodLists(Unlinked(ready, t), RemovedGroup(Unlinked(ready, t), group, prio[t]),
                       stat', prio')
          /\ \A x \in Thread : In(Unlinked(ready, t), x) <=> In(ready, x) /\ x # t
      BY <3>2, <3>3, RemoveGood
    <3> QED BY <3>1, <3>4
  <2>2. CASE stat[t] = "suspend"
    <3>1. UNCHANGED <<stat, ready, group, prio>>
      BY <2>2 DEF Sleep
    <3>2. ~ In(ready, t)
      BY <2>2 DEF IInv, GoodLists, In
    <3>3. stat' = [stat EXCEPT ![t] = "suspend"]
      BY <2>2, <3>1 DEF IInv, TypeInv
    <3> QED BY <3>1, <3>2, <3>3 DEF IInv
  <2> QED BY <1>1, <2>1, <2>2
<1>3. TypeInv'
  BY <1>1, <1>2 DEF IInv, TypeInv, Places, Stats
<1>4. Complete' /\ TimeoutFindsSuspended'
  BY <1>1, <1>2 DEF IInv, TypeInv, Complete, TimeoutFindsSuspended, BeingDetached
<1>5. Calls'
  BY <1>1, <1>2 DEF IInv, TypeInv, Calls, Resuming, Busy
<1>6. Current' /\ RunsHighest'
  BY <1>1, <1>2, Constants DEF IInv, TypeInv, Current, RunsHighest
<1> QED BY <1>2, <1>3, <1>4, <1>5, <1>6 DEF IInv

LEMMA ChangePriorityInv ==
  ASSUME IInv, Serialised, NEW t \in Thread, NEW u \in Thread, NEW p \in NewPrio,
         ChangePriority(t, u, p)
  PROVE  IInv'
<1>1. /\ cur = t /\ t # NoThread /\ pc[t] = "run" /\ prio' = [prio EXCEPT ![u] = p]
      /\ \A v \in Thread \ {t} : arg[v] = u => pc[v] \notin Busy
      /\ UNCHANGED <<stat, cur, nest, remain, armed, pc, arg>> /\ p \in Prio
  BY Unmanaged, Constants DEF ChangePriority, Running
<1>2. /\ \A x \in Thread \ {u} : stat'[x] = stat[x] /\ prio'[x] = prio[x]
      /\ prio'[u] = p /\ prio' \in [Thread -> Prio]
  BY <1>1 DEF IInv, TypeInv
<1>3. CASE stat[u] = "ready"
  <2>1. /\ ready' = Inserted(Unlinked(ready, u), u, p) /\ owed' = TRUE
        /\ group' = RemovedGroup(Unlinked(ready, u), group, prio[u]) \union {p}
    BY <1>3 DEF ChangePriority
  <2>2. /\ GoodLists(ready', group', stat', prio')
        /\ \A x \in Thread : In(ready', x) <=> In(ready, x) \/ x = u
    <3>1. GoodLists(ready, group, stat, prio) /\ stat'[u] = "ready" /\ p \in Prio
      BY <1>1, <1>3 DEF IInv
    <3>2. /\ GoodLists(Inserted(Unlinked(ready, u), u, p),
                       RemovedGroup(Unlinked(ready, u), group, prio[u]) \union {p},
                       stat', prio')
          /\ \A x \in Thread : In(Inserted(Unlinked(ready, u), u, p), x) <=> In(ready, x) \/ x = u
      BY <1>2, <3>1, MoveGood
    <3> QED BY <2>1, <3>2
  <2>3. TypeInv'
    BY <1>1, <1>2, <2>1 DEF IInv, TypeInv
  <2>4. Complete' /\ TimeoutFindsSuspended'
    BY <1>1, <2>2 DEF IInv, Complete, TimeoutFindsSuspended, BeingDetached
  <2>5. Calls'
    BY <1>1, <2>2 DEF IInv, TypeInv, Calls, Resuming, Busy
  <2>6. Current' /\ RunsHighest'
    BY <1>1, <2>1 DEF IInv, Current, RunsHighest
  <2> QED BY <2>2, <2>3, <2>4, <2>5, <2>6 DEF IInv
<1>4. CASE stat[u] # "ready"
  <2>1. UNCHANGED <<ready, group, owed>>
    BY <1>4 DEF ChangePriority
  <2>2. GoodLists(ready, group, stat, prio)'
    BY <1>1, <1>2, <1>4, <2>1 DEF IInv, GoodLists
  <2>3. TypeInv'
    BY <1>1, <1>2, <2>1 DEF IInv, TypeInv
  <2>4. Complete' /\ TimeoutFindsSuspended'
    BY <1>1, <2>1 DEF IInv, Complete, TimeoutFindsSuspended, BeingDetached, In
  <2>5. Calls' /\ Current' /\ RunsHighest'
    BY <1>1, <2>1 DEF IInv, Calls, Current, RunsHighest, Pick, In
  <2> QED BY <2>2, <2>3, <2>4, <2>5 DEF IInv
<1> QED BY <1>3, <1>4

(* A thread that is taken out of the lists and its state set to x.         *)
LEMMA TakenOut ==
  ASSUME IInv, NEW u \in Thread, NEW x \in Stats
  PROVE  /\ GoodLists(Unlinked(ready, u), RemovedGroup(Unlinked(ready, u), group, prio[u]),
                      [stat EXCEPT ![u] = x], prio)
         /\ \A y \in Thread : In(Unlinked(ready, u), y) <=> In(ready, y) /\ y # u
<1>1. PICK s : s = [stat EXCEPT ![u] = x]
  OBVIOUS
<1>2. \A y \in Thread \ {u} : s[y] = stat[y] /\ prio[y] = prio[y]
  BY <1>1 DEF IInv, TypeInv
<1>3. GoodLists(ready, group, stat, prio)
  BY DEF IInv
<1>4. /\ GoodLists(Unlinked(ready, u), RemovedGroup(Unlinked(ready, u), group, prio[u]), s, prio)
      /\ \A y \in Thread : In(Unlinked(ready, u), y) <=> In(ready, y) /\ y # u
  BY <1>2, <1>3, RemoveGood
<1> QED BY <1>1, <1>4

LEMMA ExitInv ==
  ASSUME IInv, NEW t \in Thread, Exit(t)
  PROVE  IInv'
<1>1. /\ cur = t /\ t # NoThread /\ t # Idle /\ pc[t] = "run" /\ nest = 0 /\ nest' = 0
      /\ stat' = [stat EXCEPT ![t] = "close"] /\ armed' = armed \ {t}
      /\ pc' = [pc EXCEPT ![t] = "gone"] /\ owed' = FALSE
      /\ cur' = Pick(ready', group')
      /\ UNCHANGED <<prio, remain, arg>>
      /\ ready' = Unlinked(ready, t)
      /\ group' = RemovedGroup(Unlinked(ready, t), group, prio[t])
  BY Constants DEF Exit, Running, MayEnd, Scheduled, AfterSchedule
<1>2. /\ GoodLists(ready', group', stat', prio')
      /\ \A x \in Thread : In(ready', x) <=> In(ready, x) /\ x # t
  BY <1>1, TakenOut DEF Stats
<1>3. In(ready', Idle)
  BY <1>1, <1>2, IdleLinked, Constants
<1>4. cur' \in Thread /\ In(ready', cur') /\ stat'[cur'] = "ready"
  <2>1. /\ Pick(ready', group') \in Thread /\ In(ready', Pick(ready', group'))
        /\ stat'[Pick(ready', group')] = "ready"
    BY <1>2, <1>3, PickFacts, Constants
  <2> QED BY <1>1, <2>1
<1>5. TypeInv'
  BY <1>1, <1>4 DEF IInv, TypeInv, Places, Stats
<1>6. Complete' /\ TimeoutFindsSuspended'
  BY <1>1, <1>2 DEF IInv, TypeInv, Complete, TimeoutFindsSuspended, BeingDetached
<1>7. Calls'
  BY <1>1, <1>2, <1>4 DEF IInv, TypeInv, Calls, Resuming, Busy
<1>8. Current' /\ RunsHighest'
  BY <1>1, <1>4, Constants DEF IInv, TypeInv, Current, RunsHighest
<1> QED BY <1>2, <1>5, <1>6, <1>7, <1>8 DEF IInv

LEMMA DetachInv ==
  ASSUME IInv, Serialised, NEW t \in Thread, NEW u \in Thread, Detach(t, u)
  PROVE  IInv'
<1>1. /\ cur = t /\ t # NoThread /\ pc[t] = "run" /\ stat[u] # "close"
      /\ pc' = [pc EXCEPT ![t] = "detach"] /\ arg' = [arg EXCEPT ![t] = u]
      /\ owed' = (owed \/ u = t)
      /\ UNCHANGED <<stat, prio, cur, nest, remain, armed>>
  BY Constants DEF Detach, Running
<1>2. u # Idle /\ u \notin armed
      /\ \A v \in Thread \ {t} : arg[v] = u => pc[v] \notin Resuming
  <2>1. CASE u = t
    <3>1. nest = 0 /\ t # Idle
      BY <2>1 DEF Detach, MayEnd
    <3>2. stat[t] # "suspend"
      BY <1>1, <3>1 DEF IInv, Current
    <3> QED BY <1>1, <2>1, <3>1, <3>2 DEF IInv, TimeoutFindsSuspended, Calls
  <2>2. CASE u # t
    BY <2>2, Unmanaged DEF Detach, Busy
  <2> QED BY <2>1, <2>2
<1>3. /\ GoodLists(ready', group', stat, prio)
      /\ \A x \in Thread : In(ready', x) <=> In(ready, x) /\ x # u
      /\ u # t /\ cur = Pick(ready, group) => cur = Pick(ready', group')
  <2>1. CASE stat[u] = "init"
    <3>1. ~ In(ready, u)
      BY <2>1 DEF IInv, GoodLists, In
    <3>2. UNCHANGED <<ready, group>>
      BY <2>1 DEF Detach
    <3> QED BY <3>1, <3>2 DEF IInv
  <2>2. CASE stat[u] # "init"
    <3>1. /\ ready' = Unlinked(ready, u)
          /\ group' = RemovedGroup(Unlinked(ready, u), group, prio[u])
      BY <2>2 DEF Detach
    <3>2. GoodLists(ready, group, stat, prio)
      BY DEF IInv
    <3>3. u # t /\ cur = Pick(ready, group)
            => Pick(Unlinked(ready, u), RemovedGroup(Unlinked(ready, u), group, prio[u])) = t
      <4> SUFFICES ASSUME u # t, t = Pick(ready, group)
                   PROVE  Pick(Unlinked(ready, u),
                               RemovedGroup(Unlinked(ready, u), group, prio[u])) = t
        BY <1>1
      <4>1. In(ready, t)
        BY <1>1, <3>2, IdleLinked, PickFacts, Constants
      <4> QED BY <3>2, <4>1, PickKept
    <3> QED BY <1>1, <3>1, <3>2, <3>3, RemoveGood
  <2> QED BY <2>1, <2>2
<1>4. TypeInv'
  BY <1>1 DEF IInv, TypeInv, Places
<1>5. GoodLists(ready', group', stat', prio')
  BY <1>1, <1>3
<1>6. Complete' /\ TimeoutFindsSuspended'
  BY <1>1, <1>3 DEF IInv, TypeInv, Complete, TimeoutFindsSuspended, BeingDetached
<1>7. Calls'
  BY <1>1, <1>2, <1>3 DEF IInv, TypeInv, Calls, Resuming, Busy
<1>8. Current' /\ RunsHighest'
  BY <1>1, <1>3, Constants DEF IInv, TypeInv, Current, RunsHighest
<1> QED BY <1>4, <1>5, <1>6, <1>7, <1>8 DEF IInv

LEMMA DetachCloseInv ==
  ASSUME IInv, NEW t \in Thread, DetachClose(t)
  PROVE  IInv'
<1>1. PICK u \in Thread : u = arg[t]
  BY DEF IInv, TypeInv
<1>2. /\ cur = t /\ t # NoThread /\ pc[t] = "detach" /\ u # Idle /\ ~ In(ready, u)
      /\ stat' = [stat EXCEPT ![u] = "close"] /\ armed' = armed \ {u}
      /\ pc' = [pc EXCEPT ![t] = "run"] /\ arg' = [arg EXCEPT ![t] = t]
      /\ UNCHANGED <<ready, group, prio, cur, nest, remain, owed>>
      /\ \A v \in Thread : arg[v] = u => pc[v] \notin Resuming
  BY <1>1, Constants DEF IInv, TypeInv, Calls, DetachClose, Busy, Resuming
<1>3. TypeInv'
  BY <1>2 DEF IInv, TypeInv, Places, Stats
<1>4. GoodLists(ready, group, stat, prio)'
  BY <1>2 DEF IInv, TypeInv, GoodLists, In
<1>5. Complete' /\ TimeoutFindsSuspended'
  BY <1>1, <1>2 DEF IInv, TypeInv, Complete, TimeoutFindsSuspended, BeingDetached, In
<1>6. Calls'
  BY <1>2 DEF IInv, TypeInv, Calls, Resuming, Busy, In
<1>7. Current' /\ RunsHighest'
  BY <1>2, Constants DEF IInv, TypeInv, Current, RunsHighest, Pick
<1> QED BY <1>3, <1>4, <1>5, <1>6, <1>7 DEF IInv

LEMMA BootStartupInv ==
  ASSUME IInv, NEW u \in Thread, BootStartup(u)
  PROVE  IInv'
<1>1. PICK q \in Prio : q = InitPrio[u]
  BY Constants
<1>2. /\ cur = NoThread /\ stat[u] = "init" /\ ~ In(ready, u) /\ u \notin armed
      /\ \A t \in Thread : pc[t] = "run"
      /\ prio' = [prio EXCEPT ![u] = q] /\ stat' = [stat EXCEPT ![u] = "ready"]
      /\ ready' = Inserted(ready, u, q) /\ group' = group \union {q}
      /\ UNCHANGED <<cur, nest, remain, armed, pc, arg, owed>>
  BY <1>1 DEF BootStartup, IInv, GoodLists, In, TimeoutFindsSuspended, Current
<1>3. /\ GoodLists(ready', group', stat', prio')
      /\ \A x \in Thread : In(ready', x) <=> In(ready, x) \/ x = u
  <2>1. /\ \A x \in Thread \ {u} : stat'[x] = stat[x] /\ prio'[x] = prio[x]
        /\ stat'[u] = "ready" /\ prio'[u] = q
    BY <1>2 DEF IInv, TypeInv
  <2>2. GoodLists(ready, group, stat, prio) /\ ~ In(ready, u)
    BY <1>2 DEF IInv
  <2>3. /\ GoodLists(Inserted(ready, u, q), group \union {q}, stat', prio')
        /\ \A x \in Thread : In(Inserted(ready, u, q), x) <=> In(ready, x) \/ x = u
    BY <2>1, <2>2, InsertGood
  <2> QED BY <1>2, <2>3
<1>4. TypeInv'
  BY <1>2 DEF IInv, TypeInv, Stats
<1>5. Complete' /\ TimeoutFindsSuspended'
  BY <1>2, <1>3 DEF IInv, TypeInv, Complete, TimeoutFindsSuspended, BeingDetached
<1>6. Calls' /\ Current' /\ RunsHighest'
  BY <1>2 DEF IInv, TypeInv, Calls, Current, RunsHighest, Resuming, Busy
<1> QED BY <1>3, <1>4, <1>5, <1>6 DEF IInv

LEMMA SchedulerStartInv == IInv /\ SchedulerStart => IInv'
<1> SUFFICES ASSUME IInv, SchedulerStart PROVE IInv'
  OBVIOUS
<1>1. /\ cur = NoThread /\ stat[Idle] = "ready" /\ nest = 0 /\ \A t \in Thread : pc[t] = "run"
      /\ UNCHANGED <<ready, group, stat, prio, nest, remain, armed, pc, arg, owed>>
      /\ cur' = Pick(ready, group)
  BY DEF SchedulerStart, IInv, Current
<1>2. In(ready, Idle)
  BY <1>1, Constants DEF IInv, Complete, BeingDetached
<1>3. cur' \in Thread /\ stat[cur'] = "ready"
  BY <1>1, <1>2, PickFacts, Constants DEF IInv
<1>4. TypeInv'
  BY <1>1, <1>3 DEF IInv, TypeInv
<1>5. GoodLists(ready, group, stat, prio)' /\ Complete' /\ TimeoutFindsSuspended'
  BY <1>1 DEF IInv, GoodLists, Complete, TimeoutFindsSuspended, BeingDetached, In
<1>6. Calls'
  BY <1>1 DEF Calls, Resuming, Busy
<1>7. Current' /\ RunsHighest'
  BY <1>1, <1>3, Constants DEF Current, RunsHighest, Pick
<1> QED BY <1>4, <1>5, <1>6, <1>7 DEF IInv

(* The tick: the timer of one thread fires, or of none.                    *)
LEMMA WokenOne ==
  ASSUME NEW r \in [Prio -> Seq(Thread)], NEW u \in Thread, prio[u] \in Prio
  PROVE  Woken(r, {u}) = Inserted(Unlinked(r, u), u, prio[u])
<1>1. (CHOOSE v \in {u} : TRUE) = u
  OBVIOUS
<1>2. Woken(r, {u})
        = [p \in Prio |-> IF prio[u] = p THEN ListAddTail(ListRemove(r[p], u), u)
                                        ELSE ListRemove(r[p], u)]
  BY <1>1 DEF Woken
<1> QED BY <1>2 DEF Inserted, Unlinked

LEMMA WokenNone ==
  ASSUME NEW r \in [Prio -> Seq(Thread)]
  PROVE  Woken(r, {}) = r
  BY DEF Woken

(* What the tick leaves as lists, whether or not the slice is over.        *)
LEMMA TickLists ==
  ASSUME IInv, cur # NoThread, NEW U \in SUBSET armed, NEW u \in Thread, U = {} \/ U = {u},
         Tick(U)
  PROVE  /\ GoodLists(ready', group', stat', prio')
         /\ \A x \in Thread : In(ready', x) <=> In(ready, x) \/ x \in U
         /\ ~ (SliceOver /\ CanYield(cur)) /\ U = {} => ready' = ready /\ group' = group
<1> DEFINE rotates == SliceOver /\ CanYield(cur)
<1>1. PICK r : r = IF rotates THEN Rotated(cur) ELSE ready
  OBVIOUS
<1>2. GoodLists(r, group, stat, prio) /\ \A x \in Thread : In(r, x) <=> In(ready, x)
  <2>1. CASE rotates
    <3>1. PICK t \in Thread : t = cur
      BY DEF IInv, TypeInv
    <3>2. /\ GoodLists(ready, group, stat, prio) /\ prio[t] \in Prio
          /\ Occurs(ready[prio[t]], t)
      BY <2>1, <3>1 DEF IInv, TypeInv, CanYield
    <3>3. /\ GoodLists(Inserted(Unlinked(ready, t), t, prio[t]), group, stat, prio)
          /\ \A x \in Thread : In(Inserted(Unlinked(ready, t), t, prio[t]), x) <=> In(ready, x)
      BY <3>2, RotatedGood
    <3> QED BY <1>1, <2>1, <3>1, <3>3 DEF Rotated
  <2>2. CASE ~ rotates
    BY <1>1, <2>2 DEF IInv
  <2> QED BY <2>1, <2>2
<1>3. /\ ready' = Woken(r, U) /\ group' = group \union {prio[v] : v \in U}
      /\ stat' = [v \in Thread |-> IF v \in U THEN "ready" ELSE stat[v]] /\ prio' = prio
  BY <1>1 DEF Tick
<1>4. r \in [Prio -> Seq(Thread)]
  BY <1>2 DEF GoodLists
<1>5. CASE U = {}
  <2>1. ready' = r /\ group' = group
    BY <1>3, <1>4, <1>5, WokenNone
  <2>2. stat' = stat
    BY <1>3, <1>5 DEF IInv, TypeInv
  <2> QED BY <1>1, <1>2, <1>3, <1>5, <2>1, <2>2
<1>6. CASE U = {u}
  <2>1. PICK q \in Prio : q = prio[u]
    BY DEF IInv, TypeInv
  <2>2. /\ \A x \in Thread \ {u} : stat'[x] = stat[x] /\ prio'[x] = prio[x]
        /\ stat'[u] = "ready" /\ prio'[u] = q
    BY <1>3, <1>6, <2>1
  <2>3. /\ GoodLists(Inserted(Unlinked(r, u), u, q),
                     RemovedGroup(Unlinked(r, u), group, prio[u]) \union {q}, stat', prio')
        /\ \A x \in Thread : In(Inserted(Unlinked(r, u), u, q), x) <=> In(r, x) \/ x = u
    BY <1>2, <2>2, MoveGood
  <2>4. ready' = Inserted(Unlinked(r, u), u, q)
    BY <1>3, <1>4, <1>6, <2>1, WokenOne
  <2>5. group' = RemovedGroup(Unlinked(r, u), group, prio[u]) \union {q}
    BY <1>3, <1>6, <2>1 DEF RemovedGroup
  <2> QED BY <1>2, <1>6, <2>3, <2>4, <2>5
<1> QED BY <1>5, <1>6

LEMMA TickInv ==
  ASSUME IInv, NEW U \in SUBSET armed, NEW u \in Thread, U = {} \/ U = {u}, Tick(U)
  PROVE  IInv'
<1> DEFINE dispatches == (SliceOver /\ CanYield(cur)) \/ U # {}
<1>1. /\ cur \in Thread /\ cur # NoThread
      /\ \A v \in U : stat[v] = "suspend" /\ ~ In(ready, v)
  BY DEF Tick, IInv, TypeInv, TimeoutFindsSuspended, GoodLists, In
<1>2. /\ GoodLists(ready', group', stat', prio')
      /\ \A x \in Thread : In(ready', x) <=> In(ready, x) \/ x \in U
      /\ ~ dispatches => ready' = ready /\ group' = group
  BY <1>1, TickLists
<1>3. /\ stat' = [v \in Thread |-> IF v \in U THEN "ready" ELSE stat[v]] /\ armed' = armed \ U
      /\ UNCHANGED <<prio, nest, pc, arg>>
      /\ dispatches => cur' = Scheduled(ready', group') /\ owed' = AfterSchedule
      /\ ~ dispatches => cur' = cur /\ owed' = owed
  BY DEF Tick
<1> HIDE DEF dispatches
<1>4. /\ Pick(ready', group') \in Thread /\ In(ready', Pick(ready', group'))
      /\ stat'[Pick(ready', group')] = "ready"
  <2>1. In(ready', Idle)
    BY <1>1, <1>2, IdleLinked, Constants
  <2> QED BY <1>2, <2>1, PickFacts, Constants
<1>5. /\ cur' \in Thread
      /\ cur' = cur \/ (nest = 0 /\ In(ready', cur') /\ stat'[cur'] = "ready")
      /\ dispatches /\ nest = 0 => cur' = Pick(ready', group')
  BY <1>1, <1>3, <1>4 DEF Scheduled
<1>6. remain' \in [Thread -> Nat \ {0}]
  <2>1. remain[cur] \in Nat \ {0} /\ InitTick[cur] \in Nat \ {0}
    BY <1>1, Constants DEF IInv, TypeInv
  <2>2. (IF SliceOver THEN InitTick[cur] ELSE remain[cur] - 1) \in Nat \ {0}
    BY <2>1 DEF SliceOver
  <2> QED BY <2>2 DEF Tick, IInv, TypeInv
<1>7. TypeInv'
  BY <1>3, <1>5, <1>6 DEF IInv, TypeInv, Stats, AfterSchedule
<1>8. Complete' /\ TimeoutFindsSuspended'
  BY <1>2, <1>3 DEF IInv, TypeInv, Complete, TimeoutFindsSuspended, BeingDetached
<1>9. Calls'
  <2> SUFFICES ASSUME NEW t \in Thread
               PROVE
    /\ pc[t] \in Resuming => stat'[arg[t]] = "suspend" /\ cur' # arg[t]
    /\ pc[t] \in Resuming => \A v \in Thread \ {t} : arg[v] = arg[t] => pc[v] \notin Busy
    /\ pc[t] = "detach" => ~ In(ready', arg[t]) /\ (cur' = arg[t] => arg[t] = t)
    /\ pc[t] \in Resuming \union {"detach"} => arg[t] \notin armed'
    /\ pc[t] \in Busy => arg[t] # Idle
    BY <1>3 DEF Calls
  <2>1. arg[t] \in Thread
    BY DEF IInv, TypeInv
  <2>2. pc[t] \in Resuming \union {"detach"} => arg[t] \notin armed /\ arg[t] \notin U
    BY DEF IInv, Calls
  <2>3. pc[t] \in Resuming => stat'[arg[t]] = "suspend" /\ cur' # arg[t]
    BY <1>3, <1>5, <2>1, <2>2 DEF IInv, Calls
  <2>4. pc[t] = "detach" => ~ In(ready', arg[t]) /\ (cur' = arg[t] => arg[t] = t)
    BY <1>2, <1>5, <2>1, <2>2 DEF IInv, Calls
  <2> QED BY <1>3, <2>2, <2>3, <2>4 DEF IInv, Calls
<1>10. Current'
  BY <1>1, <1>3, <1>5, Constants DEF IInv, TypeInv, Current
<1>11. RunsHighest'
  BY <1>1, <1>2, <1>3, <1>5 DEF IInv, RunsHighest
<1> QED BY <1>2, <1>7, <1>8, <1>9, <1>10, <1>11 DEF IInv

LEMMA NextInv == Serialised /\ IInv /\ [Next]_vars => IInv'
<1> SUFFICES ASSUME Serialised, IInv, [Next]_vars PROVE IInv'
  OBVIOUS
<1>1. CASE UNCHANGED vars
  BY <1>1 DEF vars, IInv, TypeInv, GoodLists, Complete, TimeoutFindsSuspended, Calls, Current,
     RunsHighest, BeingDetached, In, Pick
<1>2. CASE SchedulerStart
  BY <1>2, SchedulerStartInv
<1>3. CASE PlainTick
  BY <1>3, TickInv, Constants DEF PlainTick
<1>4. ASSUME NEW u \in Thread, Timeout(u) PROVE IInv'
  BY <1>4, TickInv DEF Timeout
<1>5. ASSUME NEW t \in Thread, Step(t) PROVE IInv'
  BY <1>5, ScheduleInv, CallScheduleInv, YieldInv, SleepInv, SuspendBodyInv, ResumeUnlinkInv,
     ResumeInsertInv, DetachCloseInv, CriticalInv, ExitInv, SuspendInv, ResumeInv, StartupInv,
     DetachInv, ChangePriorityInv DEF Step
<1> QED BY <1>1, <1>2, <1>3, <1>4, <1>5, BootStartupInv DEF Next
----------------------------------------------------------------------------
LEMMA Invariance == Serialised => (Spec => []IInv)
<1> SUFFICES ASSUME Serialised PROVE Spec => []IInv
  OBVIOUS
<1>1. IInv /\ [Next]_vars => IInv'
  BY NextInv
<1> QED BY <1>1, InitInv, PTL DEF Spec

LEMMA ListsFollow == IInv => ListsMatchStates
<1> SUFFICES ASSUME IInv PROVE ListsMatchStates
  OBVIOUS
<1>1. TypeOK
  BY DEF IInv, TypeInv, GoodLists, TypeOK
<1>2. ASSUME NEW u \in Thread, In(ready, u) PROVE Occurs(ready[prio[u]], u)
  BY <1>2 DEF IInv, GoodLists, In
<1>3. \A u \in Thread : stat[u] = "ready" /\ ~ BeingDetached(u) => Occurs(ready[prio[u]], u)
  BY <1>2 DEF IInv, Complete
<1> QED BY <1>1, <1>3 DEF IInv, GoodLists, ListsMatchStates

(* For any number of threads and priorities: bitmap, ready lists and       *)
(* thread states agree in every window of the calls (scheduler.c, thread.c).*)
THEOREM SchedListsMatchStates == Serialised => (Spec => []ListsMatchStates)
<1> SUFFICES ASSUME Serialised PROVE Spec => []ListsMatchStates
  OBVIOUS
<1> QED BY ListsFollow, Invariance, PTL

(* The CPU belongs to the head of the highest list whenever the scheduler  *)
(* is unlocked and nobody owes rt_schedule().                              *)
THEOREM SchedRunsHighest == Serialised => (Spec => []RunsHighest)
<1> SUFFICES ASSUME Serialised PROVE Spec => []RunsHighest
  OBVIOUS
<1>1. IInv => RunsHighest
  BY DEF IInv
<1> QED BY <1>1, Invariance, PTL

(* A thread timer runs only for a suspended thread, so the assertion of    *)
(* rt_thread_timeout holds.                                                *)
THEOREM SchedTimeoutFindsSuspended == Serialised => (Spec => []TimeoutFindsSuspended)
<1> SUFFICES ASSUME Serialised PROVE Spec => []TimeoutFindsSuspended
  OBVIOUS
<1>1. IInv => TimeoutFindsSuspended
  BY DEF IInv
<1> QED BY <1>1, Invariance, PTL

(* What rt_schedule() hands the CPU to, in a state of the invariant.       *)
LEMMA PickedEligible ==
  IInv /\ stat[Idle] = "ready" /\ cur = Pick(ready, group)
    => cur \in Eligible /\ \A u \in Eligible : prio[cur] <= prio[u]
<1> SUFFICES ASSUME IInv, stat[Idle] = "ready", cur = Pick(ready, group)
             PROVE  cur \in Eligible /\ \A u \in Eligible : prio[cur] <= prio[u]
  OBVIOUS
<1>1. \A u \in Eligible : In(ready, u)
  BY DEF IInv, Complete, Eligible
<1>2. In(ready, Idle)
  BY Constants DEF IInv, Complete, Calls, BeingDetached, Busy
<1>3. /\ cur \in Thread /\ In(ready, cur) /\ stat[cur] = "ready"
      /\ \A x \in Thread : In(ready, x) => prio[cur] <= prio[x]
  BY <1>2, PickFacts, Constants DEF IInv
<1>4. ~ BeingDetached(cur)
  BY <1>3 DEF IInv, Calls, BeingDetached
<1> QED BY <1>1, <1>3, <1>4 DEF Eligible

(* The CPU changes hands in four places, by rt_schedule() in each of them. *)
LEMMA DispatchedByPick ==
  IInv /\ [Next]_vars /\ cur' # cur
    => nest = 0 /\ cur' = Pick(ready', group') /\ stat'[Idle] = "ready"
<1> SUFFICES ASSUME IInv, [Next]_vars, cur' # cur
             PROVE  nest = 0 /\ cur' = Pick(ready', group') /\ stat'[Idle] = "ready"
  OBVIOUS
<1>1. cur # NoThread => stat[Idle] = "ready"
  BY DEF IInv, Current
<1>2. CASE SchedulerStart
  BY <1>2 DEF SchedulerStart, IInv, Current
<1>3. ASSUME NEW t \in Thread, Schedule(t)
      PROVE  nest = 0 /\ cur' = Pick(ready', group') /\ stat'[Idle] = "ready"
  BY <1>1, <1>3, Constants DEF Schedule, Scheduled
<1>4. ASSUME NEW t \in Thread, Exit(t)
      PROVE  nest = 0 /\ cur' = Pick(ready', group') /\ stat'[Idle] = "ready"
  <2>1. t # NoThread /\ cur = t /\ t # Idle /\ nest = 0 /\ stat' = [stat EXCEPT ![t] = "close"]
    BY <1>4, Constants DEF Exit, Running, MayEnd
  <2> QED BY <1>1, <1>4, <2>1, Constants DEF Exit, Scheduled, IInv, TypeInv
<1>5. ASSUME NEW U, Tick(U)
      PROVE  nest = 0 /\ cur' = Pick(ready', group') /\ stat'[Idle] = "ready"
  BY <1>1, <1>5, Constants DEF Tick, Scheduled
<1>6. CASE UNCHANGED vars
  BY <1>6 DEF vars
<1>7. ASSUME NEW u \in Thread, BootStartup(u) PROVE FALSE
  BY <1>7 DEF BootStartup
<1>8. ASSUME NEW t \in Thread, Step(t)
      PROVE  nest = 0 /\ cur' = Pick(ready', group') /\ stat'[Idle] = "ready"
  BY <1>3, <1>4, <1>8 DEF Step, CallSchedule, Yield, Sleep, SuspendBody, ResumeUnlink,
     ResumeInsert, DetachClose, EnterCritical, ExitCritical, Suspend, Resume, Startup,
     Detach, ChangePriority
<1> QED BY <1>2, <1>5, <1>6, <1>7, <1>8 DEF Next, PlainTick, Timeout

(* Whoever gets the CPU is READY, nobody is detaching it, no READY thread  *)
(* is above it, and the scheduler is not locked at that moment.            *)
THEOREM SchedDispatchesHighest == Serialised => (Spec => DispatchesHighest)
<1> SUFFICES ASSUME Serialised PROVE Spec => DispatchesHighest
  OBVIOUS
<1> DEFINE A == cur' # cur => /\ nest = 0
                             /\ cur' \in Eligible'
                             /\ \A u \in Eligible' : prio'[cur'] <= prio'[u]
<1>1. (IInv /\ stat[Idle] = "ready" /\ cur = Pick(ready, group)
        => cur \in Eligible /\ \A u \in Eligible : prio[cur] <= prio[u])'
  BY PickedEligible, PTL
<1>2. IInv /\ [Next]_vars => [A]_vars
  <2> SUFFICES ASSUME IInv, [Next]_vars, cur' # cur PROVE A
    OBVIOUS
  <2>1. IInv'
    BY NextInv
  <2>2. nest = 0 /\ cur' = Pick(ready', group') /\ stat'[Idle] = "ready"
    BY DispatchedByPick
  <2> QED BY <1>1, <2>1, <2>2
<1> QED BY <1>2, Invariance, PTL DEF Spec, DispatchesHighest
=============================================================================
