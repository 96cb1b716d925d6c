--------------------------- MODULE RtTimerProofs ----------------------------
(***************************************************************************)
(* The timers for any number of them, any tick counter of at least five    *)
(* values and any periods the code admits: the ACTIVATED flag says what    *)
(* the list says, the list is sorted across the wrap of the counter, and   *)
(* every timer fires at the tick it was started for.                       *)
(*                                                                         *)
(* Ticks are compared by an unsigned subtraction, which is sound only      *)
(* while every linked timer is less than half the counter away, so the     *)
(* invariant says how far away they are: at most Half - 1 ticks ahead, and *)
(* one tick late at most, only during rt_timer_check.                      *)
(***************************************************************************)
EXTENDS RtTimer, RtListLemmas

LEMMA Constants ==
  Modulus \in Nat \ {0} /\ Half \in Nat \ {0, 1} /\ 2 * Half < Modulus
  /\ RT_TICK_MAX = Modulus - 1
BY TimerAssumption DEF Modulus, Half

LEMMA ModIs ==
  ASSUME NEW M \in Nat \ {0}, NEW x \in - M .. 2 * M - 1
  PROVE  x % M = IF x < 0 THEN x + M ELSE IF x < M THEN x ELSE x - M
<1>1. CASE x < 0
  <2>1. x \in - M .. -1
    BY <1>1
  <2> QED BY <1>1, <2>1
<1>2. CASE 0 <= x /\ x < M
  BY <1>2
<1>3. CASE x >= M
  <2>1. x \in M .. 2 * M - 1
    BY <1>3
  <2>2. x % M = x - M
    BY <2>1
  <2> QED BY <1>3, <2>2
<1> QED BY <1>1, <1>2, <1>3
----------------------------------------------------------------------------
(* The arithmetic of ticks: Left(due, now) is TimeLeft as a function of a  *)
(* timeout_tick and the tick counter.                                      *)
Tick == 0 .. RT_TICK_MAX
Left(due, now) ==
  IF Minus(due, now) < Half THEN Minus(due, now) ELSE - Minus(now, due)

LEMMA MinusIs ==
  ASSUME NEW a \in Tick, NEW b \in Tick
  PROVE  Minus(a, b) = IF a >= b THEN a - b ELSE a - b + Modulus
<1>1. a - b \in - Modulus .. 2 * Modulus - 1
  BY Constants DEF Tick
<1>2. (a - b) % Modulus = IF a - b < 0 THEN a - b + Modulus
                          ELSE IF a - b < Modulus THEN a - b ELSE a - b - Modulus
  BY <1>1, Constants, ModIs
<1> QED BY <1>2, Constants DEF Minus, Tick

LEMMA PlusIs ==
  ASSUME NEW a \in Tick, NEW n \in 0 .. Modulus - 1
  PROVE  /\ (a + n) % Modulus = IF a + n < Modulus THEN a + n ELSE a + n - Modulus
         /\ (a + n) % Modulus \in Tick
<1>1. CASE a + n < Modulus
  <2>1. a + n \in 0 .. Modulus - 1
    BY <1>1, Constants DEF Tick
  <2>2. (a + n) % Modulus = a + n
    BY <2>1, Constants
  <2> QED BY <1>1, <2>1, <2>2, Constants DEF Tick
<1>2. CASE ~ (a + n < Modulus)
  <2>1. a + n \in Modulus .. 2 * Modulus - 1
    BY <1>2, Constants DEF Tick
  <2>2. \A x \in Modulus .. 2 * Modulus - 1 : x % Modulus = x - Modulus
    BY Constants, ModIs
  <2>3. (a + n) % Modulus = a + n - Modulus
    <3>1. a \in Int /\ n \in Int
      BY Constants DEF Tick
    <3> QED BY <2>1, <2>2, <3>1, Constants
  <2> QED BY <1>2, <2>1, <2>3, Constants DEF Tick
<1> QED BY <1>1, <1>2

(* rt_timer_start: the time to go is what the timer was started with.      *)
LEMMA LeftOfStart ==
  ASSUME NEW now \in Tick, NEW n \in 0 .. Half - 1
  PROVE  (now + n) % Modulus \in Tick /\ Left((now + n) % Modulus, now) = n
<1> DEFINE due == (now + n) % Modulus
<1>1. /\ due = IF now + n < Modulus THEN now + n ELSE now + n - Modulus
      /\ due \in Tick
  BY PlusIs, Constants
<1> HIDE DEF due
<1>2. Minus(due, now) = n
  BY <1>1, MinusIs, Constants DEF Tick
<1>3. Left(due, now) = n
  BY <1>2, Constants DEF Left
<1> QED BY <1>1, <1>3 DEF due

(* A tick takes one from it.                                               *)
LEMMA LeftAfterTick ==
  ASSUME NEW now \in Tick, NEW due \in Tick, Left(due, now) \in 0 .. Half - 1
  PROVE  /\ (now + 1) % Modulus \in Tick
         /\ Left(due, (now + 1) % Modulus) = Left(due, now) - 1
<1> DEFINE then == (now + 1) % Modulus
<1>1. /\ then = IF now + 1 < Modulus THEN now + 1 ELSE now + 1 - Modulus
      /\ then \in Tick
  BY PlusIs, Constants
<1> HIDE DEF then
<1>2. /\ Minus(due, now) = IF due >= now THEN due - now ELSE due - now + Modulus
      /\ Minus(now, due) = IF now >= due THEN now - due ELSE now - due + Modulus
      /\ Minus(due, then) = IF due >= then THEN due - then ELSE due - then + Modulus
      /\ Minus(then, due) = IF then >= due THEN then - due ELSE then - due + Modulus
  BY <1>1, MinusIs
<1>3. Left(due, then) = Left(due, now) - 1
  BY <1>1, <1>2, Constants DEF Left, Tick
<1> QED BY <1>1, <1>3 DEF then

(* The tests of rt_timer_check and rt_timer_start decide what they are     *)
(* meant to decide.                                                        *)
LEMMA DueIs ==
  ASSUME NEW now \in Tick, NEW due \in Tick, Left(due, now) \in -1 .. Half - 1
  PROVE  Minus(now, due) < Half <=> Left(due, now) <= 0
<1>1. /\ Minus(due, now) = IF due >= now THEN due - now ELSE due - now + Modulus
      /\ Minus(now, due) = IF now >= due THEN now - due ELSE now - due + Modulus
  BY MinusIs
<1> QED BY <1>1, Constants DEF Left, Tick

LEMMA LaterIs ==
  ASSUME NEW now \in Tick, NEW due \in Tick, NEW other \in Tick,
         Left(due, now) \in 0 .. Half - 1, Left(other, now) \in -1 .. Half - 1
  PROVE  Minus(other, due) # 0 /\ Minus(other, due) < Half
           <=> Left(due, now) < Left(other, now)
<1>1. /\ Minus(due, now) = IF due >= now THEN due - now ELSE due - now + Modulus
      /\ Minus(now, due) = IF now >= due THEN now - due ELSE now - due + Modulus
      /\ Minus(other, now) = IF other >= now THEN other - now ELSE other - now + Modulus
      /\ Minus(now, other) = IF now >= other THEN now - other ELSE now - other + Modulus
      /\ Minus(other, due) = IF other >= due THEN other - due ELSE other - due + Modulus
  BY MinusIs
<1> QED BY <1>1, Constants DEF Left, Tick

(* Where rt_timer_start puts a timer.                                      *)
LEMMA PlaceForFacts ==
  ASSUME NEW q \in Seq(Timer), NEW deadline, NEW due,
         NEW later, later = {i \in 1 .. Len(q) : /\ Minus(due[q[i]], deadline) # 0
                                                 /\ Minus(due[q[i]], deadline) < Half}
  PROVE  /\ PlaceFor(q, deadline, due) \in 1 .. Len(q) + 1
         /\ \A i \in 1 .. Len(q) : i < PlaceFor(q, deadline, due) => i \notin later
         /\ PlaceFor(q, deadline, due) <= Len(q) => PlaceFor(q, deadline, due) \in later
<1>1. CASE later = {}
  BY <1>1 DEF PlaceFor
<1>2. CASE later # {}
  <2>1. later \in SUBSET Nat
    OBVIOUS
  <2>2. \E i \in later : \A j \in later : i <= j
    BY <1>2, <2>1, LeastNatural
  <2>3. PlaceFor(q, deadline, due) = CHOOSE i \in later : \A j \in later : i <= j
    BY <1>2 DEF PlaceFor
  <2>4. /\ PlaceFor(q, deadline, due) \in later
        /\ \A j \in later : PlaceFor(q, deadline, due) <= j
    BY <2>2, <2>3
  <2> HIDE DEF PlaceFor
  <2>5. \A i \in later : i \in 1 .. Len(q)
    OBVIOUS
  <2> QED BY <2>4, <2>5
<1> QED BY <1>1, <1>2
----------------------------------------------------------------------------
(* The inductive invariant of the list.                                    *)
Sooner ==
  {x \in Timer \X Timer :
     \/ TimeLeft(x[1]) < TimeLeft(x[2])
     \/ TimeLeft(x[1]) = TimeLeft(x[2]) /\ Position(order, x[1]) < Position(order, x[2])}

(* Only linked timers were started, and they are known to the container.   *)
ListsAgree ==
  /\ NoDuplicates(list) /\ NoDuplicates(order)
  /\ \A t \in Timer : Occurs(list, t) => Occurs(order, t) /\ t \in known

(* The temporary list holds the timer whose callback runs, and no other    *)
(* list does.                                                              *)
CallbackHeld ==
  held => phase = "call" /\ fired \in known /\ ~ Occurs(list, fired)

(* No linked timer is so far away that a comparison wraps, nor more than   *)
(* the tick late that is being checked.                                    *)
Near ==
  \A t \in Timer : Occurs(list, t) =>
    TimeLeft(t) \in (IF phase = "app" THEN 0 ELSE -1) .. Half - 1

ListInv ==
  /\ TypeOK /\ ListsAgree /\ CallbackHeld /\ Near
  /\ SortedIn(list, Sooner)

LEMMA TickTypes ==
  ASSUME TypeOK
  PROVE  tick \in Tick /\ timeout \in [Timer -> Tick] /\ list \in Seq(Timer)
         /\ order \in Seq(Timer) /\ initTick \in [Timer -> 0 .. Half - 1]
BY DEF TypeOK, Tick

LEMMA TimeLeftIs == \A t : TimeLeft(t) = Left(timeout[t], tick)
BY DEF TimeLeft, Left

LEMMA SoonerIs ==
  ASSUME NEW a \in Timer, NEW b \in Timer
  PROVE  <<a, b>> \in Sooner
           <=> \/ TimeLeft(a) < TimeLeft(b)
               \/ TimeLeft(a) = TimeLeft(b) /\ Position(order, a) < Position(order, b)
BY DEF Sooner

(* The invariant says of the list what SortedList does.                    *)
LEMMA InvSorted == ListInv => SortedList
<1> SUFFICES ASSUME ListInv PROVE SortedList
  OBVIOUS
<1>1. TypeOK /\ list \in Seq(Timer) /\ SortedIn(list, Sooner)
  BY TickTypes DEF ListInv
<1>2. ASSUME NEW i \in 1 .. Len(list), NEW j \in 1 .. Len(list), i < j
      PROVE  \/ TimeLeft(list[i]) < TimeLeft(list[j])
             \/ /\ TimeLeft(list[i]) = TimeLeft(list[j])
                /\ Position(order, list[i]) < Position(order, list[j])
  <2>1. list[i] \in Timer /\ list[j] \in Timer
    BY <1>1
  <2>2. <<list[i], list[j]>> \in Sooner
    BY <1>1, <1>2 DEF SortedIn
  <2> QED BY <2>1, <2>2, SoonerIs
<1> QED BY <1>1, <1>2 DEF SortedList

(* What rt_timer_start does to the list, whoever calls it.                 *)
LEMMA StartedFacts ==
  ASSUME ListInv, NEW t \in Timer, Started(t), UNCHANGED <<tick, initTick>>
  PROVE  /\ timeout' \in [Timer -> Tick]
         /\ list' \in Seq(Timer) /\ order' \in Seq(Timer)
         /\ NoDuplicates(list') /\ NoDuplicates(order')
         /\ \A x : Occurs(list', x) <=> x = t \/ Occurs(list, x)
         /\ \A x : Occurs(order', x) <=> x = t \/ Occurs(order, x)
         /\ TimeLeft(t)' = initTick[t]
         /\ \A u \in Timer : u # t => TimeLeft(u)' = TimeLeft(u)
         /\ SortedIn(list, Sooner)'
<1>1. /\ tick \in Tick /\ timeout \in [Timer -> Tick] /\ list \in Seq(Timer)
      /\ order \in Seq(Timer) /\ initTick[t] \in 0 .. Half - 1
      /\ NoDuplicates(list) /\ NoDuplicates(order)
      /\ \A u \in Timer : Occurs(list, u) => Occurs(order, u)
      /\ SortedIn(list, Sooner)
  BY TickTypes DEF ListInv, ListsAgree
<1>2. PICK deadline : deadline = (tick + initTick[t]) % Modulus
  OBVIOUS
<1>3. deadline \in Tick /\ Left(deadline, tick) = initTick[t]
  BY <1>1, <1>2, LeftOfStart
<1>4. PICK rest : rest = ListRemove(list, t)
  OBVIOUS
<1>5. /\ rest \in Seq(Timer) /\ NoDuplicates(rest)
      /\ \A x : Occurs(rest, x) <=> Occurs(list, x) /\ x # t
  BY <1>1, <1>4, RemoveFacts
<1>6. PICK started : started = ListRemove(order, t)
  OBVIOUS
<1>7. /\ started \in Seq(Timer) /\ NoDuplicates(started)
      /\ \A x : Occurs(started, x) <=> Occurs(order, x) /\ x # t
  BY <1>1, <1>6, RemoveFacts
<1>8. /\ timeout' = [timeout EXCEPT ![t] = deadline]
      /\ list' = ListInsertBefore(rest, PlaceFor(rest, deadline, timeout), t)
      /\ order' = ListAddTail(started, t)
  BY <1>2, <1>4, <1>6 DEF Started
<1>9. /\ order' \in Seq(Timer) /\ NoDuplicates(order')
      /\ \A x : Occurs(order', x) <=> x = t \/ Occurs(started, x)
      /\ \A x : Occurs(started, x) => /\ Position(order', x) = Position(started, x)
                                      /\ Position(started, x) < Position(order', t)
  BY <1>7, <1>8, AppendKeepsOrder
<1>10. /\ timeout' \in [Timer -> Tick] /\ timeout'[t] = deadline
       /\ \A u \in Timer : u # t => timeout'[u] = timeout[u]
  BY <1>1, <1>3, <1>8
<1>11. /\ TimeLeft(t)' = initTick[t]
       /\ \A u \in Timer : u # t => TimeLeft(u)' = TimeLeft(u)
  BY <1>3, <1>10, TimeLeftIs DEF TimeLeft, Left
<1>12. PICK p : p = PlaceFor(rest, deadline, timeout)
  OBVIOUS
<1>13. PICK later : later = {i \in 1 .. Len(rest) : /\ Minus(timeout[rest[i]], deadline) # 0
                                                    /\ Minus(timeout[rest[i]], deadline) < Half}
  OBVIOUS
<1>14. /\ p \in 1 .. Len(rest) + 1
       /\ \A i \in 1 .. Len(rest) : i < p => i \notin later
       /\ p <= Len(rest) => p \in later
  BY <1>5, <1>12, <1>13, PlaceForFacts
<1>15. \A i \in 1 .. Len(rest) :
         /\ rest[i] \in Timer /\ rest[i] # t /\ Occurs(rest, rest[i])
         /\ TimeLeft(rest[i]) \in -1 .. Half - 1
         /\ i \in later <=> initTick[t] < TimeLeft(rest[i])
  <2> TAKE i \in 1 .. Len(rest)
  <2>1. rest[i] \in Timer /\ Occurs(rest, rest[i])
    BY <1>5 DEF Occurs
  <2>2. Occurs(list, rest[i]) /\ rest[i] # t
    BY <1>5, <2>1
  <2>3. TimeLeft(rest[i]) \in -1 .. Half - 1
    BY <2>1, <2>2, Constants DEF ListInv, Near
  <2>4. timeout[rest[i]] \in Tick /\ Left(timeout[rest[i]], tick) \in -1 .. Half - 1
    BY <1>1, <2>1, <2>3, TimeLeftIs
  <2>5. Minus(timeout[rest[i]], deadline) # 0 /\ Minus(timeout[rest[i]], deadline) < Half
          <=> Left(deadline, tick) < Left(timeout[rest[i]], tick)
    BY <1>1, <1>3, <2>4, LaterIs
  <2>6. i \in later <=> initTick[t] < TimeLeft(rest[i])
    BY <1>3, <1>13, <2>5, TimeLeftIs
  <2> QED BY <2>1, <2>2, <2>3, <2>6
<1>16. /\ list' \in Seq(Timer) /\ NoDuplicates(list')
       /\ \A x : Occurs(list', x) <=> x = t \/ Occurs(rest, x)
  <2>1. ~ Occurs(rest, t)
    BY <1>5
  <2> QED BY <1>5, <1>8, <1>12, <1>14, <2>1, InsertFacts, InsertNoDuplicates
<1>17. PICK S : S = Sooner'
  OBVIOUS
<1>18. ASSUME NEW a \in Timer, NEW b \in Timer
       PROVE  <<a, b>> \in S
                <=> \/ TimeLeft(a)' < TimeLeft(b)'
                    \/ TimeLeft(a)' = TimeLeft(b)' /\ Position(order', a) < Position(order', b)
  BY <1>17 DEF Sooner
<1>19. SortedIn(rest, S)
  <2>1. SortedIn(rest, Sooner)
    BY <1>1, <1>4, RemoveSortedIn
  <2>2. ASSUME NEW a \in Timer, NEW b \in Timer, Occurs(rest, a), Occurs(rest, b),
               <<a, b>> \in Sooner
        PROVE  <<a, b>> \in S
    <3>1. /\ a # t /\ b # t /\ Occurs(order, a) /\ Occurs(order, b)
          /\ Occurs(started, a) /\ Occurs(started, b)
      BY <1>1, <1>5, <1>7, <2>2
    <3>2. TimeLeft(a)' = TimeLeft(a) /\ TimeLeft(b)' = TimeLeft(b)
      BY <1>11, <3>1
    <3>3. Position(order, a) < Position(order, b)
            => Position(order', a) < Position(order', b)
      BY <1>1, <1>6, <1>9, <3>1, RemoveKeepsOrder
    <3> QED BY <1>18, <2>2, <3>2, <3>3, SoonerIs
  <2> QED BY <1>5, <2>1, <2>2, SortedInOther
<1>20. ASSUME NEW i \in 1 .. Len(rest), i < p PROVE <<rest[i], t>> \in S
  <2>1. TimeLeft(rest[i]) <= initTick[t]
    BY <1>1, <1>14, <1>15, <1>20, Constants
  <2>2. Position(order', rest[i]) < Position(order', t)
    <3>1. Occurs(started, rest[i])
      BY <1>1, <1>5, <1>7, <1>15
    <3> QED BY <1>9, <3>1
  <2>3. rest[i] \in Timer /\ TimeLeft(rest[i])' = TimeLeft(rest[i])
        /\ TimeLeft(rest[i]) \in Int /\ initTick[t] \in Int
    BY <1>1, <1>11, <1>15, Constants
  <2> QED BY <1>11, <1>18, <2>1, <2>2, <2>3
<1>21. ASSUME NEW i \in 1 .. Len(rest), p <= i PROVE <<t, rest[i]>> \in S
  <2>1. p \in 1 .. Len(rest) /\ initTick[t] < TimeLeft(rest[p])
    BY <1>14, <1>15, <1>21
  <2>2. TimeLeft(rest[p]) <= TimeLeft(rest[i])
    <3>1. CASE p = i
      BY <1>15, <3>1, Constants
    <3>2. CASE p < i
      <4>1. <<rest[p], rest[i]>> \in Sooner
        <5>1. SortedIn(rest, Sooner)
          BY <1>1, <1>4, RemoveSortedIn
        <5> QED BY <2>1, <3>2, <5>1 DEF SortedIn
      <4> QED BY <1>15, <2>1, <4>1, SoonerIs, Constants
    <3> QED BY <1>14, <1>21, <3>1, <3>2
  <2>3. TimeLeft(rest[i])' = TimeLeft(rest[i]) /\ TimeLeft(rest[i]) \in Int
        /\ TimeLeft(rest[p]) \in Int /\ initTick[t] \in Int /\ rest[i] \in Timer
    BY <1>1, <1>11, <1>15, <2>1, Constants
  <2> QED BY <1>11, <1>18, <2>1, <2>2, <2>3
<1>22. SortedIn(list', S)
  BY <1>5, <1>8, <1>12, <1>14, <1>19, <1>20, <1>21, InsertSortedIn
<1>23. SortedIn(list, Sooner)'
  BY <1>17, <1>22
<1> QED BY <1>5, <1>7, <1>9, <1>10, <1>11, <1>16, <1>23

(* Taking a timer out of the list, and leaving the list alone.             *)
LEMMA UnlinkedFacts ==
  ASSUME ListInv, NEW t \in Timer, UNCHANGED <<tick, timeout>>,
         list' = ListRemove(list, t), order' = ListRemove(order, t)
  PROVE  /\ list' \in Seq(Timer) /\ order' \in Seq(Timer)
         /\ NoDuplicates(list') /\ NoDuplicates(order')
         /\ \A x : Occurs(list', x) <=> Occurs(list, x) /\ x # t
         /\ \A x : Occurs(order', x) <=> Occurs(order, x) /\ x # t
         /\ \A u \in Timer : TimeLeft(u)' = TimeLeft(u)
         /\ SortedIn(list, Sooner)'
<1>1. /\ list \in Seq(Timer) /\ order \in Seq(Timer)
      /\ NoDuplicates(list) /\ NoDuplicates(order)
      /\ \A u \in Timer : Occurs(list, u) => Occurs(order, u)
      /\ SortedIn(list, Sooner)
  BY TickTypes DEF ListInv, ListsAgree
<1>2. /\ list' \in Seq(Timer) /\ NoDuplicates(list')
      /\ \A x : Occurs(list', x) <=> Occurs(list, x) /\ x # t
  BY <1>1, RemoveFacts
<1>3. /\ order' \in Seq(Timer) /\ NoDuplicates(order')
      /\ \A x : Occurs(order', x) <=> Occurs(order, x) /\ x # t
  BY <1>1, RemoveFacts
<1>4. \A u \in Timer : TimeLeft(u)' = TimeLeft(u)
  BY DEF TimeLeft
<1>5. PICK S : S = Sooner'
  OBVIOUS
<1>6. SortedIn(list', Sooner)
  BY <1>1, RemoveSortedIn
<1>7. ASSUME NEW a \in Timer, NEW b \in Timer, Occurs(list', a), Occurs(list', b),
             <<a, b>> \in Sooner
      PROVE  <<a, b>> \in S
  <2>1. Occurs(order, a) /\ Occurs(order, b) /\ a # t /\ b # t
    BY <1>1, <1>2, <1>7
  <2>2. Position(order, a) < Position(order, b) => Position(order', a) < Position(order', b)
    BY <1>1, <2>1, RemoveKeepsOrder
  <2> QED BY <1>4, <1>5, <1>7, <2>2, SoonerIs DEF Sooner
<1>8. SortedIn(list', S)
  BY <1>2, <1>6, <1>7, SortedInOther
<1> QED BY <1>2, <1>3, <1>4, <1>5, <1>8

LEMMA UntouchedFacts ==
  ASSUME ListInv, UNCHANGED <<tick, list, order>>,
         \A u \in Timer : Occurs(list, u) => timeout'[u] = timeout[u]
  PROVE  /\ \A u \in Timer : Occurs(list, u) => TimeLeft(u)' = TimeLeft(u)
         /\ SortedIn(list, Sooner)'
<1>1. list \in Seq(Timer) /\ SortedIn(list, Sooner)
  BY TickTypes DEF ListInv
<1>2. \A u \in Timer : Occurs(list, u) => TimeLeft(u)' = TimeLeft(u)
  BY DEF TimeLeft
<1>3. PICK S : S = Sooner'
  OBVIOUS
<1>4. ASSUME NEW a \in Timer, NEW b \in Timer, Occurs(list, a), Occurs(list, b),
             <<a, b>> \in Sooner
      PROVE  <<a, b>> \in S
  BY <1>2, <1>3, <1>4, SoonerIs DEF Sooner
<1>5. SortedIn(list, S)
  BY <1>1, <1>4, SortedInOther
<1> QED BY <1>2, <1>3, <1>5
----------------------------------------------------------------------------
(* What a user of the timers sees of the list: the ticks each has to go.   *)
Remaining ==
  [t \in Timer |-> IF ~ Occurs(list, t) THEN -1
                   ELSE IF TimeLeft(t) > 0 THEN TimeLeft(t) ELSE 0]

TimerStep == ListInv' /\ [Countdown!Next]_<<Remaining, phase>>

LEMMA SameRemaining ==
  ASSUME \A u \in Timer :
           /\ Occurs(list', u) <=> Occurs(list, u)
           /\ Occurs(list, u) => TimeLeft(u)' = TimeLeft(u)
  PROVE  Remaining' = Remaining
BY DEF Remaining

LEMMA SetRemaining ==
  ASSUME NEW t \in Timer, NEW n, Remaining'[t] = n,
         \A u \in Timer : u # t =>
           /\ Occurs(list', u) <=> Occurs(list, u)
           /\ Occurs(list, u) => TimeLeft(u)' = TimeLeft(u)
  PROVE  Countdown!Set(t, n)
<1>1. ASSUME NEW u \in Timer PROVE Remaining'[u] = IF u = t THEN n ELSE Remaining[u]
  <2>1. /\ Remaining[u] = IF ~ Occurs(list, u) THEN -1
                         ELSE IF TimeLeft(u) > 0 THEN TimeLeft(u) ELSE 0
        /\ Remaining'[u] = IF ~ Occurs(list', u) THEN -1
                          ELSE IF TimeLeft(u)' > 0 THEN TimeLeft(u)' ELSE 0
    BY DEF Remaining
  <2>2. CASE u = t
    <3>1. Remaining'[u] = n
      BY <2>2
    <3> QED BY <2>2, <3>1
  <2>3. CASE u # t
    BY <2>1, <2>3
  <2> QED BY <2>2, <2>3
<1>2. Remaining' = [u \in Timer |-> Remaining'[u]] /\ Remaining = [u \in Timer |-> Remaining[u]]
  BY DEF Remaining
<1>3. Remaining' = [Remaining EXCEPT ![t] = n]
  <2> HIDE DEF Remaining
  <2> QED BY <1>1, <1>2
<1> QED BY <1>3 DEF Countdown!Set, Remaining

(* The calls of threads and callbacks.                                     *)
LEMMA StartStep ==
  ASSUME ListInv, NEW t \in Timer, Start(t)
  PROVE  TimerStep
<1> USE DEF ListInv
<1>1. /\ Started(t) /\ Calling /\ t \in known /\ held' = (held /\ fired # t)
      /\ UNCHANGED <<tick, initTick, periodic, known, stopping, phase, fired>>
  BY DEF Start, Released
<1>2. /\ timeout' \in [Timer -> Tick]
      /\ list' \in Seq(Timer) /\ order' \in Seq(Timer)
      /\ NoDuplicates(list') /\ NoDuplicates(order')
      /\ \A x : Occurs(list', x) <=> x = t \/ Occurs(list, x)
      /\ \A x : Occurs(order', x) <=> x = t \/ Occurs(order, x)
      /\ TimeLeft(t)' = initTick[t]
      /\ \A u \in Timer : u # t => TimeLeft(u)' = TimeLeft(u)
      /\ SortedIn(list, Sooner)'
  BY <1>1, StartedFacts
<1>3. initTick[t] \in 0 .. Half - 1
  BY TickTypes
<1>4. TypeOK'
  <2>1. active' \subseteq Timer
    BY <1>1 DEF Started, TypeOK
  <2>2. held' \in BOOLEAN
    BY <1>1
  <2> QED BY <1>1, <1>2, <2>1, <2>2 DEF TypeOK, Tick
<1>5. ListsAgree'
  BY <1>1, <1>2 DEF ListsAgree
<1>6. CallbackHeld'
  BY <1>1, <1>2 DEF CallbackHeld
<1>7. Near'
  BY <1>1, <1>2, <1>3, Constants DEF Near
<1>9. Countdown!Start(t)
  <2>1. Remaining'[t] = initTick[t]
    BY <1>2, <1>3, Constants DEF Remaining
  <2>2. Countdown!Set(t, initTick[t])
    BY <1>2, <2>1, SetRemaining
  <2> QED BY <1>1, <1>3, <2>2 DEF Countdown!Start, Calling
<1> QED BY <1>2, <1>4, <1>5, <1>6, <1>7, <1>9 DEF TimerStep, Countdown!Next

(* rt_timer_stop and rt_timer_detach, from a thread or a callback.         *)
LEMMA StopStep ==
  ASSUME ListInv, NEW t \in Timer, StopBody(t) \/ StopInCallback(t) \/ Detach(t)
  PROVE  TimerStep
<1> USE DEF ListInv
<1>1. /\ list' = ListRemove(list, t) /\ order' = ListRemove(order, t)
      /\ active' = active \ {t} /\ UNCHANGED <<tick, timeout, initTick, periodic, phase, fired>>
      /\ phase # "check"
  BY DEF StopBody, StopInCallback, Detach, Unlinked, settings, check, Calling
<1>2. /\ stopping' \subseteq stopping /\ known' \in {known, known \ {t}}
  BY DEF StopBody, StopInCallback, Detach, settings
<1>3. held' = held \/ held' = (held /\ fired # t)
  BY DEF StopBody, StopInCallback, Detach, Released, check
<1>4. fired # t \/ ~ held'
  BY DEF StopBody, StopInCallback, Detach, Released, check, CallbackHeld
<1>5. /\ list' \in Seq(Timer) /\ order' \in Seq(Timer)
      /\ NoDuplicates(list') /\ NoDuplicates(order')
      /\ \A x : Occurs(list', x) <=> Occurs(list, x) /\ x # t
      /\ \A x : Occurs(order', x) <=> Occurs(order, x) /\ x # t
      /\ \A u \in Timer : TimeLeft(u)' = TimeLeft(u)
      /\ SortedIn(list, Sooner)'
  BY <1>1, UnlinkedFacts
<1>6. TypeOK'
  <2>1. held' \in BOOLEAN
    BY <1>3 DEF TypeOK
  <2> QED BY <1>1, <1>2, <1>5, <2>1 DEF TypeOK
<1>7. ListsAgree'
  BY <1>2, <1>5 DEF ListsAgree
<1>8. CallbackHeld'
  <2>1. held' => held
    BY <1>3
  <2> QED BY <1>1, <1>2, <1>4, <1>5, <2>1 DEF CallbackHeld
<1>9. Near'
  BY <1>1, <1>5 DEF Near
<1>10. Countdown!Stop(t)
  <2>1. Remaining'[t] = -1
    BY <1>5 DEF Remaining
  <2>2. Countdown!Set(t, -1)
    BY <1>5, <2>1, SetRemaining
  <2> QED BY <1>1, <2>2 DEF Countdown!Stop
<1> QED BY <1>5, <1>6, <1>7, <1>8, <1>9, <1>10 DEF TimerStep, Countdown!Next

(* Calls that leave the list as it is.                                     *)
LEMMA SettingStep ==
  ASSUME ListInv, NEW t \in Timer, NEW n \in 0 .. Half - 1, NEW b \in BOOLEAN,
         StopTest(t) \/ Initialise(t, n, b) \/ SetTime(t, n) \/ SetPeriodic(t, b)
  PROVE  TimerStep
<1> USE DEF ListInv
<1>1. /\ UNCHANGED <<tick, list, active, check, order>>
      /\ stopping' \subseteq Timer
  BY DEF StopTest, Initialise, SetTime, SetPeriodic, settings, TypeOK
<1>2. /\ \A u \in Timer : Occurs(list, u) => timeout'[u] = timeout[u]
      /\ timeout' \in [Timer -> Tick]
      /\ known' \in {known, known \union {t}}
  <2>1. timeout \in [Timer -> Tick] /\ 0 \in Tick
    BY TickTypes, Constants DEF Tick
  <2>2. CASE Initialise(t, n, b)
    <3>1. t \notin known /\ timeout' = [timeout EXCEPT ![t] = 0] /\ known' = known \union {t}
      BY <2>2 DEF Initialise
    <3> QED BY <2>1, <3>1 DEF ListsAgree
  <2>3. CASE UNCHANGED <<timeout, known>>
    BY <2>1, <2>3
  <2> QED BY <2>2, <2>3 DEF StopTest, SetTime, SetPeriodic, settings
<1>3. /\ initTick' \in [Timer -> 0 .. Half - 1]
      /\ periodic' \subseteq Timer
  <2>2. initTick \in [Timer -> 0 .. Half - 1] /\ periodic \subseteq Timer
    BY DEF TypeOK
  <2>3. CASE StopTest(t)
    BY <2>2, <2>3 DEF StopTest, settings
  <2>4. CASE Initialise(t, n, b)
    <3>1. /\ initTick' = [initTick EXCEPT ![t] = n]
          /\ periodic' = IF b THEN periodic \union {t} ELSE periodic \ {t}
      BY <2>4 DEF Initialise
    <3> QED BY <2>2, <3>1
  <2>5. CASE SetTime(t, n)
    BY <2>2, <2>5 DEF SetTime
  <2>6. CASE SetPeriodic(t, b)
    BY <2>2, <2>6 DEF SetPeriodic
  <2> QED BY <2>3, <2>4, <2>5, <2>6
<1>4. /\ \A u \in Timer : Occurs(list, u) => TimeLeft(u)' = TimeLeft(u)
      /\ SortedIn(list, Sooner)'
  BY <1>1, <1>2, UntouchedFacts
<1>5. TypeOK'
  BY <1>1, <1>2, <1>3 DEF TypeOK, Tick, check
<1>6. ListsAgree' /\ CallbackHeld' /\ Near'
  BY <1>1, <1>2, <1>3, <1>4 DEF ListsAgree, CallbackHeld, Near, check
<1>7. UNCHANGED <<Remaining, phase>>
  BY <1>1, <1>4, SameRemaining DEF check
<1> QED BY <1>4, <1>5, <1>6, <1>7 DEF TimerStep
----------------------------------------------------------------------------
(* The tick interrupt.                                                     *)
LEMMA TickStep ==
  ASSUME ListInv, TickIncrease
  PROVE  TimerStep
<1> USE DEF ListInv
<1>1. /\ phase = "app" /\ phase' = "check" /\ tick' = (tick + 1) % Modulus
      /\ UNCHANGED <<list, settings, active, stopping, fired, held, order>>
  BY DEF TickIncrease
<1>2. tick' \in Tick
  BY <1>1, TickTypes, PlusIs, Constants
<1>3. ASSUME NEW u \in Timer, Occurs(list, u)
      PROVE  TimeLeft(u) \in 0 .. Half - 1 /\ TimeLeft(u)' = TimeLeft(u) - 1
  <2>1. TimeLeft(u) \in 0 .. Half - 1
    BY <1>1, <1>3 DEF Near
  <2>2. Left(timeout[u], (tick + 1) % Modulus) = Left(timeout[u], tick) - 1
    BY <2>1, TickTypes, TimeLeftIs, LeftAfterTick
  <2>3. TimeLeft(u)' = Left(timeout[u], (tick + 1) % Modulus)
    BY <1>1 DEF TimeLeft, Left, settings
  <2> QED BY <2>1, <2>2, <2>3, TimeLeftIs
<1>4. SortedIn(list, Sooner)'
  <2>1. PICK S : S = Sooner'
    OBVIOUS
  <2>2. ASSUME NEW a \in Timer, NEW b \in Timer, Occurs(list, a), Occurs(list, b),
               <<a, b>> \in Sooner
        PROVE  <<a, b>> \in S
    <3>1. /\ TimeLeft(a)' = TimeLeft(a) - 1 /\ TimeLeft(b)' = TimeLeft(b) - 1
          /\ TimeLeft(a) \in Int /\ TimeLeft(b) \in Int
      BY <1>3, <2>2, Constants
    <3> QED BY <1>1, <2>1, <2>2, <3>1, SoonerIs DEF Sooner
  <2>3. SortedIn(list, S)
    BY <2>2, TickTypes, SortedInOther
  <2> QED BY <1>1, <2>1, <2>3
<1>5. TypeOK'
  BY <1>1, <1>2 DEF TypeOK, Tick, settings
<1>6. ListsAgree' /\ CallbackHeld'
  BY <1>1 DEF ListsAgree, CallbackHeld, settings
<1>7. Near'
  BY <1>1, <1>3, Constants DEF Near
<1>8. Countdown!Tick
  <2>1. ASSUME NEW u \in Timer
        PROVE  Remaining'[u] = IF Remaining[u] > 0 THEN Remaining[u] - 1 ELSE Remaining[u]
    BY <1>1, <1>3, Constants DEF Remaining
  <2>2. Remaining' = [u \in Timer |-> Remaining'[u]]
    BY DEF Remaining
  <2>3. Remaining' = [u \in Timer |-> IF Remaining[u] > 0 THEN Remaining[u] - 1
                                     ELSE Remaining[u]]
    <3> HIDE DEF Remaining
    <3> QED BY <2>1, <2>2
  <2> QED BY <1>1, <2>3 DEF Countdown!Tick, Remaining
<1> QED BY <1>4, <1>5, <1>6, <1>7, <1>8 DEF TimerStep, Countdown!Next

(* rt_timer_check looks at the first timer only, which is enough: it is    *)
(* due exactly when its countdown is over, and no other is sooner.         *)
LEMMA HeadFacts ==
  ASSUME ListInv, list # <<>>
  PROVE  /\ Head(list) \in Timer /\ Occurs(list, Head(list))
         /\ Due(Head(list)) <=> TimeLeft(Head(list)) <= 0
         /\ \A u \in Timer : Occurs(list, u) => TimeLeft(Head(list)) <= TimeLeft(u)
<1> USE DEF ListInv
<1>1. /\ list \in Seq(Timer) /\ 1 \in 1 .. Len(list) /\ Head(list) = list[1]
      /\ list[1] \in Timer
  BY TickTypes
<1>2. Occurs(list, list[1])
  BY <1>1 DEF Occurs
<1>3. \A u \in Timer : Occurs(list, u) => TimeLeft(u) \in -1 .. Half - 1
  BY Constants DEF Near
<1>4. Due(list[1]) <=> TimeLeft(list[1]) <= 0
  <2>1. Left(timeout[list[1]], tick) \in -1 .. Half - 1
    BY <1>1, <1>2, <1>3, TimeLeftIs
  <2> QED BY <1>1, <2>1, TickTypes, DueIs, TimeLeftIs DEF Due
<1>5. ASSUME NEW u \in Timer, Occurs(list, u) PROVE TimeLeft(list[1]) <= TimeLeft(u)
  <2>1. PICK i \in 1 .. Len(list) : list[i] = u
    BY <1>5 DEF Occurs
  <2>2. CASE i = 1
    BY <1>3, <1>5, <2>1, <2>2, Constants
  <2>3. CASE 1 < i
    <3>1. <<list[1], u>> \in Sooner
      BY <1>1, <2>1, <2>3 DEF SortedIn
    <3> QED BY <1>1, <1>2, <1>3, <1>5, <3>1, SoonerIs, Constants
  <2> QED BY <1>1, <2>1, <2>2, <2>3
<1> QED BY <1>1, <1>2, <1>4, <1>5

LEMMA FireStep ==
  ASSUME ListInv, Fire
  PROVE  TimerStep
<1> USE DEF ListInv
<1>1. PICK t : t = Head(list)
  OBVIOUS
<1>2. /\ phase = "check" /\ phase' = "call" /\ list # <<>> /\ Due(t)
      /\ list' = Tail(list) /\ order' = ListRemove(order, t)
      /\ active' = IF t \in periodic THEN active ELSE active \ {t}
      /\ fired' = t /\ held' = TRUE /\ UNCHANGED <<tick, settings, stopping>>
  BY <1>1 DEF Fire, HeadDue
<1>3. /\ list \in Seq(Timer) /\ order \in Seq(Timer)
      /\ NoDuplicates(list) /\ NoDuplicates(order)
      /\ \A u \in Timer : Occurs(list, u) => Occurs(order, u) /\ u \in known
  BY TickTypes DEF ListsAgree
<1>4. /\ t \in Timer /\ Occurs(list, t) /\ list' \in Seq(Timer) /\ NoDuplicates(list')
      /\ \A x : Occurs(list', x) <=> Occurs(list, x) /\ x # t
  BY <1>1, <1>2, <1>3, TailFacts
<1>5. /\ order' \in Seq(Timer) /\ NoDuplicates(order')
      /\ \A x : Occurs(order', x) <=> Occurs(order, x) /\ x # t
  BY <1>2, <1>3, RemoveFacts
<1>6. \A u \in Timer : TimeLeft(u)' = TimeLeft(u)
  BY <1>2 DEF TimeLeft, settings
<1>7. SortedIn(list, Sooner)'
  <2>1. PICK S : S = Sooner'
    OBVIOUS
  <2>2. SortedIn(list', Sooner)
    BY <1>2, <1>3, TailSortedIn
  <2>3. ASSUME NEW a \in Timer, NEW b \in Timer, Occurs(list', a), Occurs(list', b),
               <<a, b>> \in Sooner
        PROVE  <<a, b>> \in S
    <3>1. Occurs(order, a) /\ Occurs(order, b) /\ a # t /\ b # t
      BY <1>3, <1>4, <2>3
    <3>2. Position(order, a) < Position(order, b) => Position(order', a) < Position(order', b)
      BY <1>2, <1>3, <3>1, RemoveKeepsOrder
    <3> QED BY <1>6, <2>1, <2>3, <3>2, SoonerIs DEF Sooner
  <2>4. SortedIn(list', S)
    BY <1>4, <2>2, <2>3, SortedInOther
  <2> QED BY <2>1, <2>4
<1>8. TypeOK'
  BY <1>2, <1>4, <1>5 DEF TypeOK, settings
<1>9. ListsAgree' /\ CallbackHeld'
  BY <1>2, <1>3, <1>4, <1>5 DEF ListsAgree, CallbackHeld, settings
<1>10. Near'
  BY <1>2, <1>4, <1>6 DEF Near
<1>11. Countdown!Fire(t)
  <2>1. Remaining[t] = 0
    <3>1. TimeLeft(t) <= 0 /\ TimeLeft(t) \in Int
      BY <1>1, <1>2, <1>4, HeadFacts, Constants DEF Near
    <3> QED BY <1>4, <3>1 DEF Remaining
  <2>2. Remaining'[t] = -1
    BY <1>4 DEF Remaining
  <2>3. Countdown!Set(t, -1)
    BY <1>4, <1>6, <2>2, SetRemaining
  <2> QED BY <1>2, <2>1, <2>3 DEF Countdown!Fire, Remaining
<1> QED BY <1>4, <1>7, <1>8, <1>9, <1>10, <1>11 DEF TimerStep, Countdown!Next

LEMMA ReturnStep ==
  ASSUME ListInv, Return
  PROVE  TimerStep
<1> USE DEF ListInv
<1>1. /\ phase = "call" /\ phase' = "check" /\ fired' = NoTimer /\ held' = FALSE
      /\ UNCHANGED <<tick, initTick, periodic, known, stopping>>
  BY DEF Return
<1>2. CASE held /\ fired \in periodic \intersect active
  <2>1. PICK t \in Timer : t = fired /\ t \in periodic
    BY <1>2 DEF TypeOK
  <2>2. Started(t)
    BY <1>2, <2>1 DEF Return
  <2>3. /\ timeout' \in [Timer -> Tick]
        /\ list' \in Seq(Timer) /\ order' \in Seq(Timer)
        /\ NoDuplicates(list') /\ NoDuplicates(order')
        /\ \A x : Occurs(list', x) <=> x = t \/ Occurs(list, x)
        /\ \A x : Occurs(order', x) <=> x = t \/ Occurs(order, x)
        /\ TimeLeft(t)' = initTick[t]
        /\ \A u \in Timer : u # t => TimeLeft(u)' = TimeLeft(u)
        /\ SortedIn(list, Sooner)'
    BY <1>1, <2>2, StartedFacts
  <2>4. initTick[t] \in 0 .. Half - 1 /\ t \in known /\ ~ Occurs(list, t)
    BY <1>2, <2>1, TickTypes DEF CallbackHeld
  <2>5. TypeOK'
    <3>1. active' \subseteq Timer
      BY <2>2 DEF Started, TypeOK
    <3> QED BY <1>1, <2>3, <3>1 DEF TypeOK, Tick
  <2>6. ListsAgree' /\ CallbackHeld'
    BY <1>1, <2>3, <2>4 DEF ListsAgree, CallbackHeld
  <2>7. Near'
    BY <1>1, <2>3, <2>4, Constants DEF Near
  <2>8. Countdown!Return
    <3>1. Remaining[t] = -1 /\ Remaining'[t] = initTick[t] /\ initTick[t] \in 0 .. Half - 1
      BY <2>3, <2>4, Constants DEF Remaining
    <3>2. Countdown!Set(t, initTick[t])
      BY <2>3, <3>1, SetRemaining
    <3> QED BY <1>1, <3>1, <3>2 DEF Countdown!Return, Remaining
  <2> QED BY <2>3, <2>5, <2>6, <2>7, <2>8 DEF TimerStep, Countdown!Next
<1>3. CASE ~ (held /\ fired \in periodic \intersect active)
  <2>1. UNCHANGED <<timeout, list, active, order>>
    BY <1>3 DEF Return
  <2>2. /\ \A u \in Timer : Occurs(list, u) => TimeLeft(u)' = TimeLeft(u)
        /\ SortedIn(list, Sooner)'
    BY <1>1, <2>1, UntouchedFacts
  <2>3. TypeOK' /\ ListsAgree' /\ CallbackHeld'
    BY <1>1, <2>1 DEF TypeOK, ListsAgree, CallbackHeld
  <2>4. Near'
    BY <1>1, <2>1, <2>2 DEF Near
  <2>5. Countdown!Return
    <3>1. UNCHANGED Remaining
      BY <2>1, <2>2, SameRemaining
    <3> QED BY <1>1, <3>1 DEF Countdown!Return, Remaining
  <2> QED BY <2>2, <2>3, <2>4, <2>5 DEF TimerStep, Countdown!Next
<1> QED BY <1>2, <1>3

LEMMA DoneStep ==
  ASSUME ListInv, Done
  PROVE  TimerStep
<1> USE DEF ListInv
<1>1. /\ phase = "check" /\ phase' = "app" /\ ~ HeadDue
      /\ UNCHANGED <<tick, list, settings, active, stopping, fired, held, order>>
  BY DEF Done
<1>2. /\ \A u \in Timer : Occurs(list, u) => TimeLeft(u)' = TimeLeft(u)
      /\ SortedIn(list, Sooner)'
  BY <1>1, UntouchedFacts DEF settings
<1>3. ASSUME NEW u \in Timer, Occurs(list, u) PROVE TimeLeft(u) \in 1 .. Half - 1
  <2>1. list # <<>>
    BY <1>3, EmptyFacts
  <2>2. /\ TimeLeft(u) \in -1 .. Half - 1 /\ TimeLeft(Head(list)) \in -1 .. Half - 1
        /\ TimeLeft(Head(list)) <= TimeLeft(u)
        /\ ~ (TimeLeft(Head(list)) <= 0)
    BY <1>1, <1>3, <2>1, HeadFacts DEF Near, HeadDue
  <2> QED BY <2>2, Constants
<1>4. TypeOK' /\ ListsAgree' /\ CallbackHeld'
  BY <1>1 DEF TypeOK, ListsAgree, CallbackHeld, settings
<1>5. Near'
  BY <1>1, <1>2, <1>3, Constants DEF Near
<1>6. Countdown!Done
  <2>1. UNCHANGED Remaining
    BY <1>1, <1>2, SameRemaining
  <2>2. \A u \in Timer : Remaining[u] # 0
    BY <1>3, Constants DEF Remaining
  <2> QED BY <1>1, <2>1, <2>2 DEF Countdown!Done, Remaining
<1> QED BY <1>2, <1>4, <1>5, <1>6 DEF TimerStep, Countdown!Next
----------------------------------------------------------------------------
LEMMA NextStep ==
  ASSUME ListInv, [Next]_vars
  PROVE  TimerStep
<1>1. ASSUME NEW t \in Timer,
             \/ Start(t) \/ StopTest(t) \/ StopBody(t) \/ StopInCallback(t) \/ Detach(t)
             \/ \E n \in Times[t] :
                  SetTime(t, n) \/ \E p \in BOOLEAN : Initialise(t, n, p)
             \/ \E p \in BOOLEAN : SetPeriodic(t, p)
      PROVE  TimerStep
  <2>1. CASE Start(t)
    BY <2>1, StartStep
  <2>2. CASE StopBody(t) \/ StopInCallback(t) \/ Detach(t)
    BY <2>2, StopStep
  <2>3. 0 \in 0 .. Half - 1 /\ Times[t] \subseteq 0 .. Half - 1 /\ TRUE \in BOOLEAN
    BY Constants, TimerAssumption
  <2>4. CASE StopTest(t)
    BY <2>3, <2>4, SettingStep
  <2>5. CASE \E n \in Times[t] : SetTime(t, n) \/ \E p \in BOOLEAN : Initialise(t, n, p)
    BY <2>3, <2>5, SettingStep
  <2>6. CASE \E p \in BOOLEAN : SetPeriodic(t, p)
    BY <2>3, <2>6, SettingStep
  <2> QED BY <1>1, <2>1, <2>2, <2>4, <2>5, <2>6
<1>2. CASE UNCHANGED vars
  <2>1. UNCHANGED <<tick, list, timeout, initTick, periodic, known, active, stopping,
                    phase, fired, held, order>>
    BY <1>2 DEF vars, settings, check
  <2>2. /\ \A u \in Timer : Occurs(list, u) => TimeLeft(u)' = TimeLeft(u)
        /\ SortedIn(list, Sooner)'
    BY <2>1, UntouchedFacts
  <2>3. ListInv'
    BY <2>1, <2>2 DEF ListInv, TypeOK, ListsAgree, CallbackHeld, Near
  <2>4. UNCHANGED <<Remaining, phase>>
    BY <2>1, <2>2, SameRemaining
  <2> QED BY <2>3, <2>4 DEF TimerStep
<1>3. CASE Interrupt
  BY <1>3, TickStep, FireStep, ReturnStep, DoneStep DEF Interrupt
<1> QED BY <1>1, <1>2, <1>3 DEF Next

LEMMA InitStep == Init => ListInv /\ Countdown!Init
<1> SUFFICES ASSUME Init PROVE ListInv /\ Countdown!Init
  OBVIOUS
<1>1. /\ list \in Seq(Timer) /\ order \in Seq(Timer)
      /\ NoDuplicates(list) /\ NoDuplicates(order) /\ \A u : ~ Occurs(list, u)
  BY EmptyFacts DEF Init, NoDuplicates
<1>2. TypeOK
  <2>1. held \in BOOLEAN
    BY DEF Init
  <2>2. /\ 0 \in 0 .. RT_TICK_MAX /\ 0 \in 0 .. Half - 1
        /\ [t \in Timer |-> 0] \in [Timer -> 0 .. RT_TICK_MAX]
        /\ [t \in Timer |-> 0] \in [Timer -> 0 .. Half - 1]
    BY Constants
  <2> QED BY <1>1, <2>1, <2>2 DEF Init, TypeOK
<1>3. ListsAgree /\ CallbackHeld /\ Near
  BY <1>1 DEF ListsAgree, CallbackHeld, Near, Init
<1>4. SortedIn(list, Sooner)
  BY DEF SortedIn, Init
<1>5. Countdown!Init
  BY <1>1 DEF Countdown!Init, Init
<1> QED BY <1>2, <1>3, <1>4, <1>5 DEF ListInv

(* rt_timer_check stops at the first timer that is not due and misses      *)
(* none: the list is sorted by the time to go, across the wrap of rt_tick, *)
(* and timers due at the same tick stand in the order they were started.   *)
THEOREM ListStaysSorted == Spec => []SortedList
<1>1. Init => ListInv
  BY InitStep
<1>2. ListInv /\ [Next]_vars => ListInv'
  BY NextStep DEF TimerStep
<1> QED BY <1>1, <1>2, InvSorted, PTL DEF Spec

(* The sorted list and the wrapping counter implement the countdown: every *)
(* timer fires in the check of the tick it was started for, after every    *)
(* timer due before it, and no check ends before all that are due fired.   *)
THEOREM TimersFireOnTime == Spec => FiresOnTime
<1>1. Init => ListInv /\ Countdown!Init
  BY InitStep
<1>2. ListInv /\ [Next]_vars => ListInv' /\ [Countdown!Next]_<<Remaining, phase>>
  BY NextStep DEF TimerStep
<1> QED BY <1>1, <1>2, PTL DEF Spec, FiresOnTime, Countdown!Spec, Remaining
----------------------------------------------------------------------------
(* The ACTIVATED flag of a timer during its own callback: rt_timer_check   *)
(* cleared it unless the timer is periodic, and no callback changes that.  *)
FlagsAgree ==
  /\ \A u \in Timer : /\ Occurs(list, u) => u \in active
                      /\ u \in active => Occurs(list, u) \/ (u = fired /\ held)
  /\ held /\ fired \in active => fired \in periodic

FlagInv == ListInv /\ FlagsAgree

LEMMA FlagStep ==
  ASSUME FlagInv, [Next]_vars, ModeInCallback = FALSE
  PROVE  FlagInv'
<1> USE DEF FlagInv
<1>1. ListInv'
  BY NextStep DEF TimerStep
<1>2. /\ NoDuplicates(list) /\ NoDuplicates(list') /\ list \in Seq(Timer) /\ fired \in Timer \union {NoTimer}
  BY <1>1, TickTypes DEF ListInv, ListsAgree, TypeOK
<1>3. SUFFICES FlagsAgree'
  BY <1>1
<1> USE DEF FlagsAgree
<1>4. /\ \A u \in Timer :
           /\ Occurs(list, u) => u \in active
           /\ u \in active => Occurs(list, u) \/ (u = fired /\ held)
      /\ held /\ fired \in active => fired \in periodic
      /\ held => phase = "call" /\ fired \in known /\ ~ Occurs(list, fired)
  BY DEF ListInv, CallbackHeld
<1>5. ASSUME NEW t \in Timer, Started(t), UNCHANGED <<tick, initTick>>
      PROVE  (\A x : Occurs(list', x) <=> x = t \/ Occurs(list, x)) /\ active' = active \union {t}
  BY <1>5, StartedFacts DEF Started
<1>6. ASSUME NEW t \in Timer, Unlinked(t)
      PROVE  (\A x : Occurs(list', x) <=> Occurs(list, x) /\ x # t) /\ active' = active \ {t}
  BY <1>2, <1>6, RemoveFacts DEF Unlinked
<1>7. ASSUME NEW t \in Timer, Start(t) PROVE FlagsAgree'
  <2>1. /\ Started(t) /\ held' = (held /\ fired # t)
        /\ UNCHANGED <<tick, initTick, periodic, fired>>
    BY <1>7 DEF Start, Released
  <2>2. (\A x : Occurs(list', x) <=> x = t \/ Occurs(list, x)) /\ active' = active \union {t}
    BY <1>5, <2>1
  <2> QED BY <1>4, <2>1, <2>2
<1>8. ASSUME NEW t \in Timer, StopBody(t) \/ StopInCallback(t) \/ Detach(t) PROVE FlagsAgree'
  <2>1. Unlinked(t) /\ UNCHANGED <<periodic, fired>>
    BY <1>8 DEF StopBody, StopInCallback, Detach, settings, check
  <2>2. (\A x : Occurs(list', x) <=> Occurs(list, x) /\ x # t) /\ active' = active \ {t}
    BY <1>6, <2>1
  <2>3. held' <=> held /\ fired # t
    <3>1. CASE StopBody(t)
      <4>1. phase = "app" /\ held' = held
        BY <3>1 DEF StopBody, check
      <4>2. ~ held
        BY <1>4, <4>1
      <4> QED BY <4>1, <4>2
    <3>2. CASE StopInCallback(t) \/ Detach(t)
      <4>1. held' = (held /\ fired # t)
        BY <3>2 DEF StopInCallback, Detach, Released
      <4> QED BY <4>1
    <3> QED BY <1>8, <3>1, <3>2
  <2> QED BY <1>4, <2>1, <2>2, <2>3
<1>9. ASSUME UNCHANGED <<list, active, fired, held>>, held => (fired \in periodic => fired \in periodic')
      PROVE  FlagsAgree'
  BY <1>4, <1>9
<1>10. ASSUME NEW t \in Timer, NEW n, NEW b \in BOOLEAN,
              StopTest(t) \/ SetTime(t, n) \/ Initialise(t, n, b) \/ SetPeriodic(t, b)
       PROVE  FlagsAgree'
  <2>1. CASE StopTest(t) \/ SetTime(t, n)
    BY <1>9, <2>1 DEF StopTest, SetTime, settings, check
  <2>2. CASE Initialise(t, n, b)
    <3>1. /\ t \notin known /\ UNCHANGED <<list, active, fired, held>>
          /\ periodic' = IF b THEN periodic \union {t} ELSE periodic \ {t}
      BY <2>2 DEF Initialise, check
    <3> QED BY <1>4, <1>9, <3>1
  <2>3. CASE SetPeriodic(t, b)
    <3>1. /\ t # fired /\ UNCHANGED <<list, active, fired, held>>
          /\ periodic' = IF b THEN periodic \union {t} ELSE periodic \ {t}
      BY <2>3 DEF SetPeriodic, check
    <3> QED BY <1>9, <3>1
  <2> QED BY <1>10, <2>1, <2>2, <2>3
<1>11. CASE UNCHANGED vars
  BY <1>9, <1>11 DEF vars, settings, check
<1>12. CASE TickIncrease \/ Done
  BY <1>9, <1>12 DEF TickIncrease, Done, settings
<1>13. CASE Fire
  <2>1. PICK t : t = Head(list)
    OBVIOUS
  <2>2. phase = "check" /\ list # <<>> /\ list' = Tail(list) /\ fired' = t /\ periodic' = periodic
    BY <1>13, <2>1 DEF Fire, HeadDue, settings
  <2>4. active' = IF t \in periodic THEN active ELSE active \ {t}
    BY <1>13, <2>1 DEF Fire
  <2>5. held'
    BY <1>13 DEF Fire
  <2>6. ~ held
    BY <1>4, <2>2
  <2>3. \A x : Occurs(list', x) <=> Occurs(list, x) /\ x # t
    BY <1>2, <2>1, <2>2, TailFacts
  <2> QED BY <1>4, <2>2, <2>3, <2>4, <2>5, <2>6
<1>14. CASE Return
  <2>1. /\ held' = FALSE /\ UNCHANGED <<tick, initTick, periodic>>
    BY <1>14 DEF Return
  <2>2. CASE held /\ fired \in periodic \intersect active
    <3>1. Started(fired)
      BY <1>14, <2>2 DEF Return
    <3>2. fired \in Timer
      BY <2>2 DEF ListInv, TypeOK
    <3>3. (\A x : Occurs(list', x) <=> x = fired \/ Occurs(list, x)) /\ active' = active \union {fired}
      BY <1>5, <2>1, <3>1, <3>2
    <3> QED BY <1>4, <2>1, <3>3
  <2>3. CASE ~ (held /\ fired \in periodic \intersect active)
    <3>1. UNCHANGED <<list, active>>
      BY <1>14, <2>3 DEF Return
    <3> QED BY <1>4, <2>1, <2>3, <3>1
  <2> QED BY <2>2, <2>3
<1>15. CASE \E t \in Timer : \/ StopTest(t) \/ (\E n \in Times[t] : SetTime(t, n) \/ \E p \in BOOLEAN : Initialise(t, n, p))
                             \/ (\E p \in BOOLEAN : SetPeriodic(t, p))
  <2>1. TRUE \in BOOLEAN
    OBVIOUS
  <2> QED BY <1>10, <1>15, <2>1
<1> QED BY <1>7, <1>8, <1>11, <1>12, <1>13, <1>14, <1>15 DEF Next, Interrupt

(* While no callback makes its own timer one-shot, RT_TIMER_FLAG_ACTIVATED *)
(* says what the list says: whatever threads and callbacks start, stop,    *)
(* detach and initialise, and however a stop races the tick interrupt.     *)
THEOREM FlagMeansLinked ==
  ASSUME ModeInCallback = FALSE
  PROVE  Spec => []ActiveMeansLinked
<1>1. Init => FlagInv
  <2>1. Init => FlagsAgree
    BY EmptyFacts DEF Init, FlagsAgree
  <2> QED BY <2>1, InitStep DEF FlagInv
<1>2. FlagInv /\ [Next]_vars => FlagInv'
  BY FlagStep
<1>3. FlagInv => ActiveMeansLinked
  BY DEF FlagInv, FlagsAgree, ListInv, ListsAgree, ActiveMeansLinked
<1> QED BY <1>1, <1>2, <1>3, PTL DEF Spec
=============================================================================
