---------------------------- MODULE RtMutexProofs ---------------------------
(***************************************************************************)
(* Mutual exclusion of rt_mutex_take and rt_mutex_release for any number   *)
(* of threads and mutexes, any priorities, any nesting limit, in any lock  *)
(* order and with detach.                                                  *)
(*                                                                         *)
(* The invariants of RtMutex are inductive together with `Handshake': a    *)
(* mutex is handed to a waiter that has not run yet, so one must know that *)
(* its timer cannot fire any more, that nobody wrote its error number, and *)
(* that a thread which leaves the wait really was made READY.              *)
(***************************************************************************)
EXTENDS RtMutex, RtIpcLemmas

Handshake ==
  /\ \A t \in armed : stat[t] = "suspend"
  /\ \A m \in Mutex, t \in Thread : Occurs(waiters[m], t) => error[t] = "RT_EOK"
  /\ cur \in Thread /\ pc[cur] \notin {"wait", "sleep"} => stat[cur] = "ready"

Inv == TypeOK /\ FreeOrOwned /\ MutualExclusion /\ WaitersAreBlocked /\ Handshake

(* MutualExclusion, of one thread and one mutex.                           *)
Agree(t, m) ==
  /\ depth[t][m] > 0 => owner[m] = t /\ hold[m] = depth[t][m]
  /\ Granted(t, m) => owner[m] = t /\ hold[m] = 1 /\ depth[t][m] = 0
  /\ owner[m] = t => depth[t][m] > 0 \/ Granted(t, m)

(* What the assumption on the constants says of the types.                 *)
LEMMA Constants == MaxHold \in Nat /\ MaxHold > 0 /\ NoThread \notin Thread
BY MutexAssumption

LEMMA AgreeFacts ==
  ASSUME Inv, NEW t \in Thread, NEW m \in Mutex
  PROVE  Agree(t, m) /\ depth[t][m] \in Nat /\ hold[m] \in Nat
BY Constants DEF Inv, MutualExclusion, Agree, TypeOK

(* What a running thread is not: waiting, granted, or in a wait list.      *)
LEMMA RunnerIsFree ==
  ASSUME Inv, NEW t \in Thread, pc[t] \notin {"wait", "woken"}
  PROVE  /\ \A m \in Mutex : ~ Occurs(waiters[m], t) /\ ~ Granted(t, m)
         /\ \A m \in Mutex : owner[m] = t => depth[t][m] = hold[m] /\ hold[m] > 0
         /\ \A m \in Mutex : owner[m] # t => depth[t][m] = 0
BY DEF Inv, TypeOK, MutualExclusion, WaitersAreBlocked, Granted

(* The initial states: all mutexes free, all threads READY.                *)
LEMMA InitInv == Init => Inv
<1> SUFFICES ASSUME Init PROVE Inv
  OBVIOUS
<1> USE DEF Init, ThreadInit
<1>1. TypeOK
  <2>1. at \in [Thread -> Mutex]
    BY MutexAssumption
  <2>2. waiters \in [Mutex -> Seq(Thread)]
    BY EmptyFacts
  <2>3. ThreadTypeOK(Places)
    BY IpcAssumption DEF ThreadTypeOK, Places, Errors
  <2> QED BY <2>1, <2>2, <2>3, MutexAssumption DEF TypeOK
<1>2. FreeOrOwned
  BY DEF FreeOrOwned
<1>3. MutualExclusion
  BY MutexAssumption DEF MutualExclusion, Granted
<1>4. WaitersAreBlocked
  BY EmptyFacts DEF WaitersAreBlocked
<1>5. Handshake
  BY EmptyFacts DEF Handshake
<1> QED BY <1>1, <1>2, <1>3, <1>4, <1>5 DEF Inv
----------------------------------------------------------------------------
(* One lemma per action.  Each first says what the action does to the      *)
(* functions it changes, then takes the conjuncts of Inv in turn.          *)

(* rt_mutex_take by the owner: one more level.                             *)
LEMMA TakeAgainStep ==
  ASSUME Inv, NEW t \in Thread, NEW m \in Mutex, TakeAgain(t, m)
  PROVE  Inv'
<1> USE DEF Inv, TakeAgain, Running, ResetError
<1>1. depth[t][m] = hold[m] /\ \A k \in Mutex : ~ Granted(t, k) /\ ~ Occurs(waiters[k], t)
  BY RunnerIsFree
<1>2. /\ hold' \in [Mutex -> 0 .. MaxHold]
      /\ \A k \in Mutex : hold'[k] = IF k = m THEN hold[k] + 1 ELSE hold[k]
  BY Constants DEF TypeOK
<1>3. /\ depth' \in [Thread -> [Mutex -> 0 .. MaxHold]]
      /\ \A u \in Thread, k \in Mutex :
           depth'[u][k] = IF u = t /\ k = m THEN depth[u][k] + 1 ELSE depth[u][k]
  <2>1. depth \in [Thread -> [Mutex -> 0 .. MaxHold]] /\ depth[t][m] + 1 \in 0 .. MaxHold
    BY <1>1, Constants DEF TypeOK
  <2>2. [depth[t] EXCEPT ![m] = @ + 1] \in [Mutex -> 0 .. MaxHold]
    BY <2>1
  <2> QED BY <2>1, <2>2
<1>4. error' \in [Thread -> Errors] /\ \A u \in Thread : u # t => error'[u] = error[u]
  BY DEF TypeOK, ThreadTypeOK, Errors
<1>5. TypeOK'
  BY <1>2, <1>3, <1>4 DEF TypeOK, ThreadTypeOK
<1>6. FreeOrOwned'
  BY <1>2, Constants DEF TypeOK, FreeOrOwned
<1>7. MutualExclusion'
  <2> SUFFICES ASSUME NEW u \in Thread, NEW k \in Mutex PROVE Agree(u, k)'
    BY DEF MutualExclusion, Agree
  <2>1. Agree(u, k) /\ depth[u][k] \in Nat /\ hold[k] \in Nat
    BY AgreeFacts
  <2>2. Granted(u, k)' <=> Granted(u, k)
    BY <1>4 DEF Granted
  <2> QED BY <1>1, <1>2, <1>3, <2>1, <2>2 DEF Agree
<1>8. WaitersAreBlocked'
  BY DEF WaitersAreBlocked
<1>9. Handshake'
  BY <1>1, <1>4 DEF Handshake
<1> QED BY <1>5, <1>6, <1>7, <1>8, <1>9

(* A call that returns an error at once: only the error number changes.    *)
LEMMA RefusedStep ==
  ASSUME Inv, NEW t \in Thread, NEW m \in Mutex,
         TakeFull(t, m) \/ TakeBusy(t, m) \/ ReleaseNotOwner(t, m)
  PROVE  Inv'
<1> USE DEF Inv, TakeFull, TakeBusy, ReleaseNotOwner, Running, ResetError, mutexVars
<1>1. \A k \in Mutex : ~ Granted(t, k) /\ ~ Occurs(waiters[k], t)
  BY RunnerIsFree
<1>2. error' \in [Thread -> Errors] /\ \A u \in Thread : u # t => error'[u] = error[u]
  BY DEF TypeOK, ThreadTypeOK, Errors
<1> UNCHANGED <<stat, prio, cur, armed, pc, mutexVars>>
  OBVIOUS
<1>3. TypeOK' /\ FreeOrOwned' /\ WaitersAreBlocked'
  <2>1. TypeOK'
    BY <1>2 DEF TypeOK, ThreadTypeOK
  <2>2. FreeOrOwned'
    BY DEF FreeOrOwned
  <2>3. WaitersAreBlocked'
    BY DEF WaitersAreBlocked
  <2> QED BY <2>1, <2>2, <2>3
<1>4. MutualExclusion'
  <2> SUFFICES ASSUME NEW u \in Thread, NEW k \in Mutex PROVE Agree(u, k)'
    BY DEF MutualExclusion, Agree
  <2>1. Granted(u, k)' <=> Granted(u, k)
    BY <1>2 DEF Granted
  <2> QED BY <2>1, AgreeFacts DEF Agree
<1>5. Handshake'
  BY <1>1, <1>2 DEF Handshake
<1> QED BY <1>3, <1>4, <1>5

(* rt_mutex_take of a free mutex: FreeOrOwned says that its hold is 0 and  *)
(* nobody waits, so the counters start together.                           *)
LEMMA TakeFreeStep ==
  ASSUME Inv, NEW t \in Thread, NEW m \in Mutex, TakeFree(t, m)
  PROVE  Inv'
<1> USE DEF Inv, TakeFree, Running, ResetError
<1>1. \A k \in Mutex : ~ Granted(t, k) /\ ~ Occurs(waiters[k], t)
  BY RunnerIsFree
<1>2. value[m] = 1 /\ owner[m] = NoThread /\ hold[m] = 0 /\ waiters[m] = <<>>
  BY DEF FreeOrOwned
<1>3. \A u \in Thread : depth[u][m] = 0 /\ ~ Granted(u, m)
  BY <1>2, AgreeFacts, Constants DEF Agree
<1>4. /\ hold' \in [Mutex -> 0 .. MaxHold]
      /\ \A k \in Mutex : hold'[k] = IF k = m THEN 1 ELSE hold[k]
  <2>1. hold' = [hold EXCEPT ![m] = 1]
    BY <1>2, Constants
  <2>2. hold \in [Mutex -> 0 .. MaxHold] /\ 1 \in 0 .. MaxHold
    BY Constants DEF TypeOK
  <2> QED BY <2>1, <2>2
<1>5. /\ depth' \in [Thread -> [Mutex -> 0 .. MaxHold]]
      /\ \A u \in Thread, k \in Mutex :
           depth'[u][k] = IF u = t /\ k = m THEN 1 ELSE depth[u][k]
  <2>1. depth \in [Thread -> [Mutex -> 0 .. MaxHold]] /\ depth[t][m] + 1 = 1
    BY <1>3 DEF TypeOK
  <2>2. depth' = [depth EXCEPT ![t][m] = @ + 1]
    BY <1>2, Constants
  <2>3. [depth[t] EXCEPT ![m] = 1] \in [Mutex -> 0 .. MaxHold]
    BY <2>1, Constants
  <2> QED BY <2>1, <2>2, <2>3
<1>6. error' \in [Thread -> Errors] /\ \A u \in Thread : u # t => error'[u] = error[u]
  BY DEF TypeOK, ThreadTypeOK, Errors
<1>7. /\ value' \in [Mutex -> 0 .. 1] /\ owner' \in [Mutex -> Thread \union {NoThread}]
      /\ original' \in [Mutex -> Nat]
      /\ \A k \in Mutex : /\ value'[k] = IF k = m THEN 0 ELSE value[k]
                          /\ owner'[k] = IF k = m THEN t ELSE owner[k]
  BY <1>2 DEF TypeOK, ThreadTypeOK
<1>8. TypeOK'
  BY <1>4, <1>5, <1>6, <1>7 DEF TypeOK, ThreadTypeOK
<1>9. FreeOrOwned'
  BY <1>4, <1>7 DEF FreeOrOwned
<1>10. MutualExclusion'
  <2> SUFFICES ASSUME NEW u \in Thread, NEW k \in Mutex PROVE Agree(u, k)'
    BY DEF MutualExclusion, Agree
  <2>1. Granted(u, k)' <=> Granted(u, k)
    BY <1>6 DEF Granted
  <2> QED BY <1>1, <1>3, <1>4, <1>5, <1>7, <2>1, AgreeFacts DEF Agree
<1>11. WaitersAreBlocked'
  BY DEF WaitersAreBlocked
<1>12. Handshake'
  BY <1>1, <1>6 DEF Handshake
<1> QED BY <1>8, <1>9, <1>10, <1>11, <1>12

(* rt_mutex_take of a mutex of another thread: t is linked into its wait   *)
(* list while it still runs.                                               *)
LEMMA TakeWaitStep ==
  ASSUME Inv, NEW t \in Thread, NEW m \in Mutex, NEW timed \in BOOLEAN,
         TakeWait(t, m, timed)
  PROVE  Inv'
<1> USE DEF Inv, TakeWait, Running, Block, Goto
<1>1. \A k \in Mutex : ~ Granted(t, k) /\ ~ Occurs(waiters[k], t)
  BY RunnerIsFree
<1>2. owner[m] \in Thread
  BY Constants DEF TypeOK, FreeOrOwned
<1>3. /\ stat' \in [Thread -> {"ready", "suspend"}] /\ error' \in [Thread -> Errors]
      /\ pc' \in [Thread -> Places] /\ at' \in [Thread -> Mutex]
      /\ stat'[t] = "suspend" /\ error'[t] = "RT_EOK" /\ pc'[t] = "wait" /\ at'[t] = m
      /\ \A u \in Thread : u # t =>
           stat'[u] = stat[u] /\ error'[u] = error[u] /\ pc'[u] = pc[u] /\ at'[u] = at[u]
  BY DEF TypeOK, ThreadTypeOK, Errors, Places
<1>4. /\ Enqueued(waiters[m], t) \in Seq(Thread) /\ NoDuplicates(Enqueued(waiters[m], t))
      /\ \A x : Occurs(Enqueued(waiters[m], t), x) <=> x = t \/ Occurs(waiters[m], x)
  <2>1. waiters[m] \in Seq(Thread) /\ prio \in [Thread -> Nat]
    BY DEF TypeOK, ThreadTypeOK
  <2>2. NoDuplicates(waiters[m]) /\ ~ Occurs(waiters[m], t)
    BY <1>1 DEF WaitersAreBlocked
  <2> QED BY <2>1, <2>2, EnqueuedFacts
<1>5. /\ waiters' \in [Mutex -> Seq(Thread)]
      /\ \A k \in Mutex : k # m => waiters'[k] = waiters[k]
      /\ waiters'[m] = Enqueued(waiters[m], t)
  BY <1>4 DEF TypeOK
<1>6. TypeOK'
  <2>1. prio' \in [Thread -> Nat]
    BY <1>2 DEF Boosted, TypeOK, ThreadTypeOK
  <2> QED BY <1>3, <1>5, <2>1 DEF TypeOK, ThreadTypeOK
<1>7. FreeOrOwned'
  BY <1>2, <1>5, Constants DEF FreeOrOwned
<1>8. MutualExclusion'
  <2> SUFFICES ASSUME NEW u \in Thread, NEW k \in Mutex PROVE Agree(u, k)'
    BY DEF MutualExclusion, Agree
  <2>1. Granted(u, k)' <=> Granted(u, k)
    BY <1>1, <1>3 DEF Granted
  <2> QED BY <2>1, AgreeFacts DEF Agree
<1>9. WaitersAreBlocked'
  <2>1. \A k \in Mutex : NoDuplicates(waiters'[k])
    BY <1>4, <1>5 DEF WaitersAreBlocked
  <2>2. ASSUME NEW k \in Mutex, NEW u \in Thread
        PROVE  Occurs(waiters'[k], u)
                 <=> stat'[u] = "suspend" /\ pc'[u] \in {"wait", "woken"} /\ at'[u] = k
    BY <1>1, <1>3, <1>4, <1>5 DEF WaitersAreBlocked
  <2> QED BY <2>1, <2>2 DEF WaitersAreBlocked
<1>10. Handshake'
  <2>1. \A u \in armed' : stat'[u] = "suspend"
    BY <1>3 DEF Handshake, TypeOK, ThreadTypeOK
  <2>2. ASSUME NEW k \in Mutex, NEW u \in Thread, Occurs(waiters'[k], u)
        PROVE  error'[u] = "RT_EOK"
    BY <1>3, <1>4, <1>5, <2>2 DEF Handshake
  <2>3. cur' = t
    OBVIOUS
  <2> QED BY <1>3, <2>1, <2>2, <2>3 DEF Handshake
<1> QED BY <1>6, <1>7, <1>8, <1>9, <1>10

(* rt_schedule() at the end of a call.                                     *)
LEMMA RescheduleStep ==
  ASSUME Inv, NEW t \in Thread,
         \/ Reschedule(t, "wait", "woken") \/ Reschedule(t, "post", "run")
         \/ Reschedule(t, "sleep", "slept"),
         UNCHANGED mutexVars
  PROVE  Inv'
<1> USE DEF Inv, Reschedule, At, Goto, mutexVars
<1>1. /\ pc' \in [Thread -> Places]
      /\ \A u \in Thread : pc'[u] \in {"wait", "woken"} <=> pc[u] \in {"wait", "woken"}
  BY DEF TypeOK, ThreadTypeOK, Places
<1>2. UNCHANGED <<stat, prio, armed, error>> /\ Dispatch
  OBVIOUS
<1>3. cur' \in Thread \union {Idle} /\ (cur' \in Thread => stat'[cur'] = "ready")
  BY <1>2, DispatchFacts
<1>4. TypeOK'
  BY <1>1, <1>2, <1>3 DEF TypeOK, ThreadTypeOK
<1>5. FreeOrOwned'
  BY DEF FreeOrOwned
<1>6. MutualExclusion'
  <2> SUFFICES ASSUME NEW u \in Thread, NEW k \in Mutex PROVE Agree(u, k)'
    BY DEF MutualExclusion, Agree
  <2>1. Granted(u, k)' <=> Granted(u, k)
    BY <1>1, <1>2 DEF Granted
  <2> QED BY <2>1, AgreeFacts DEF Agree
<1>7. WaitersAreBlocked'
  BY <1>1, <1>2 DEF WaitersAreBlocked
<1>8. Handshake'
  BY <1>2, <1>3 DEF Handshake
<1> QED BY <1>4, <1>5, <1>6, <1>7, <1>8

(* The woken thread returns from rt_mutex_take: it is READY, so it was     *)
(* granted the mutex exactly if its error number is RT_EOK.                *)
LEMMA TakeReturnStep ==
  ASSUME Inv, NEW t \in Thread, TakeReturn(t)
  PROVE  Inv'
<1> USE DEF Inv, TakeReturn, At, Goto
<1> DEFINE m == at[t]
<1>1. m \in Mutex /\ stat[t] = "ready"
  BY DEF Handshake, TypeOK
<1>2. /\ Granted(t, m) <=> error[t] = "RT_EOK"
      /\ \A k \in Mutex : (k # m => ~ Granted(t, k)) /\ ~ Occurs(waiters[k], t)
  BY <1>1 DEF Granted, WaitersAreBlocked
<1>3. /\ pc' \in [Thread -> Places] /\ pc'[t] = "run"
      /\ \A u \in Thread : u # t => pc'[u] = pc[u]
  BY DEF TypeOK, ThreadTypeOK, Places
<1>4. error[t] = "RT_EOK" => owner[m] = t /\ hold[m] = 1 /\ depth[t][m] = 0
  BY <1>1, <1>2, AgreeFacts DEF Agree
<1>5. /\ depth' \in [Thread -> [Mutex -> 0 .. MaxHold]]
      /\ \A u \in Thread, k \in Mutex :
           depth'[u][k] = IF u = t /\ k = m /\ error[t] = "RT_EOK" THEN 1 ELSE depth[u][k]
  <2>1. depth \in [Thread -> [Mutex -> 0 .. MaxHold]] /\ 1 \in 0 .. MaxHold
    BY Constants DEF TypeOK
  <2>2. CASE error[t] = "RT_EOK"
    <3>1. depth' = [depth EXCEPT ![t][m] = @ + 1] /\ depth[t][m] + 1 = 1
      BY <1>4, <2>2
    <3> HIDE DEF m, Inv, TakeReturn
    <3>2. [depth[t] EXCEPT ![m] = 1] \in [Mutex -> 0 .. MaxHold]
      BY <2>1
    <3> QED BY <1>1, <2>1, <2>2, <3>1, <3>2
  <2>3. CASE error[t] # "RT_EOK"
    BY <2>1, <2>3
  <2> QED BY <2>2, <2>3
<1> HIDE DEF m
<1>6. TypeOK'
  BY <1>3, <1>5 DEF TypeOK, ThreadTypeOK
<1>7. FreeOrOwned'
  BY DEF FreeOrOwned
<1>8. MutualExclusion'
  <2> SUFFICES ASSUME NEW u \in Thread, NEW k \in Mutex PROVE Agree(u, k)'
    BY DEF MutualExclusion, Agree
  <2>1. Granted(u, k)' <=> u # t /\ Granted(u, k)
    BY <1>3 DEF Granted
  <2> QED BY <1>1, <1>2, <1>4, <1>5, <2>1, AgreeFacts DEF Agree
<1>9. WaitersAreBlocked'
  BY <1>1, <1>2, <1>3 DEF WaitersAreBlocked
<1>10. Handshake'
  BY <1>1, <1>3 DEF Handshake
<1> QED BY <1>6, <1>7, <1>8, <1>9, <1>10

(* rt_mutex_release of one level of several.                               *)
LEMMA ReleaseNestedStep ==
  ASSUME Inv, NEW t \in Thread, NEW m \in Mutex, ReleaseNested(t, m)
  PROVE  Inv'
<1> USE DEF Inv, ReleaseNested, Running, threadVars
<1>1. depth[t][m] = hold[m]
  BY RunnerIsFree
<1>2. /\ hold' \in [Mutex -> 0 .. MaxHold]
      /\ \A k \in Mutex : hold'[k] = IF k = m THEN hold[k] - 1 ELSE hold[k]
  BY Constants DEF TypeOK
<1>3. /\ depth' \in [Thread -> [Mutex -> 0 .. MaxHold]]
      /\ \A u \in Thread, k \in Mutex :
           depth'[u][k] = IF u = t /\ k = m THEN depth[u][k] - 1 ELSE depth[u][k]
  <2>1. depth \in [Thread -> [Mutex -> 0 .. MaxHold]] /\ depth[t][m] - 1 \in 0 .. MaxHold
    BY <1>1, Constants DEF TypeOK
  <2>2. [depth[t] EXCEPT ![m] = @ - 1] \in [Mutex -> 0 .. MaxHold]
    BY <2>1
  <2> QED BY <2>1, <2>2
<1>4. TypeOK'
  BY <1>2, <1>3 DEF TypeOK, ThreadTypeOK
<1>5. FreeOrOwned'
  BY <1>2, Constants DEF TypeOK, FreeOrOwned
<1>6. MutualExclusion'
  <2> SUFFICES ASSUME NEW u \in Thread, NEW k \in Mutex PROVE Agree(u, k)'
    BY DEF MutualExclusion, Agree
  <2>1. Granted(u, k)' <=> Granted(u, k)
    BY DEF Granted
  <2>2. Agree(u, k) /\ depth[u][k] \in Nat /\ hold[k] \in Nat
    BY AgreeFacts
  <2>3. k = m => ~ Granted(u, k)
    BY <2>2 DEF Agree
  <2> QED BY <1>1, <1>2, <1>3, <2>1, <2>2, <2>3 DEF Agree
<1>7. WaitersAreBlocked' /\ Handshake'
  BY DEF WaitersAreBlocked, Handshake
<1> QED BY <1>4, <1>5, <1>6, <1>7

(* The level a last release gives back.                                    *)
LEMMA LastLevel ==
  ASSUME Inv, NEW t \in Thread, NEW m \in Mutex, Running(t), owner[m] = t, hold[m] = 1,
         depth' = [depth EXCEPT ![t][m] = @ - 1]
  PROVE  /\ depth[t][m] = 1
         /\ depth' \in [Thread -> [Mutex -> 0 .. MaxHold]]
         /\ \A u \in Thread, k \in Mutex :
              depth'[u][k] = IF u = t /\ k = m THEN 0 ELSE depth[u][k]
<1>1. depth[t][m] = 1
  BY RunnerIsFree DEF Running
<1>2. depth \in [Thread -> [Mutex -> 0 .. MaxHold]] /\ depth[t][m] - 1 = 0
  BY <1>1 DEF Inv, TypeOK
<1>3. [depth[t] EXCEPT ![m] = 0] \in [Mutex -> 0 .. MaxHold]
  BY <1>2, Constants
<1> QED BY <1>1, <1>2, <1>3

(* The last release with nobody waiting.                                   *)
LEMMA ReleaseFreeStep ==
  ASSUME Inv, NEW t \in Thread, NEW m \in Mutex, ReleaseFree(t, m)
  PROVE  Inv'
<1> USE DEF Inv, ReleaseFree, Running
<1>1. /\ depth[t][m] = 1
      /\ depth' \in [Thread -> [Mutex -> 0 .. MaxHold]]
      /\ \A u \in Thread, k \in Mutex :
           depth'[u][k] = IF u = t /\ k = m THEN 0 ELSE depth[u][k]
  BY LastLevel
<1>2. value[m] = 0
  BY Constants DEF FreeOrOwned
<1>3. /\ value' \in [Mutex -> 0 .. 1] /\ hold' \in [Mutex -> 0 .. MaxHold]
      /\ owner' \in [Mutex -> Thread \union {NoThread}] /\ original' \in [Mutex -> Nat]
      /\ prio' \in [Thread -> Nat]
  BY <1>2, MutexAssumption DEF TypeOK, ThreadTypeOK, Restored
<1>4. \A k \in Mutex : /\ value'[k] = IF k = m THEN 1 ELSE value[k]
                       /\ hold'[k] = IF k = m THEN 0 ELSE hold[k]
                       /\ owner'[k] = IF k = m THEN NoThread ELSE owner[k]
  BY <1>2 DEF TypeOK
<1>5. TypeOK'
  BY <1>1, <1>3 DEF TypeOK, ThreadTypeOK
<1>6. FreeOrOwned'
  BY <1>4 DEF FreeOrOwned
<1>7. MutualExclusion'
  <2> SUFFICES ASSUME NEW u \in Thread, NEW k \in Mutex PROVE Agree(u, k)'
    BY DEF MutualExclusion, Agree
  <2>1. Granted(u, k)' <=> Granted(u, k)
    BY DEF Granted
  <2>2. Agree(u, k) /\ (u = t => ~ Granted(u, k)) /\ depth[u][k] \in Nat
    BY AgreeFacts, RunnerIsFree
  <2> QED BY <1>1, <1>4, <2>1, <2>2, Constants DEF Agree
<1>8. WaitersAreBlocked' /\ Handshake'
  BY DEF WaitersAreBlocked, Handshake
<1> QED BY <1>5, <1>6, <1>7, <1>8

(* What waking the first waiter of a mutex does to the threads.            *)
LEMMA WakeFacts ==
  ASSUME Inv, NEW m \in Mutex, waiters[m] # <<>>, Wake(Head(waiters[m])),
         waiters' = [waiters EXCEPT ![m] = Tail(@)]
  PROVE  LET u == Head(waiters[m]) IN
         /\ u \in Thread /\ Occurs(waiters[m], u)
         /\ stat[u] = "suspend" /\ pc[u] \in {"wait", "woken"} /\ at[u] = m
         /\ error[u] = "RT_EOK"
         /\ stat' \in [Thread -> {"ready", "suspend"}] /\ armed' \subseteq Thread
         /\ stat'[u] = "ready" /\ u \notin armed'
         /\ \A v \in Thread : v # u => stat'[v] = stat[v]
         /\ armed' \subseteq armed
         /\ waiters' \in [Mutex -> Seq(Thread)]
         /\ \A k \in Mutex : NoDuplicates(waiters'[k])
         /\ \A k \in Mutex, v \in Thread :
              Occurs(waiters'[k], v) <=> Occurs(waiters[k], v) /\ v # u
<1> DEFINE q == waiters[m]
           u == Head(q)
<1> USE DEF Inv, Wake
<1>1. q \in Seq(Thread) /\ NoDuplicates(q)
  BY DEF TypeOK, WaitersAreBlocked
<1>2. /\ u \in Thread /\ Occurs(q, u) /\ Tail(q) \in Seq(Thread) /\ NoDuplicates(Tail(q))
      /\ \A x : Occurs(Tail(q), x) <=> Occurs(q, x) /\ x # u
  <2> HIDE DEF q
  <2> QED BY <1>1, TailFacts DEF q
<1>3. stat[u] = "suspend" /\ pc[u] \in {"wait", "woken"} /\ at[u] = m /\ error[u] = "RT_EOK"
  BY <1>2 DEF WaitersAreBlocked, Handshake
<1>4. /\ stat' \in [Thread -> {"ready", "suspend"}] /\ stat'[u] = "ready"
      /\ armed' \subseteq armed /\ armed' \subseteq Thread /\ u \notin armed'
      /\ \A v \in Thread : v # u => stat'[v] = stat[v]
  BY <1>2 DEF TypeOK, ThreadTypeOK
<1>5. /\ waiters' \in [Mutex -> Seq(Thread)] /\ waiters'[m] = Tail(q)
      /\ \A k \in Mutex : k # m => waiters'[k] = waiters[k] /\ ~ Occurs(waiters[k], u)
  BY <1>2, <1>3 DEF TypeOK, WaitersAreBlocked
<1>6. \A k \in Mutex : NoDuplicates(waiters'[k])
  BY <1>2, <1>5 DEF WaitersAreBlocked
<1>7. \A k \in Mutex, v \in Thread :
        Occurs(waiters'[k], v) <=> Occurs(waiters[k], v) /\ v # u
  BY <1>2, <1>5
<1> QED BY <1>2, <1>3, <1>4, <1>5, <1>6, <1>7

(* The last release hands the mutex to the first waiter, which has not run *)
(* since it blocked: its error number still is RT_EOK and its timer is     *)
(* stopped in the same critical section.                                   *)
LEMMA ReleaseToStep ==
  ASSUME Inv, NEW t \in Thread, NEW m \in Mutex, ReleaseTo(t, m)
  PROVE  Inv'
<1> DEFINE u == Head(waiters[m])
<1> USE DEF Inv, ReleaseTo, Running, Goto
<1>1. /\ depth[t][m] = 1
      /\ depth' \in [Thread -> [Mutex -> 0 .. MaxHold]]
      /\ \A v \in Thread, k \in Mutex :
           depth'[v][k] = IF v = t /\ k = m THEN 0 ELSE depth[v][k]
  BY LastLevel
<1>2. /\ u \in Thread /\ Occurs(waiters[m], u)
      /\ stat[u] = "suspend" /\ pc[u] \in {"wait", "woken"} /\ at[u] = m
      /\ error[u] = "RT_EOK"
      /\ stat' \in [Thread -> {"ready", "suspend"}] /\ armed' \subseteq Thread
      /\ stat'[u] = "ready" /\ u \notin armed'
      /\ \A v \in Thread : v # u => stat'[v] = stat[v]
      /\ armed' \subseteq armed
      /\ waiters' \in [Mutex -> Seq(Thread)]
      /\ \A k \in Mutex : NoDuplicates(waiters'[k])
      /\ \A k \in Mutex, v \in Thread :
           Occurs(waiters'[k], v) <=> Occurs(waiters[k], v) /\ v # u
  BY WakeFacts
<1> HIDE DEF u
<1>3. value[m] = 0
  BY Constants DEF FreeOrOwned
<1>4. /\ pc' \in [Thread -> Places] /\ pc'[t] = "post"
      /\ \A v \in Thread : v # t => pc'[v] = pc[v]
  BY DEF TypeOK, ThreadTypeOK, Places
<1>5. prio' \in [Thread -> Nat]
  BY DEF TypeOK, ThreadTypeOK, Restored
<1>6. /\ owner' \in [Mutex -> Thread \union {NoThread}] /\ original' \in [Mutex -> Nat]
      /\ \A k \in Mutex : owner'[k] = IF k = m THEN u ELSE owner[k]
  <2>1. owner' = [owner EXCEPT ![m] = u] /\ original' = [original EXCEPT ![m] = prio'[u]]
    BY DEF u
  <2>2. prio'[u] \in Nat
    BY <1>2, <1>5
  <2> HIDE DEF ReleaseTo
  <2> QED BY <1>2, <2>1, <2>2 DEF TypeOK
<1>7. TypeOK'
  BY <1>1, <1>2, <1>4, <1>5, <1>6 DEF TypeOK, ThreadTypeOK
<1>8. u # t /\ \A k \in Mutex : ~ Occurs(waiters[k], t)
  BY <1>2, RunnerIsFree
<1>9. FreeOrOwned'
  <2>1. \A k \in Mutex : waiters[k] = <<>> => waiters'[k] = <<>>
    <3> TAKE k \in Mutex
    <3>1. waiters[k] \in Seq(Thread) /\ waiters'[k] \in Seq(Thread)
      BY <1>2 DEF TypeOK
    <3> QED BY <1>2, <3>1, EmptyFacts
  <2> QED BY <1>2, <1>3, <1>6, <2>1 DEF FreeOrOwned
<1>10. MutualExclusion'
  <2> SUFFICES ASSUME NEW v \in Thread, NEW k \in Mutex PROVE Agree(v, k)'
    BY DEF MutualExclusion, Agree
  <2>1. Agree(v, k) /\ Agree(v, m) /\ (v = t => ~ Granted(v, k)) /\ depth[v][k] \in Nat
        /\ depth[v][m] \in Nat
    BY AgreeFacts, RunnerIsFree
  <2>2. CASE v = u /\ k = m
    <3>1. Granted(v, k)'
      BY <1>2, <1>4, <1>8, <2>2 DEF Granted
    <3> QED BY <1>1, <1>6, <1>8, <2>1, <2>2, <3>1 DEF Agree
  <2>3. CASE v = u /\ k # m
    <3>1. ~ Granted(v, k)' /\ ~ Granted(v, k)
      BY <1>2, <2>3 DEF Granted
    <3> QED BY <1>1, <1>6, <1>8, <2>1, <2>3, <3>1 DEF Agree
  <2>4. CASE v # u
    <3>1. Granted(v, k)' <=> Granted(v, k)
      BY <1>2, <1>4, <2>1, <2>4 DEF Granted
    <3> QED BY <1>1, <1>6, <2>1, <2>4, <3>1 DEF Agree
  <2> QED BY <2>2, <2>3, <2>4
<1>11. WaitersAreBlocked'
  <2>1. ASSUME NEW k \in Mutex, NEW v \in Thread
        PROVE  Occurs(waiters'[k], v)
                 <=> stat'[v] = "suspend" /\ pc'[v] \in {"wait", "woken"} /\ at'[v] = k
    BY <1>2, <1>4, <1>8 DEF WaitersAreBlocked
  <2> QED BY <1>2, <2>1 DEF WaitersAreBlocked
<1>12. Handshake'
  <2>1. ASSUME NEW v \in armed' PROVE stat'[v] = "suspend"
    <3>1. v \in armed /\ v \in Thread /\ v # u
      BY <1>2
    <3>2. stat[v] = "suspend"
      BY <3>1 DEF Handshake
    <3> QED BY <1>2, <3>1, <3>2
  <2>2. \A k \in Mutex, v \in Thread : Occurs(waiters'[k], v) => error'[v] = "RT_EOK"
    BY <1>2 DEF Handshake
  <2>3. stat'[cur'] = "ready"
    BY <1>2, <1>8 DEF Handshake
  <2> QED BY <2>1, <2>2, <2>3 DEF Handshake
<1> QED BY <1>7, <1>9, <1>10, <1>11, <1>12

(* The steps of rt_mutex_detach that wake nobody.                          *)
LEMMA DetachStep ==
  ASSUME Inv, NEW t \in Thread, (\E m \in Mutex : Detach(t, m)) \/ DrainTest(t)
  PROVE  Inv'
<1> USE DEF Inv, Detach, DrainTest, Running, At, Goto
<1>1. pc[t] \in {"run", "drain"} /\ cur = t
  OBVIOUS
<1>2. \A k \in Mutex : ~ Granted(t, k) /\ ~ Occurs(waiters[k], t)
  BY <1>1, RunnerIsFree
<1>3. /\ pc' \in [Thread -> Places] /\ pc'[t] \in {"run", "drain", "drain_one"}
      /\ at' \in [Thread -> Mutex] /\ alive' \subseteq Mutex
      /\ \A u \in Thread : u # t => pc'[u] = pc[u] /\ at'[u] = at[u]
  <2>1. ASSUME NEW m \in Mutex, Detach(t, m)
        PROVE  /\ pc' = [pc EXCEPT ![t] = "drain"] /\ at' = [at EXCEPT ![t] = m]
               /\ alive' = alive
    BY <2>1
  <2>2. CASE DrainTest(t)
    <3>1. /\ pc' = [pc EXCEPT ![t] = "drain_one"] \/ pc' = [pc EXCEPT ![t] = "run"]
          /\ at' = at /\ alive' \subseteq alive
      BY <2>2
    <3> HIDE DEF Detach, DrainTest
    <3> QED BY <3>1 DEF TypeOK, ThreadTypeOK, Places
  <2> HIDE DEF Detach, DrainTest
  <2> QED BY <2>1, <2>2 DEF TypeOK, ThreadTypeOK, Places
<1>4. UNCHANGED <<stat, prio, cur, armed, error, value, owner, hold, original, waiters, depth>>
  OBVIOUS
<1> HIDE DEF Detach, DrainTest
<1>5. TypeOK'
  BY <1>3, <1>4 DEF TypeOK, ThreadTypeOK
<1>6. FreeOrOwned'
  BY <1>4 DEF FreeOrOwned
<1>7. MutualExclusion'
  <2> SUFFICES ASSUME NEW u \in Thread, NEW k \in Mutex PROVE Agree(u, k)'
    BY DEF MutualExclusion, Agree
  <2>1. Granted(u, k)' <=> Granted(u, k)
    BY <1>2, <1>3, <1>4 DEF Granted
  <2> QED BY <1>4, <2>1, AgreeFacts DEF Agree
<1>8. WaitersAreBlocked'
  BY <1>2, <1>3, <1>4 DEF WaitersAreBlocked
<1>9. Handshake'
  BY <1>1, <1>3, <1>4 DEF Handshake
<1> QED BY <1>5, <1>6, <1>7, <1>8, <1>9

(* rt_ipc_list_resume_all wakes one waiter with -RT_ERROR.                 *)
LEMMA DrainOneStep ==
  ASSUME Inv, NEW t \in Thread, DrainOne(t)
  PROVE  Inv'
<1> DEFINE m == at[t]
           u == Head(waiters[m])
<1> USE DEF Inv, DrainOne, At, Goto, ResetError
<1>1. m \in Mutex
  BY DEF TypeOK
<1>2. waiters[m] # <<>> /\ Wake(Head(waiters[m])) /\ waiters' = [waiters EXCEPT ![m] = Tail(@)]
  OBVIOUS
<1>3. /\ u \in Thread /\ Occurs(waiters[m], u)
      /\ stat[u] = "suspend" /\ pc[u] \in {"wait", "woken"} /\ at[u] = m
      /\ stat' \in [Thread -> {"ready", "suspend"}] /\ armed' \subseteq Thread
      /\ stat'[u] = "ready" /\ u \notin armed'
      /\ \A v \in Thread : v # u => stat'[v] = stat[v]
      /\ armed' \subseteq armed
      /\ waiters' \in [Mutex -> Seq(Thread)]
      /\ \A k \in Mutex : NoDuplicates(waiters'[k])
      /\ \A k \in Mutex, v \in Thread :
           Occurs(waiters'[k], v) <=> Occurs(waiters[k], v) /\ v # u
  <2> HIDE DEF m, DrainOne
  <2> QED BY <1>1, <1>2, WakeFacts
<1>4. /\ error' = [error EXCEPT ![u] = "RT_ERROR"]
      /\ pc[t] = "drain_one" /\ cur = t /\ pc' = [pc EXCEPT ![t] = "drain"]
      /\ UNCHANGED <<prio, cur, value, owner, hold, original, alive, at, depth>>
  OBVIOUS
<1> HIDE DEF m, u, DrainOne
<1>5. /\ error' \in [Thread -> Errors] /\ error'[u] = "RT_ERROR"
      /\ \A v \in Thread : v # u => error'[v] = error[v]
  BY <1>3, <1>4 DEF TypeOK, ThreadTypeOK, Errors
<1>6. /\ pc' \in [Thread -> Places] /\ pc'[t] = "drain"
      /\ \A v \in Thread : v # t => pc'[v] = pc[v]
  BY <1>4 DEF TypeOK, ThreadTypeOK, Places
<1>7. \A k \in Mutex : ~ Occurs(waiters[k], t) /\ ~ Granted(t, k)
  BY <1>4, RunnerIsFree
<1>8. TypeOK'
  BY <1>3, <1>4, <1>5, <1>6 DEF TypeOK, ThreadTypeOK
<1>9. FreeOrOwned'
  <2>1. \A k \in Mutex : waiters[k] = <<>> => waiters'[k] = <<>>
    <3> TAKE k \in Mutex
    <3>1. waiters[k] \in Seq(Thread) /\ waiters'[k] \in Seq(Thread)
      BY <1>3 DEF TypeOK
    <3> QED BY <1>3, <3>1, EmptyFacts
  <2> QED BY <1>4, <2>1 DEF FreeOrOwned
<1>10. MutualExclusion'
  <2> SUFFICES ASSUME NEW v \in Thread, NEW k \in Mutex PROVE Agree(v, k)'
    BY DEF MutualExclusion, Agree
  <2>1. Granted(v, k)' <=> Granted(v, k)
    BY <1>3, <1>4, <1>5, <1>6, <1>7 DEF Granted
  <2> QED BY <1>4, <2>1, AgreeFacts DEF Agree
<1>11. WaitersAreBlocked'
  <2>1. ASSUME NEW k \in Mutex, NEW v \in Thread
        PROVE  Occurs(waiters'[k], v)
                 <=> stat'[v] = "suspend" /\ pc'[v] \in {"wait", "woken"} /\ at'[v] = k
    BY <1>3, <1>4, <1>6, <1>7 DEF WaitersAreBlocked
  <2> QED BY <1>3, <2>1 DEF WaitersAreBlocked
<1>12. Handshake'
  <2>1. \A v \in armed' : stat'[v] = "suspend"
    BY <1>3 DEF Handshake, TypeOK, ThreadTypeOK
  <2>2. \A k \in Mutex, v \in Thread : Occurs(waiters'[k], v) => error'[v] = "RT_EOK"
    BY <1>3, <1>5 DEF Handshake
  <2>3. stat'[cur'] = "ready"
    BY <1>3, <1>4 DEF Handshake
  <2> QED BY <2>1, <2>2, <2>3 DEF Handshake
<1> QED BY <1>8, <1>9, <1>10, <1>11, <1>12

(* A timeout only meets a thread that is still suspended, and takes it off *)
(* whatever wait list it is in.                                            *)
LEMMA TimeoutStep ==
  ASSUME Inv, NEW u \in Thread, Timeout(u)
  PROVE  Inv'
<1> USE DEF Inv, Timeout, TimeoutOf
<1>1. stat[u] = "suspend" /\ \A k \in Mutex : ~ Granted(u, k)
  BY DEF Handshake, Granted
<1>2. /\ stat' \in [Thread -> {"ready", "suspend"}] /\ error' \in [Thread -> Errors]
      /\ stat'[u] = "ready" /\ error'[u] = "RT_ETIMEOUT"
      /\ \A v \in Thread : v # u => stat'[v] = stat[v] /\ error'[v] = error[v]
  BY DEF TypeOK, ThreadTypeOK, Errors
<1>3. cur' \in Thread \union {Idle} /\ (cur' \in Thread => stat'[cur'] = "ready")
  BY DispatchFacts
<1>4. \A k \in Mutex :
        /\ waiters'[k] \in Seq(Thread) /\ NoDuplicates(waiters'[k])
        /\ \A v \in Thread : Occurs(waiters'[k], v) <=> Occurs(waiters[k], v) /\ v # u
  <2> TAKE k \in Mutex
  <2>1. waiters[k] \in Seq(Thread) /\ NoDuplicates(waiters[k])
    BY DEF TypeOK, WaitersAreBlocked
  <2>2. waiters'[k] = ListRemove(waiters[k], u)
    OBVIOUS
  <2> QED BY <2>1, <2>2, RemoveFacts
<1>5. TypeOK'
  <2>1. waiters' \in [Mutex -> Seq(Thread)]
    BY <1>4
  <2> QED BY <1>2, <1>3, <2>1 DEF TypeOK, ThreadTypeOK
<1>6. FreeOrOwned'
  <2>1. \A k \in Mutex : waiters[k] = <<>> => waiters'[k] = <<>>
    <3> TAKE k \in Mutex
    <3>1. waiters[k] \in Seq(Thread) /\ waiters'[k] \in Seq(Thread)
      BY <1>4 DEF TypeOK
    <3> QED BY <1>4, <3>1, EmptyFacts
  <2> QED BY <2>1 DEF FreeOrOwned
<1>7. MutualExclusion'
  <2> SUFFICES ASSUME NEW v \in Thread, NEW k \in Mutex PROVE Agree(v, k)'
    BY DEF MutualExclusion, Agree
  <2>1. Granted(v, k)' <=> Granted(v, k)
    BY <1>1, <1>2 DEF Granted
  <2> QED BY <2>1, AgreeFacts DEF Agree
<1>8. WaitersAreBlocked'
  BY <1>2, <1>4 DEF WaitersAreBlocked
<1>9. Handshake'
  BY <1>2, <1>3, <1>4 DEF Handshake, TypeOK, ThreadTypeOK
<1> QED BY <1>5, <1>6, <1>7, <1>8, <1>9

(* rt_thread_sleep and the end of a time slice touch no mutex.             *)
LEMMA OtherStep ==
  ASSUME Inv, UNCHANGED mutexVars,
         (\E t \in Thread : Sleep(t) \/ SleepReturn(t)) \/ SliceEnd
  PROVE  Inv'
<1> USE DEF Inv, mutexVars
<1>1. ASSUME NEW t \in Thread, Sleep(t) PROVE Inv'
  <2> USE <1>1 DEF Sleep, Running, Goto
  <2>1. \A k \in Mutex : ~ Granted(t, k) /\ ~ Occurs(waiters[k], t)
    BY RunnerIsFree
  <2>2. /\ stat' \in [Thread -> {"ready", "suspend"}] /\ pc' \in [Thread -> Places]
        /\ stat'[t] = "suspend" /\ pc'[t] = "sleep"
        /\ \A u \in Thread : u # t => stat'[u] = stat[u] /\ pc'[u] = pc[u]
    BY DEF TypeOK, ThreadTypeOK, Places
  <2>3. TypeOK' /\ FreeOrOwned'
    BY <2>2 DEF TypeOK, ThreadTypeOK, FreeOrOwned
  <2>4. MutualExclusion'
    <3> SUFFICES ASSUME NEW u \in Thread, NEW k \in Mutex PROVE Agree(u, k)'
      BY DEF MutualExclusion, Agree
    <3>1. Granted(u, k)' <=> Granted(u, k)
      BY <2>1, <2>2 DEF Granted
    <3> QED BY <3>1, AgreeFacts DEF Agree
  <2>5. WaitersAreBlocked'
    BY <2>1, <2>2 DEF WaitersAreBlocked
  <2>6. Handshake'
    BY <2>1, <2>2 DEF Handshake, TypeOK, ThreadTypeOK
  <2> QED BY <2>3, <2>4, <2>5, <2>6
<1>2. ASSUME NEW t \in Thread, SleepReturn(t) PROVE Inv'
  <2> USE <1>2 DEF SleepReturn, At, Goto
  <2>1. \A k \in Mutex : ~ Granted(t, k) /\ ~ Occurs(waiters[k], t)
    BY RunnerIsFree
  <2>2. /\ error' \in [Thread -> Errors] /\ pc' \in [Thread -> Places]
        /\ pc'[t] = "run"
        /\ \A u \in Thread : u # t => error'[u] = error[u] /\ pc'[u] = pc[u]
    BY DEF TypeOK, ThreadTypeOK, Places, Errors
  <2>3. TypeOK' /\ FreeOrOwned'
    BY <2>2 DEF TypeOK, ThreadTypeOK, FreeOrOwned
  <2>4. MutualExclusion'
    <3> SUFFICES ASSUME NEW u \in Thread, NEW k \in Mutex PROVE Agree(u, k)'
      BY DEF MutualExclusion, Agree
    <3>1. Granted(u, k)' <=> Granted(u, k)
      BY <2>1, <2>2 DEF Granted
    <3> QED BY <3>1, AgreeFacts DEF Agree
  <2>5. WaitersAreBlocked'
    BY <2>1, <2>2 DEF WaitersAreBlocked
  <2>6. Handshake'
    BY <2>1, <2>2 DEF Handshake
  <2> QED BY <2>3, <2>4, <2>5, <2>6
<1>3. ASSUME SliceEnd PROVE Inv'
  <2> USE <1>3 DEF SliceEnd
  <2>1. cur' \in Thread \union {Idle} /\ (cur' \in Thread => stat'[cur'] = "ready")
    BY DispatchFacts
  <2>2. TypeOK' /\ FreeOrOwned'
    BY <2>1 DEF TypeOK, ThreadTypeOK, FreeOrOwned
  <2>3. MutualExclusion' /\ WaitersAreBlocked'
    BY DEF MutualExclusion, Granted, WaitersAreBlocked
  <2>4. Handshake'
    BY <2>1 DEF Handshake
  <2> QED BY <2>2, <2>3, <2>4
<1> QED BY <1>1, <1>2, <1>3
----------------------------------------------------------------------------
(* Every step keeps the invariant.                                         *)
LEMMA NextInv == Inv /\ [Next]_vars => Inv'
<1> SUFFICES ASSUME Inv, [Next]_vars PROVE Inv'
  OBVIOUS
<1>1. CASE UNCHANGED vars
  BY <1>1 DEF vars, threadVars, mutexVars, Inv, TypeOK, ThreadTypeOK, FreeOrOwned,
              MutualExclusion, Granted, WaitersAreBlocked, Handshake
<1>2. ASSUME NEW t \in Thread, InCall(t) PROVE Inv'
  <2>1. CASE SleepSchedule(t) /\ UNCHANGED mutexVars
    BY <2>1, RescheduleStep DEF SleepSchedule
  <2>2. CASE SleepReturn(t) /\ UNCHANGED mutexVars
    BY <2>2, OtherStep
  <2>3. CASE TakeSchedule(t) \/ PostSchedule(t)
    BY <2>3, RescheduleStep DEF TakeSchedule, PostSchedule
  <2>4. CASE TakeReturn(t)
    BY <2>4, TakeReturnStep
  <2>5. CASE DrainTest(t)
    BY <2>5, DetachStep
  <2>6. CASE DrainOne(t)
    BY <2>6, DrainOneStep
  <2> QED BY <1>2, <2>1, <2>2, <2>3, <2>4, <2>5, <2>6 DEF InCall
<1>3. ASSUME NEW t \in Thread, Timeout(t) PROVE Inv'
  BY <1>3, TimeoutStep
<1>4. ASSUME NEW t \in Thread, Sleep(t), UNCHANGED mutexVars PROVE Inv'
  BY <1>4, OtherStep
<1>5. ASSUME NEW t \in Thread, NEW m \in Mutex, Take(t, m) PROVE Inv'
  <2>1. CASE TakeAgain(t, m)
    BY <2>1, TakeAgainStep
  <2>2. CASE TakeFull(t, m) \/ TakeBusy(t, m)
    BY <2>2, RefusedStep
  <2>3. CASE TakeFree(t, m)
    BY <2>3, TakeFreeStep
  <2>4. ASSUME NEW timed \in BOOLEAN, TakeWait(t, m, timed) PROVE Inv'
    BY <2>4, TakeWaitStep
  <2> QED BY <1>5, <2>1, <2>2, <2>3, <2>4 DEF Take
<1>6. ASSUME NEW t \in Thread, NEW m \in Mutex, Release(t, m) PROVE Inv'
  <2>1. CASE ReleaseNotOwner(t, m)
    BY <2>1, RefusedStep
  <2>2. CASE ReleaseNested(t, m)
    BY <2>2, ReleaseNestedStep
  <2>3. CASE ReleaseTo(t, m)
    BY <2>3, ReleaseToStep
  <2>4. CASE ReleaseFree(t, m)
    BY <2>4, ReleaseFreeStep
  <2> QED BY <1>6, <2>1, <2>2, <2>3, <2>4 DEF Release, LetGo
<1>7. ASSUME NEW t \in Thread, NEW m \in Mutex, Detach(t, m) PROVE Inv'
  BY <1>7, DetachStep
<1>8. CASE SliceEnd /\ UNCHANGED mutexVars
  BY <1>8, OtherStep
<1> QED BY <1>1, <1>2, <1>3, <1>4, <1>5, <1>6, <1>7, <1>8, Zenon DEF Next

(* The inductive invariant holds in every behaviour of the specification.  *)
THEOREM Invariance == Spec => []Inv
BY InitInv, NextInv, PTL DEF Spec

(* Types, for every instance.                                              *)
THEOREM TypeCorrect == Spec => []TypeOK
<1>1. Inv => TypeOK
  BY DEF Inv
<1> QED BY <1>1, Invariance, PTL

(* The four words of a mutex agree after every call (ipc.c:647-900).       *)
THEOREM MutexFreeOrOwned == Spec => []FreeOrOwned
<1>1. Inv => FreeOrOwned
  BY DEF Inv
<1> QED BY <1>1, Invariance, PTL

(* A thread that rt_mutex_take told RT_EOK owns the mutex, alone, and has  *)
(* the nesting count it was told, whatever timeouts and detaches meet it.  *)
THEOREM MutexExcludes == Spec => []MutualExclusion
<1>1. Inv => MutualExclusion
  BY DEF Inv
<1> QED BY <1>1, Invariance, PTL

(* A thread is in the wait list of the mutex it asked for, once, exactly   *)
(* while it is suspended there.                                            *)
THEOREM MutexWaitersAreBlocked == Spec => []WaitersAreBlocked
<1>1. Inv => WaitersAreBlocked
  BY DEF Inv
<1> QED BY <1>1, Invariance, PTL
----------------------------------------------------------------------------
(* Priority inheritance with one mutex whose list is kept by priority: no  *)
(* thread is in the list of a mutex it owns, so a boost of the owner moves *)
(* no waiter, and the first waiter, which gets the mutex, is the most      *)
(* urgent one.                                                             *)
OneMutex == ByPriority = TRUE /\ \A m, k \in Mutex : m = k

InheritInv ==
  \A m \in Mutex :
    /\ SortedByPriority(waiters[m])
    /\ \A u \in Thread :
         Occurs(waiters[m], u) => u # owner[m] /\ prio[owner[m]] <= prio[u]

LEMMA InheritMeans ==
  ASSUME Inv, InheritInv
  PROVE  OwnerInherits
<1>1. ASSUME NEW m \in Mutex, NEW i \in 1 .. Len(waiters[m])
      PROVE  prio[owner[m]] <= prio[waiters[m][i]]
  <2>1. waiters[m] \in Seq(Thread)
    BY DEF Inv, TypeOK
  <2>2. waiters[m][i] \in Thread /\ Occurs(waiters[m], waiters[m][i])
    BY <2>1 DEF Occurs
  <2> QED BY <2>2 DEF InheritInv
<1> QED BY <1>1 DEF OwnerInherits, InheritInv

(* Sorted by the new priorities if those of the listed threads stay.       *)
LEMMA SortedNext ==
  ASSUME NEW r \in Seq(Thread), SortedByPriority(r),
         \A u \in Thread : Occurs(r, u) => prio'[u] = prio[u]
  PROVE  ByPriority => \A i, j \in 1 .. Len(r) : i < j => prio'[r[i]] <= prio'[r[j]]
<1>1. \A i \in 1 .. Len(r) : r[i] \in Thread /\ Occurs(r, r[i])
  BY DEF Occurs
<1> QED BY <1>1 DEF SortedByPriority

(* Steps that move no owner and no priority, and take at most one thread   *)
(* off a list.                                                             *)
LEMMA FewerWaiters ==
  ASSUME Inv, InheritInv, UNCHANGED <<prio, owner>>,
         \A m \in Mutex :
           \/ waiters'[m] = waiters[m]
           \/ waiters[m] # <<>> /\ waiters'[m] = Tail(waiters[m])
           \/ \E u \in Thread : waiters'[m] = ListRemove(waiters[m], u)
  PROVE  InheritInv'
<1>1. ASSUME NEW m \in Mutex
      PROVE  /\ SortedByPriority(waiters'[m])
             /\ \A u \in Thread : Occurs(waiters'[m], u) => Occurs(waiters[m], u)
  <2>1. /\ waiters[m] \in Seq(Thread) /\ NoDuplicates(waiters[m])
        /\ SortedByPriority(waiters[m])
    BY DEF Inv, TypeOK, WaitersAreBlocked, InheritInv
  <2>2. CASE waiters'[m] = waiters[m]
    BY <2>1, <2>2
  <2>3. CASE waiters[m] # <<>> /\ waiters'[m] = Tail(waiters[m])
    BY <2>1, <2>3, TailFacts, TailSorted
  <2>4. CASE \E u \in Thread : waiters'[m] = ListRemove(waiters[m], u)
    BY <2>1, <2>4, RemoveFacts, RemoveSorted
  <2> QED BY <2>2, <2>3, <2>4
<1> QED BY <1>1 DEF InheritInv, SortedByPriority

LEMMA TakeFreeInherit ==
  ASSUME Inv, InheritInv, NEW t \in Thread, NEW m \in Mutex, TakeFree(t, m)
  PROVE  InheritInv'
<1>1. waiters[m] = <<>>
  BY DEF TakeFree, Inv, FreeOrOwned
<1>2. UNCHANGED <<prio, waiters>> /\ \A k \in Mutex : k # m => owner'[k] = owner[k]
  BY DEF TakeFree, Inv, TypeOK
<1>3. ~ \E u : Occurs(waiters[m], u)
  BY <1>1 DEF Occurs
<1> QED BY <1>2, <1>3 DEF InheritInv, SortedByPriority

LEMMA TakeWaitInherit ==
  ASSUME OneMutex, Inv, InheritInv, NEW t \in Thread, NEW m \in Mutex, NEW timed \in BOOLEAN,
         TakeWait(t, m, timed)
  PROVE  InheritInv'
<1>1. PICK o : o = owner[m]
  OBVIOUS
<1>2. /\ cur = t /\ pc[t] = "run" /\ o # t /\ value[m] = 0
      /\ prio' = Boosted(t, m) /\ waiters' = [waiters EXCEPT ![m] = Enqueued(@, t)]
      /\ owner' = owner
  BY <1>1 DEF TakeWait, Running
<1>3. o \in Thread
  BY <1>1, <1>2 DEF Inv, FreeOrOwned
<1>4. PICK q : q = waiters[m]
  OBVIOUS
<1>5. /\ q \in Seq(Thread) /\ NoDuplicates(q) /\ SortedByPriority(q) /\ ~ Occurs(q, t)
      /\ prio \in [Thread -> Nat]
      /\ \A u \in Thread : Occurs(q, u) => u # o /\ prio[o] <= prio[u]
  BY <1>1, <1>2, <1>4, RunnerIsFree DEF Inv, TypeOK, ThreadTypeOK, WaitersAreBlocked, InheritInv
<1>6. PICK r : r = Enqueued(q, t)
  OBVIOUS
<1>7. /\ r \in Seq(Thread) /\ \A x : Occurs(r, x) <=> x = t \/ Occurs(q, x)
  BY <1>5, <1>6, EnqueuedFacts
<1>8. SortedByPriority(r)
  BY <1>5, <1>6, EnqueuedSorted
<1>9. /\ prio'[o] = IF prio[t] < prio[o] THEN prio[t] ELSE prio[o]
      /\ \A u \in Thread : u # o => prio'[u] = prio[u]
  BY <1>1, <1>2, <1>3, <1>5 DEF Boosted
<1>10. waiters'[m] = r
  BY <1>2, <1>4, <1>6 DEF Inv, TypeOK
<1>11. ByPriority => \A i, j \in 1 .. Len(r) : i < j => prio'[r[i]] <= prio'[r[j]]
  <2>1. \A u \in Thread : Occurs(r, u) => prio'[u] = prio[u]
    BY <1>2, <1>5, <1>7, <1>9
  <2> QED BY <1>7, <1>8, <2>1, SortedNext
<1>12. \A u \in Thread : Occurs(r, u) => u # o /\ prio'[o] <= prio'[u]
  BY <1>2, <1>3, <1>5, <1>7, <1>9
<1>13. \A k \in Mutex : k = m
  BY DEF OneMutex
<1> QED BY <1>1, <1>2, <1>10, <1>11, <1>12, <1>13 DEF InheritInv, SortedByPriority

LEMMA LetGoInherit ==
  ASSUME OneMutex, Inv, InheritInv, NEW t \in Thread, NEW m \in Mutex, LetGo(t, m)
  PROVE  InheritInv'
<1>1. \A k \in Mutex : k = m
  BY DEF OneMutex
<1>2. PICK q : q = waiters[m]
  OBVIOUS
<1>3. /\ q \in Seq(Thread) /\ NoDuplicates(q) /\ SortedByPriority(q) /\ ~ Occurs(q, t)
      /\ prio \in [Thread -> Nat] /\ pc[t] = "run"
  BY <1>2, RunnerIsFree
     DEF LetGo, ReleaseTo, ReleaseFree, Running, Inv, TypeOK, ThreadTypeOK, WaitersAreBlocked,
         InheritInv
<1>4. \A u \in Thread : u # t => prio'[u] = prio[u]
  BY <1>3 DEF LetGo, ReleaseTo, ReleaseFree, Restored
<1>5. CASE ReleaseFree(t, m)
  <2>1. waiters'[m] = <<>>
    BY <1>5 DEF ReleaseFree
  <2>2. Len(waiters'[m]) = 0 /\ ~ \E u : Occurs(waiters'[m], u)
    BY <2>1 DEF Occurs
  <2> QED BY <1>1, <2>2 DEF InheritInv, SortedByPriority
<1>6. CASE ReleaseTo(t, m)
  <2>1. PICK u : u = Head(q)
    OBVIOUS
  <2>2. q # <<>> /\ owner' = [owner EXCEPT ![m] = u] /\ waiters' = [waiters EXCEPT ![m] = Tail(q)]
    BY <1>2, <1>6, <2>1 DEF ReleaseTo
  <2>3. PICK r : r = Tail(q)
    OBVIOUS
  <2>4. /\ u \in Thread /\ r \in Seq(Thread) /\ \A x : Occurs(r, x) <=> Occurs(q, x) /\ x # u
        /\ SortedByPriority(r)
    BY <1>3, <2>1, <2>2, <2>3, TailFacts, TailSorted
  <2>5. \A x \in Thread : Occurs(r, x) => prio[u] <= prio[x]
    <3>1. ASSUME NEW x \in Thread, Occurs(r, x) PROVE prio[u] <= prio[x]
      <4>1. Occurs(q, x) /\ x # u
        BY <2>4, <3>1
      <4>2. PICK i \in 1 .. Len(q) : q[i] = x
        BY <4>1 DEF Occurs
      <4>3. u = q[1] /\ 1 \in 1 .. Len(q)
        BY <1>3, <2>1, <2>2
      <4>4. 1 < i
        BY <4>1, <4>2, <4>3
      <4> QED BY <1>3, <4>2, <4>3, <4>4 DEF SortedByPriority, OneMutex
    <3> QED BY <3>1
  <2>6. \A x \in Thread : Occurs(q, x) => prio'[x] = prio[x]
    BY <1>3, <1>4
  <2>7. Occurs(q, u)
    BY <1>3, <2>1, <2>2, TailFacts
  <2>8. ByPriority => \A i, j \in 1 .. Len(r) : i < j => prio'[r[i]] <= prio'[r[j]]
    <3>1. \A x \in Thread : Occurs(r, x) => prio'[x] = prio[x]
      BY <2>4, <2>6
    <3> QED BY <2>4, <3>1, SortedNext
  <2>9. \A x \in Thread : Occurs(r, x) => x # u /\ prio'[u] <= prio'[x]
    BY <2>4, <2>5, <2>6, <2>7
  <2>10. waiters'[m] = r /\ owner'[m] = u
    BY <2>2, <2>3 DEF Inv, TypeOK
  <2> QED BY <1>1, <2>8, <2>9, <2>10 DEF InheritInv, SortedByPriority
<1> QED BY <1>5, <1>6 DEF LetGo

LEMMA NextInherit ==
  ASSUME OneMutex, Inv, InheritInv, [Next]_vars
  PROVE  InheritInv'
<1>1. CASE UNCHANGED <<prio, owner, waiters>>
  BY <1>1, FewerWaiters
<1>2. CASE UNCHANGED vars
  BY <1>1, <1>2 DEF vars, threadVars, mutexVars
<1>3. ASSUME NEW t \in Thread, InCall(t) PROVE InheritInv'
  <2>1. CASE DrainOne(t)
    <3>1. PICK m \in Mutex : m = at[t]
      BY DEF Inv, TypeOK
    <3>2. waiters[m] # <<>> /\ waiters' = [waiters EXCEPT ![m] = Tail(@)] /\ UNCHANGED <<prio, owner>>
      BY <2>1, <3>1 DEF DrainOne
    <3>3. waiters'[m] = Tail(waiters[m]) /\ \A k \in Mutex : k # m => waiters'[k] = waiters[k]
      BY <3>2 DEF Inv, TypeOK
    <3> QED BY <3>2, <3>3, FewerWaiters
  <2>2. CASE ~ DrainOne(t)
    <3>1. UNCHANGED <<prio, owner, waiters>>
      BY <1>3, <2>2 DEF InCall, SleepSchedule, SleepReturn, TakeSchedule, TakeReturn, PostSchedule,
                        DrainTest, Reschedule, mutexVars
    <3> QED BY <1>1, <3>1
  <2> QED BY <2>1, <2>2
<1>4. ASSUME NEW t \in Thread, Timeout(t) PROVE InheritInv'
  <2>1. UNCHANGED <<prio, owner>> /\ \A m \in Mutex : waiters'[m] = ListRemove(waiters[m], t)
    BY <1>4 DEF Timeout, TimeoutOf
  <2> QED BY <2>1, FewerWaiters
<1>5. ASSUME NEW t \in Thread, Sleep(t), UNCHANGED mutexVars PROVE InheritInv'
  BY <1>1, <1>5 DEF Sleep, mutexVars
<1>6. ASSUME NEW t \in Thread, NEW m \in Mutex, Take(t, m) PROVE InheritInv'
  <2>1. CASE TakeAgain(t, m) \/ TakeFull(t, m) \/ TakeBusy(t, m)
    BY <1>1, <2>1 DEF TakeAgain, TakeFull, TakeBusy, mutexVars
  <2>2. CASE TakeFree(t, m)
    BY <2>2, TakeFreeInherit
  <2>3. ASSUME NEW timed \in BOOLEAN, TakeWait(t, m, timed) PROVE InheritInv'
    BY <2>3, TakeWaitInherit
  <2> QED BY <1>6, <2>1, <2>2, <2>3 DEF Take
<1>7. ASSUME NEW t \in Thread, NEW m \in Mutex, Release(t, m) PROVE InheritInv'
  <2>1. CASE ReleaseNotOwner(t, m) \/ ReleaseNested(t, m)
    BY <1>1, <2>1 DEF ReleaseNotOwner, ReleaseNested, mutexVars, threadVars
  <2> QED BY <1>7, <2>1, LetGoInherit DEF Release
<1>8. ASSUME NEW t \in Thread, NEW m \in Mutex, Detach(t, m) PROVE InheritInv'
  BY <1>1, <1>8 DEF Detach
<1>9. CASE SliceEnd /\ UNCHANGED mutexVars
  BY <1>1, <1>9 DEF SliceEnd, mutexVars
<1> QED BY <1>2, <1>3, <1>4, <1>5, <1>6, <1>7, <1>8, <1>9, Zenon DEF Next

(* Priority inheritance, for any number of threads of any priorities: with *)
(* one mutex and RT_IPC_FLAG_PRIO nobody waits for an owner of lower       *)
(* priority than its own, and the most urgent waiter is first.  With two   *)
(* mutexes it does not hold (run mutex_inherit).                           *)
THEOREM MutexOwnerInherits ==
  ASSUME OneMutex
  PROVE  Spec => []OwnerInherits
<1>1. Init => InheritInv
  <2>1. ASSUME Init PROVE InheritInv
    <3>1. \A m \in Mutex : waiters[m] = <<>>
      BY <2>1 DEF Init
    <3>2. \A m \in Mutex : Len(waiters[m]) = 0 /\ ~ \E u : Occurs(waiters[m], u)
      BY <3>1 DEF Occurs
    <3> QED BY <3>2 DEF InheritInv, SortedByPriority
  <2> QED BY <2>1
<1>2. Inv /\ InheritInv /\ [Next]_vars => InheritInv'
  BY NextInherit
<1>3. Inv /\ InheritInv => OwnerInherits
  BY InheritMeans
<1> QED BY <1>1, <1>2, <1>3, Invariance, PTL DEF Spec
----------------------------------------------------------------------------
(* Boosts end, with any number of mutexes that are taken in increasing     *)
(* rank, released in the reverse order and not detached: of the mutexes a  *)
(* thread owns the first one it took remembers its own priority.           *)
Nested == Ordered = TRUE /\ Detachable = {}

First(t, m) == owner[m] = t /\ \A k \in Mutex : owner[k] = t => Rank[m] <= Rank[k]
OwnsNone(t) == \A m \in Mutex : owner[m] # t

RanksApart ==
  \A m, k \in Mutex : owner[m] \in Thread /\ owner[m] = owner[k] /\ m # k => Rank[m] # Rank[k]

AsksUpwards ==
  \A t \in Thread : pc[t] \in {"wait", "woken"} =>
    \A k \in Mutex : depth[t][k] > 0 => Rank[k] < Rank[at[t]]

BoostInv ==
  /\ alive = Mutex /\ \A t \in Thread : pc[t] \notin {"drain", "drain_one"}
  /\ RanksApart /\ AsksUpwards
  /\ \A t \in Thread :
       /\ OwnsNone(t) => prio[t] = BasePrio[t]
       /\ \A m \in Mutex : First(t, m) => original[m] = BasePrio[t]

(* Every owner owns a mutex that it took first.                            *)
LEMMA FirstExists ==
  ASSUME NEW t, ~ OwnsNone(t)
  PROVE  \E m \in Mutex : First(t, m)
<1> DEFINE R == {Rank[m] : m \in {k \in Mutex : owner[k] = t}}
<1>1. R \in SUBSET Nat /\ R # {}
  BY MutexAssumption DEF OwnsNone
<1>2. PICK r \in R : \A s \in R : r <= s
  <2> HIDE DEF R
  <2> QED BY <1>1, LeastNatural
<1>3. PICK m \in Mutex : owner[m] = t /\ Rank[m] = r
  BY <1>2
<1>4. \A k \in Mutex : owner[k] = t => Rank[m] <= Rank[k]
  BY <1>2, <1>3
<1> QED BY <1>3, <1>4 DEF First

(* Steps that move no owner: a thread that asks for a mutex owns none of   *)
(* higher rank, and only owners are boosted.                               *)
LEMMA SameOwners ==
  ASSUME BoostInv, UNCHANGED <<owner, original, alive>>, AsksUpwards',
         \A t \in Thread : pc'[t] \notin {"drain", "drain_one"},
         \A t \in Thread : prio'[t] = prio[t] \/ \E m \in Mutex : owner[m] = t
  PROVE  BoostInv'
<1>1. RanksApart'
  BY DEF BoostInv, RanksApart
<1>2. ASSUME NEW t \in Thread
      PROVE  /\ (\A m \in Mutex : owner'[m] # t) => prio'[t] = BasePrio[t]
             /\ \A m \in Mutex : First(t, m)' => original'[m] = BasePrio[t]
  BY DEF BoostInv, OwnsNone, First
<1> QED BY <1>1, <1>2 DEF BoostInv, OwnsNone

(* AsksUpwards of a step in which nobody starts to wait.                   *)
LEMMA NobodyAsks ==
  ASSUME BoostInv,
         \A t \in Thread : pc'[t] \in {"wait", "woken"} =>
           /\ pc[t] \in {"wait", "woken"} /\ at'[t] = at[t]
           /\ \A k \in Mutex : depth'[t][k] > 0 => depth[t][k] > 0
  PROVE  AsksUpwards'
BY DEF BoostInv, AsksUpwards

LEMMA TakeFreeBoost ==
  ASSUME Nested, Inv, Inv', BoostInv, NEW t \in Thread, NEW m \in Mutex, TakeFree(t, m)
  PROVE  BoostInv'
<1>1. /\ cur = t /\ pc[t] = "run" /\ owner[m] = NoThread /\ UNCHANGED <<prio, pc, at, alive>>
      /\ owner' = [owner EXCEPT ![m] = t] /\ original' = [original EXCEPT ![m] = prio[t]]
      /\ MayTake(t, m)
  BY DEF TakeFree, Running, Inv, FreeOrOwned
<1>2. /\ owner'[m] = t /\ original'[m] = prio[t]
      /\ \A k \in Mutex : k # m => owner'[k] = owner[k] /\ original'[k] = original[k]
  BY <1>1 DEF Inv, TypeOK
<1>3. \A k \in Mutex : owner[k] = t => Rank[k] < Rank[m]
  <2>1. ASSUME NEW k \in Mutex, owner[k] = t PROVE Rank[k] < Rank[m]
    <3>1. depth[t][k] > 0
      BY <1>1, <2>1, RunnerIsFree, AgreeFacts DEF Agree
    <3> QED BY <1>1, <3>1 DEF MayTake, Holds, Nested
  <2> QED BY <2>1
<1>4. \A k \in Mutex : Rank[k] \in Nat
  BY MutexAssumption
<1>5. RanksApart'
  BY <1>1, <1>2, <1>3, <1>4, Constants DEF BoostInv, RanksApart
<1>6. AsksUpwards'
  <2>1. depth' = depth \/ depth' = [depth EXCEPT ![t][m] = @ + 1]
    BY DEF TakeFree
  <2>2. depth \in [Thread -> [Mutex -> 0 .. MaxHold]]
    BY DEF Inv, TypeOK
  <2>3. \A u \in Thread : u # t => depth'[u] = depth[u]
    BY <2>1, <2>2
  <2>4. pc[t] \notin {"wait", "woken"}
    BY <1>1
  <2> QED BY <1>1, <2>3, <2>4, NobodyAsks
<1>7. ASSUME NEW u \in Thread, u # t
      PROVE  /\ (\A k \in Mutex : owner'[k] # u) => prio'[u] = BasePrio[u]
             /\ \A k \in Mutex : First(u, k)' => original'[k] = BasePrio[u]
  <2>1. \A k \in Mutex : owner'[k] = u <=> owner[k] = u
    BY <1>1, <1>2, <1>7, Constants
  <2> QED BY <1>1, <1>2, <1>7, <2>1 DEF BoostInv, OwnsNone, First
<1>8. ASSUME NEW k \in Mutex, First(t, k)' PROVE original'[k] = BasePrio[t]
  <2>1. owner'[k] = t /\ \A n \in Mutex : owner'[n] = t => Rank[k] <= Rank[n]
    BY <1>8 DEF First
  <2>2. CASE OwnsNone(t)
    <3>1. k = m /\ prio[t] = BasePrio[t]
      BY <1>2, <2>1, <2>2 DEF OwnsNone, BoostInv
    <3> QED BY <1>2, <3>1
  <2>3. CASE ~ OwnsNone(t)
    <3>1. PICK n \in Mutex : owner[n] = t
      BY <2>3 DEF OwnsNone
    <3>2. n # m /\ owner'[n] = t /\ Rank[n] < Rank[m]
      BY <1>1, <1>2, <1>3, <3>1, Constants
    <3>3. k # m
      BY <1>4, <2>1, <3>2
    <3>4. First(t, k)
      BY <1>2, <2>1, <3>3, <1>1, Constants DEF First
    <3> QED BY <1>2, <3>3, <3>4 DEF BoostInv
  <2> QED BY <2>2, <2>3
<1> QED BY <1>1, <1>2, <1>5, <1>6, <1>7, <1>8 DEF BoostInv, OwnsNone

(* The last release of the mutex of highest rank: the releaser gets back   *)
(* the priority that the mutex remembers, which is its own if it owned no  *)
(* other, and a waiter that gets the mutex owns only mutexes of lower rank.*)
LEMMA LetGoBoost ==
  ASSUME Nested, Inv, Inv', BoostInv, NEW t \in Thread, NEW m \in Mutex, LetGo(t, m)
  PROVE  BoostInv'
<1>1. /\ cur = t /\ pc[t] = "run" /\ owner[m] = t /\ MayLetGo(t, m) /\ prio' = Restored(t, m)
      /\ UNCHANGED <<at, alive>>
  BY DEF LetGo, ReleaseTo, ReleaseFree, Running
<1>2. /\ prio'[t] = original[m] /\ \A u \in Thread : u # t => prio'[u] = prio[u]
  BY <1>1 DEF Restored, Inv, TypeOK, ThreadTypeOK
<1>3. \A k \in Mutex : Rank[k] \in Nat
  BY MutexAssumption
<1>4. \A k \in Mutex : owner[k] = t /\ k # m => Rank[k] < Rank[m]
  <2>1. ASSUME NEW k \in Mutex, owner[k] = t, k # m PROVE Rank[k] < Rank[m]
    <3>1. depth[t][k] > 0
      BY <1>1, <2>1, RunnerIsFree, AgreeFacts DEF Agree
    <3>2. Rank[k] <= Rank[m]
      BY <1>1, <3>1 DEF MayLetGo, Holds, Nested
    <3>3. Rank[k] # Rank[m]
      BY <1>1, <2>1 DEF BoostInv, RanksApart
    <3> QED BY <1>3, <3>2, <3>3
  <2> QED BY <2>1
<1>5. /\ \A u \in Thread : u # t => pc'[u] = pc[u]
      /\ pc'[t] \in {"run", "post"}
      /\ \A u \in Thread, k \in Mutex : u # t => depth'[u][k] = depth[u][k]
  BY <1>1 DEF LetGo, ReleaseTo, ReleaseFree, Goto, Inv, TypeOK, ThreadTypeOK
<1>6. AsksUpwards'
  BY <1>1, <1>5, NobodyAsks
<1>7. (OwnsNone(t) => prio[t] = BasePrio[t]) /\ \A k \in Mutex : First(t, k) => original[k] = BasePrio[t]
  BY DEF BoostInv
<1>8. ASSUME \A k \in Mutex : owner[k] = t => k = m
      PROVE  prio'[t] = BasePrio[t]
  <2>1. First(t, m)
    BY <1>1, <1>3, <1>8 DEF First
  <2> QED BY <1>2, <1>7, <2>1
<1>9. ASSUME NEW k \in Mutex, k # m, owner[k] = t,
             \A n \in Mutex : n # m /\ owner[n] = t => Rank[k] <= Rank[n]
      PROVE  original[k] = BasePrio[t]
  <2>1. First(t, k)
    BY <1>1, <1>3, <1>4, <1>9 DEF First
  <2> QED BY <1>7, <2>1
<1>10. CASE ReleaseFree(t, m)
  <2>1. /\ owner'[m] = NoThread
        /\ \A k \in Mutex : k # m => owner'[k] = owner[k] /\ original'[k] = original[k]
    BY <1>10 DEF ReleaseFree, Inv, TypeOK
  <2>2. RanksApart'
    BY <2>1, Constants DEF BoostInv, RanksApart
  <2>3. (\A k \in Mutex : owner'[k] # t) => prio'[t] = BasePrio[t]
    BY <1>8, <2>1
  <2>4. ASSUME NEW k \in Mutex, First(t, k)' PROVE original'[k] = BasePrio[t]
    BY <1>9, <2>1, <2>4, Constants DEF First
  <2>5. ASSUME NEW u \in Thread, u # t
        PROVE  /\ (\A k \in Mutex : owner'[k] # u) => prio'[u] = BasePrio[u]
               /\ \A k \in Mutex : First(u, k)' => original'[k] = BasePrio[u]
    <3>1. \A k \in Mutex : owner'[k] = u <=> owner[k] = u
      BY <1>1, <2>1, <2>5, Constants
    <3>2. owner'[m] # u
      BY <2>1, Constants
    <3> QED BY <1>2, <2>1, <2>5, <3>1, <3>2 DEF BoostInv, OwnsNone, First
  <2> QED BY <1>1, <1>5, <1>6, <2>2, <2>3, <2>4, <2>5 DEF BoostInv, OwnsNone
<1>11. CASE ReleaseTo(t, m)
  <2>1. PICK u : u = Head(waiters[m])
    OBVIOUS
  <2>2. /\ u \in Thread /\ u # t /\ pc[u] \in {"wait", "woken"} /\ at[u] = m
        /\ ~ Granted(u, m) /\ \A k \in Mutex : ~ Granted(u, k)
    <3>1. u \in Thread /\ stat[u] = "suspend" /\ pc[u] \in {"wait", "woken"} /\ at[u] = m
      BY <1>11, <2>1, WakeFacts DEF ReleaseTo
    <3> QED BY <1>1, <3>1 DEF Granted
  <2>3. \A k \in Mutex : owner[k] = u => Rank[k] < Rank[m]
    <3>1. ASSUME NEW k \in Mutex, owner[k] = u PROVE Rank[k] < Rank[m]
      <4>1. depth[u][k] > 0
        BY <2>2, <3>1, AgreeFacts DEF Agree
      <4> QED BY <2>2, <4>1 DEF BoostInv, AsksUpwards
    <3> QED BY <3>1
  <2>4. /\ owner'[m] = u /\ original'[m] = prio[u]
        /\ \A k \in Mutex : k # m => owner'[k] = owner[k] /\ original'[k] = original[k]
    <3>1. owner' = [owner EXCEPT ![m] = u] /\ original' = [original EXCEPT ![m] = prio'[u]]
      BY <1>11, <2>1 DEF ReleaseTo
    <3>2. prio'[u] = prio[u]
      BY <1>2, <2>2
    <3> QED BY <3>1, <3>2 DEF Inv, TypeOK
  <2>5. RanksApart'
    BY <1>3, <2>3, <2>4 DEF BoostInv, RanksApart
  <2>6. (\A k \in Mutex : owner'[k] # t) => prio'[t] = BasePrio[t]
    BY <1>8, <2>4
  <2>7. ASSUME NEW k \in Mutex, First(t, k)' PROVE original'[k] = BasePrio[t]
    BY <1>9, <2>2, <2>4, <2>7 DEF First
  <2>8. ASSUME NEW v \in Thread, v # t, v # u
        PROVE  /\ (\A k \in Mutex : owner'[k] # v) => prio'[v] = BasePrio[v]
               /\ \A k \in Mutex : First(v, k)' => original'[k] = BasePrio[v]
    <3>1. \A k \in Mutex : owner'[k] = v <=> owner[k] = v
      BY <1>1, <2>4, <2>8
    <3>2. owner'[m] # v
      BY <2>4, <2>8
    <3> QED BY <1>2, <2>4, <2>8, <3>1, <3>2 DEF BoostInv, OwnsNone, First
  <2>9. ASSUME NEW k \in Mutex, First(u, k)' PROVE original'[k] = BasePrio[u]
    <3>1. owner'[k] = u /\ \A n \in Mutex : owner'[n] = u => Rank[k] <= Rank[n]
      BY <2>9 DEF First
    <3>2. CASE OwnsNone(u)
      <4>1. k = m /\ prio[u] = BasePrio[u]
        BY <2>2, <2>4, <3>1, <3>2 DEF OwnsNone, BoostInv
      <4> QED BY <2>4, <4>1
    <3>3. CASE ~ OwnsNone(u)
      <4>1. PICK n \in Mutex : owner[n] = u
        BY <3>3 DEF OwnsNone
      <4>2. n # m /\ owner'[n] = u /\ Rank[n] < Rank[m]
        BY <1>1, <2>2, <2>3, <2>4, <4>1
      <4>3. k # m
        BY <1>3, <3>1, <4>2
      <4>4. First(u, k)
        BY <1>1, <2>2, <2>4, <3>1, <4>3 DEF First
      <4> QED BY <2>2, <2>4, <4>3, <4>4 DEF BoostInv
    <3> QED BY <3>2, <3>3
  <2> QED BY <1>1, <1>5, <1>6, <2>4, <2>5, <2>6, <2>7, <2>8, <2>9 DEF BoostInv, OwnsNone
<1> QED BY <1>10, <1>11 DEF LetGo

(* A thread that starts to wait owns only mutexes of lower rank, and the   *)
(* thread it boosts owns one.                                              *)
LEMMA TakeWaitBoost ==
  ASSUME Nested, Inv, BoostInv, NEW t \in Thread, NEW m \in Mutex, NEW timed \in BOOLEAN,
         TakeWait(t, m, timed)
  PROVE  BoostInv'
<1>1. /\ value[m] = 0 /\ MayTake(t, m) /\ prio' = Boosted(t, m)
      /\ pc' = [pc EXCEPT ![t] = "wait"] /\ at' = [at EXCEPT ![t] = m]
      /\ UNCHANGED <<owner, original, alive, depth>>
  BY DEF TakeWait, Block, Goto
<1>2. owner[m] \in Thread
  BY <1>1 DEF Inv, FreeOrOwned
<1>3. \A u \in Thread : u # owner[m] => prio'[u] = prio[u]
  BY <1>1, <1>2 DEF Boosted, Inv, TypeOK, ThreadTypeOK
<1>4. \A u \in Thread : prio'[u] = prio[u] \/ \E k \in Mutex : owner[k] = u
  BY <1>3
<1>5. /\ pc'[t] = "wait" /\ at'[t] = m
      /\ \A u \in Thread : u # t => pc'[u] = pc[u] /\ at'[u] = at[u]
  BY <1>1 DEF Inv, TypeOK, ThreadTypeOK
<1>6. \A k \in Mutex : depth'[t][k] > 0 => Rank[k] < Rank[at'[t]]
  BY <1>1, <1>5 DEF MayTake, Holds, Nested
<1>7. AsksUpwards'
  BY <1>1, <1>5, <1>6 DEF BoostInv, AsksUpwards
<1>8. \A u \in Thread : pc'[u] \notin {"drain", "drain_one"}
  BY <1>5 DEF BoostInv
<1> QED BY <1>1, <1>4, <1>7, <1>8, SameOwners

(* Steps that move no owner and no priority, and in which nobody starts to *)
(* wait: all the others.                                                   *)
LEMMA QuietBoost ==
  ASSUME BoostInv, UNCHANGED <<prio, owner, original, alive, at>>,
         \A u \in Thread : pc'[u] # pc[u] =>
           pc'[u] \notin {"wait", "drain", "drain_one"} /\ (pc'[u] = "woken" => pc[u] = "wait"),
         \A u \in Thread : pc'[u] \in {"wait", "woken"} =>
           \A k \in Mutex : depth'[u][k] > 0 => depth[u][k] > 0
  PROVE  BoostInv'
<1>1. \A u \in Thread : pc'[u] \notin {"drain", "drain_one"}
  BY DEF BoostInv
<1>2. AsksUpwards'
  BY NobodyAsks
<1> QED BY <1>1, <1>2, SameOwners

LEMMA NextBoost ==
  ASSUME Nested, Inv, Inv', BoostInv, [Next]_vars
  PROVE  BoostInv'
<1> USE DEF Goto, At
<1>1. CASE UNCHANGED vars
  BY <1>1, QuietBoost DEF vars, threadVars, mutexVars
<1>2. ASSUME NEW t \in Thread, InCall(t) PROVE BoostInv'
  <2>1. CASE SleepSchedule(t) /\ UNCHANGED mutexVars
    BY <2>1, QuietBoost DEF SleepSchedule, Reschedule, mutexVars, Inv, TypeOK, ThreadTypeOK
  <2>2. CASE SleepReturn(t) /\ UNCHANGED mutexVars
    BY <2>2, QuietBoost DEF SleepReturn, mutexVars, Inv, TypeOK, ThreadTypeOK
  <2>3. CASE TakeSchedule(t) \/ PostSchedule(t)
    BY <2>3, QuietBoost
       DEF TakeSchedule, PostSchedule, Reschedule, mutexVars, Inv, TypeOK, ThreadTypeOK
  <2>4. CASE TakeReturn(t)
    <3>1. /\ pc' = [pc EXCEPT ![t] = "run"] /\ UNCHANGED <<prio, owner, original, alive, at>>
          /\ depth' = depth \/ depth' = [depth EXCEPT ![t][at[t]] = @ + 1]
      BY <2>4 DEF TakeReturn
    <3>2. pc \in [Thread -> Places] /\ depth \in [Thread -> [Mutex -> 0 .. MaxHold]]
      BY DEF Inv, TypeOK, ThreadTypeOK
    <3>3. pc'[t] = "run" /\ \A u \in Thread : u # t => pc'[u] = pc[u] /\ depth'[u] = depth[u]
      BY <3>1, <3>2
    <3> QED BY <3>1, <3>3, QuietBoost
  <2>5. CASE DrainTest(t) \/ DrainOne(t)
    BY <2>5 DEF DrainTest, DrainOne, BoostInv
  <2> QED BY <1>2, <2>1, <2>2, <2>3, <2>4, <2>5 DEF InCall
<1>3. ASSUME NEW t \in Thread, Timeout(t) PROVE BoostInv'
  BY <1>3, QuietBoost DEF Timeout, TimeoutOf
<1>4. ASSUME NEW t \in Thread, Sleep(t), UNCHANGED mutexVars PROVE BoostInv'
  BY <1>4, QuietBoost DEF Sleep, mutexVars, Inv, TypeOK, ThreadTypeOK
<1>5. ASSUME NEW t \in Thread, NEW m \in Mutex, Take(t, m) PROVE BoostInv'
  <2>1. CASE TakeAgain(t, m)
    <3>1. /\ pc[t] = "run" /\ UNCHANGED <<prio, owner, original, alive, at, pc>>
          /\ depth' = [depth EXCEPT ![t][m] = @ + 1]
      BY <2>1 DEF TakeAgain, Running
    <3>2. depth \in [Thread -> [Mutex -> 0 .. MaxHold]]
      BY DEF Inv, TypeOK
    <3>3. \A u \in Thread : u # t => depth'[u] = depth[u]
      BY <3>1, <3>2
    <3>4. pc[t] \notin {"wait", "woken"}
      BY <3>1
    <3> QED BY <3>1, <3>3, <3>4, QuietBoost
  <2>2. CASE TakeFull(t, m) \/ TakeBusy(t, m)
    BY <2>2, QuietBoost DEF TakeFull, TakeBusy, mutexVars
  <2>3. CASE TakeFree(t, m)
    BY <2>3, TakeFreeBoost
  <2>4. ASSUME NEW timed \in BOOLEAN, TakeWait(t, m, timed) PROVE BoostInv'
    BY <2>4, TakeWaitBoost
  <2> QED BY <1>5, <2>1, <2>2, <2>3, <2>4 DEF Take
<1>6. ASSUME NEW t \in Thread, NEW m \in Mutex, Release(t, m) PROVE BoostInv'
  <2>1. CASE ReleaseNotOwner(t, m)
    BY <2>1, QuietBoost DEF ReleaseNotOwner, mutexVars
  <2>2. CASE ReleaseNested(t, m)
    <3>1. /\ pc[t] = "run" /\ UNCHANGED <<prio, owner, original, alive, at, pc>>
          /\ depth' = [depth EXCEPT ![t][m] = @ - 1]
      BY <2>2 DEF ReleaseNested, Running, threadVars
    <3>2. depth \in [Thread -> [Mutex -> 0 .. MaxHold]]
      BY DEF Inv, TypeOK
    <3>3. \A u \in Thread : u # t => depth'[u] = depth[u]
      BY <3>1, <3>2
    <3>4. pc[t] \notin {"wait", "woken"}
      BY <3>1
    <3> QED BY <3>1, <3>3, <3>4, QuietBoost
  <2> QED BY <1>6, <2>1, <2>2, LetGoBoost DEF Release
<1>7. ASSUME NEW t \in Thread, NEW m \in Mutex, Detach(t, m) PROVE BoostInv'
  BY <1>7 DEF Detach, Nested
<1>8. CASE SliceEnd /\ UNCHANGED mutexVars
  BY <1>8, QuietBoost DEF SliceEnd, mutexVars
<1> QED BY <1>1, <1>2, <1>3, <1>4, <1>5, <1>6, <1>7, <1>8, Zenon DEF Next

(* For any number of threads and mutexes, taken and released in the lock   *)
(* order and not detached, a thread that owns no mutex runs at the         *)
(* priority it was started with: `original_priority' of the first mutex a  *)
(* thread takes is that priority, and it is the last one given back.       *)
(* Without the order `original_priority' of one mutex may hold a boost     *)
(* through another, and put it back for good.                              *)
THEOREM MutexBoostsEnd ==
  ASSUME Nested
  PROVE  Spec => []BoostEnds
<1>1. Init => BoostInv
  <2>1. ASSUME Init PROVE BoostInv
    <3> USE <2>1, MutexAssumption DEF Init, ThreadInit
    <3>1. RanksApart /\ AsksUpwards
      BY DEF RanksApart, AsksUpwards
    <3>2. \A t \in Thread, m \in Mutex : ~ First(t, m)
      BY DEF First
    <3> QED BY <3>1, <3>2 DEF BoostInv
  <2> QED BY <2>1
<1>2. Inv /\ Inv' /\ BoostInv /\ [Next]_vars => BoostInv'
  BY NextBoost
<1>3. BoostInv => BoostEnds
  BY DEF BoostInv, BoostEnds, OwnsNone
<1> QED BY <1>1, <1>2, <1>3, Invariance, PTL DEF Spec
=============================================================================
