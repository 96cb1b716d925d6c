----------------------------- MODULE RtMempool ------------------------------
(***************************************************************************)
(* A memory pool of mempool.c: rt_mp_alloc, which loops when the block it  *)
(* was woken for is gone, rt_mp_free from threads and interrupt handlers,  *)
(* and rt_mp_detach.  The first word of a block links it to the next free  *)
(* one; while the block is allocated it holds the address of the pool,     *)
(* which is how rt_mp_free finds it.                                       *)
(***************************************************************************)
EXTENDS RtIpc

CONSTANTS
  PoolBlock, NullBlock,  \* the blocks, and RT_NULL as a link
  ThePool,               \* the address of the pool itself
  MpIsr,                 \* the interrupt handlers as an owner of blocks
  MpUsers                \* the threads that allocate

ASSUME MempoolAssumption ==
  /\ IsFiniteSet(PoolBlock) /\ PoolBlock # {}
  /\ NullBlock \notin PoolBlock /\ ThePool \notin PoolBlock /\ NullBlock # ThePool
  /\ MpIsr \notin Thread /\ MpUsers \subseteq Thread

VARIABLES
  word,        \* block -> its first word
  blockList,   \* mp->block_list
  freeCount,   \* mp->block_free_count
  mpWaiters,   \* mp->suspend_thread
  mpAlive,     \* the object is still in the object container
  mpTime,      \* thread -> the time local of its call
  taken        \* owner -> the blocks rt_mp_alloc has returned to it and that
               \* it has not freed

poolVars == <<word, blockList, freeCount, mpWaiters, mpAlive, mpTime, taken>>

MpPlaces == {"run", "mp_wait", "mp_woken", "mp_post", "mp_drain", "mp_drain_one"}
MpWaits == {"none", "some", "forever"}
MpOwner == Thread \union {MpIsr}

(* rt_mp_init chains the blocks in the order of their addresses.           *)
MpInit ==
  /\ ThreadInit
  /\ LET pool == CHOOSE q \in [1 .. Cardinality(PoolBlock) -> PoolBlock] : NoDuplicates(q) IN
     /\ word = [b \in PoolBlock |->
                  IF b = pool[Len(pool)] THEN NullBlock ELSE pool[Position(pool, b) + 1]]
     /\ blockList = pool[1]
  /\ freeCount = Cardinality(PoolBlock)
  /\ mpWaiters = <<>>
  /\ mpAlive = TRUE
  /\ mpTime = [t \in Thread |-> "none"]
  /\ taken = [o \in MpOwner |-> {}]

MpUsable == mpAlive /\ \A t \in Thread : pc[t] \notin {"mp_drain", "mp_drain_one"}

MpRecomputed(w) == IF w = "some" THEN {"none", "some"} ELSE {w}
----------------------------------------------------------------------------
(* rt_mp_alloc                                                             *)

(* Mutant: the count is left alone.                                        *)
TakeUncounted(o) ==
  /\ freeCount > 0
  /\ UNCHANGED freeCount
  /\ blockList' = word[blockList]
  /\ word' = [word EXCEPT ![blockList] = ThePool]
  /\ taken' = [taken EXCEPT ![o] = @ \union {blockList}]

TakeBlock(o) ==
  /\ freeCount > 0
  /\ freeCount' = freeCount - 1
  /\ blockList' = word[blockList]
  /\ word' = [word EXCEPT ![blockList] = ThePool]
  /\ taken' = [taken EXCEPT ![o] = @ \union {blockList}]

MpAllocNow(t) ==
  /\ TakeBlock(t)
  /\ Goto(t, "run")
  /\ UNCHANGED <<stat, prio, cur, armed, error, mpWaiters, mpAlive, mpTime>>

(* No block and no time to wait: RT_NULL, errno -RT_ETIMEOUT.              *)
MpAllocNothing(t, w) ==
  /\ freeCount = 0 /\ w = "none"
  /\ error' = [error EXCEPT ![t] = "RT_ETIMEOUT"]
  /\ Goto(t, "run")
  /\ UNCHANGED <<stat, prio, cur, armed, poolVars>>

(* The newest waiter goes to the head of the list, whatever its priority.  *)
MpAllocBlock(t, w) ==
  /\ freeCount = 0 /\ w # "none"
  /\ Block(t, w = "some", "mp_wait")
  /\ mpWaiters' = <<t>> \o mpWaiters
  /\ mpTime' = [mpTime EXCEPT ![t] = w]
  /\ UNCHANGED <<prio, cur, word, blockList, freeCount, mpAlive, taken>>

MpAllocBody(t, w) == MpAllocNow(t) \/ MpAllocNothing(t, w) \/ MpAllocBlock(t, w)

MpAlloc(t, w) == Running(t) /\ t \in MpUsers /\ MpUsable /\ MpAllocBody(t, w)

MpAllocSchedule(t) == Reschedule(t, "mp_wait", "mp_woken") /\ UNCHANGED poolVars

MpAllocAgain(t) ==
  /\ At(t, "mp_woken") /\ error[t] = "RT_EOK"
  /\ \E w \in MpRecomputed(mpTime[t]) : MpAllocBody(t, w)

MpAllocFailed(t) ==
  /\ At(t, "mp_woken") /\ error[t] # "RT_EOK"
  /\ Goto(t, "run")
  /\ UNCHANGED <<stat, prio, cur, armed, error, poolVars>>

(* In a handler: never with time to wait.                                  *)
MpAllocFromIsr ==
  /\ MpUsable
  /\ TakeBlock(MpIsr)
  /\ UNCHANGED <<threadVars, mpWaiters, mpAlive, mpTime>>
----------------------------------------------------------------------------
(* rt_mp_free                                                              *)

(* Mutant: a waiter is woken only for the first free block.                *)
PutBlockWakingIfEmpty(o, b) ==
  /\ b \in taken[o] /\ word[b] = ThePool
  /\ freeCount' = freeCount + 1
  /\ word' = [word EXCEPT ![b] = blockList]
  /\ blockList' = b
  /\ taken' = [taken EXCEPT ![o] = @ \ {b}]
  /\ IF mpWaiters # <<>> /\ freeCount = 0
       THEN /\ Wake(Head(mpWaiters)) /\ mpWaiters' = Tail(mpWaiters)
            /\ error' = [error EXCEPT ![Head(mpWaiters)] = "RT_EOK"]
       ELSE UNCHANGED <<stat, armed, mpWaiters, error>>
  /\ UNCHANGED <<mpAlive, mpTime>>

PutBlock(o, b) ==
  /\ b \in taken[o] /\ word[b] = ThePool
  /\ freeCount' = freeCount + 1
  /\ word' = [word EXCEPT ![b] = blockList]
  /\ blockList' = b
  /\ taken' = [taken EXCEPT ![o] = @ \ {b}]
  /\ IF mpWaiters # <<>>
       THEN /\ Wake(Head(mpWaiters)) /\ mpWaiters' = Tail(mpWaiters)
            /\ error' = [error EXCEPT ![Head(mpWaiters)] = "RT_EOK"]
       ELSE UNCHANGED <<stat, armed, mpWaiters, error>>
  /\ UNCHANGED <<mpAlive, mpTime>>

MpFree(t, b) ==
  /\ Running(t) /\ MpUsable
  /\ PutBlock(t, b)
  /\ Goto(t, IF mpWaiters # <<>> THEN "mp_post" ELSE "run")
  /\ UNCHANGED <<prio, cur>>

MpFreeFromIsr(b) ==
  /\ MpUsable
  /\ PutBlock(MpIsr, b)
  /\ UNCHANGED <<prio, pc>>
  /\ IF mpWaiters # <<>> THEN Dispatch ELSE UNCHANGED cur

MpPostSchedule(t) == Reschedule(t, "mp_post", "run") /\ UNCHANGED poolVars
----------------------------------------------------------------------------
(* rt_mp_detach tests the list with interrupts enabled, like               *)
(* rt_ipc_list_resume_all; here no waiter has a timer running.             *)
MpDetach(t) ==
  /\ Running(t) /\ MpUsable
  /\ \A u \in armed : ~ Occurs(mpWaiters, u)
  /\ Goto(t, "mp_drain")
  /\ UNCHANGED <<stat, prio, cur, armed, error, poolVars>>

MpDrainTest(t) ==
  /\ At(t, "mp_drain")
  /\ IF mpWaiters # <<>> THEN Goto(t, "mp_drain_one") /\ UNCHANGED mpAlive
                         ELSE Goto(t, "run") /\ mpAlive' = FALSE
  /\ UNCHANGED <<stat, prio, cur, armed, error, word, blockList, freeCount, mpWaiters,
                 mpTime, taken>>

MpDrainOne(t) ==
  /\ At(t, "mp_drain_one") /\ mpWaiters # <<>>
  /\ Wake(Head(mpWaiters))
  /\ error' = [error EXCEPT ![Head(mpWaiters)] = "RT_ERROR"]
  /\ mpWaiters' = Tail(mpWaiters)
  /\ Goto(t, "mp_drain")
  /\ UNCHANGED <<prio, cur, word, blockList, freeCount, mpAlive, mpTime, taken>>

MpTimeout(u) ==
  /\ TimeoutOf(u)
  /\ mpWaiters' = ListRemove(mpWaiters, u)
  /\ UNCHANGED <<word, blockList, freeCount, mpAlive, mpTime, taken>>
----------------------------------------------------------------------------
MpNext ==
  \/ \E t \in Thread :
       \/ MpAllocSchedule(t) \/ MpAllocAgain(t) \/ MpAllocFailed(t) \/ MpPostSchedule(t)
       \/ MpDetach(t) \/ MpDrainTest(t) \/ MpDrainOne(t) \/ MpTimeout(t)
       \/ \E w \in MpWaits : MpAlloc(t, w)
       \/ \E b \in PoolBlock : MpFree(t, b)
  \/ MpAllocFromIsr
  \/ \E b \in PoolBlock : MpFreeFromIsr(b)
  \/ SliceEnd /\ UNCHANGED poolVars

MpSpec == MpInit /\ [][MpNext]_<<threadVars, poolVars>>
----------------------------------------------------------------------------
MpTypeOK ==
  /\ ThreadTypeOK(MpPlaces)
  /\ word \in [PoolBlock -> PoolBlock \union {NullBlock, ThePool}]
  /\ blockList \in PoolBlock \union {NullBlock}
  /\ freeCount \in 0 .. Cardinality(PoolBlock)
  /\ mpWaiters \in Seq(Thread)
  /\ mpAlive \in BOOLEAN
  /\ mpTime \in [Thread -> MpWaits]
  /\ taken \in [MpOwner -> SUBSET PoolBlock]

(* The free chain: freeCount blocks from block_list on.                    *)
FreeChain ==
  LET node[i \in 1 .. freeCount] == IF i = 1 THEN blockList ELSE word[node[i - 1]]
  IN [i \in 1 .. freeCount |-> node[i]]

(* Each block is free or with one owner: the count, the chain and the      *)
(* owners account for every block once, the chain ends where the count     *)
(* says, and an allocated block still names its pool, so that rt_mp_free   *)
(* finds it (mempool.c:365-382, 427-435).                                  *)
BlocksConserved ==
  /\ {FreeChain[i] : i \in 1 .. freeCount} \union UNION {taken[o] : o \in MpOwner} = PoolBlock
  /\ \A o \in MpOwner :
       /\ \A b \in taken[o] : word[b] = ThePool
       /\ \A p \in MpOwner \ {o} : taken[o] \intersect taken[p] = {}
  /\ IF freeCount = 0 THEN blockList = NullBlock ELSE word[FreeChain[freeCount]] = NullBlock

(* No lost wakeup: nobody waits for a block unless every free block has a  *)
(* woken thread on its way to it, although a woken thread must test again  *)
(* and others may have taken its block.                                    *)
MpOnTheirWay ==
  {t \in Thread : pc[t] \in {"mp_wait", "mp_woken"} /\ stat[t] = "ready" /\ error[t] = "RT_EOK"}

MpNoLostWakeup ==
  /\ NoDuplicates(mpWaiters)
  /\ \A t \in Thread :
       Occurs(mpWaiters, t) <=> stat[t] = "suspend" /\ pc[t] \in {"mp_wait", "mp_woken"}
  /\ mpWaiters # <<>> => freeCount <= Cardinality(MpOnTheirWay)
=============================================================================
