------------------------------- MODULE RtHeap -------------------------------
(***************************************************************************)
(* The small-memory heap of mem.c: a chain of blocks from offset 0 to      *)
(* heap_end, each headed by a struct heap_mem, with first fit from the     *)
(* lowest free block, splitting, and plug_holes.  heap_sem makes each walk *)
(* through the chain one step; a growing rt_realloc is three of them.      *)
(* Offsets and sizes are counted in words of RT_ALIGN_SIZE bytes.          *)
(***************************************************************************)
EXTENDS Integers, FiniteSets, FiniteSetsExt

CONSTANTS
  HeapSize,    \* mem_size_aligned
  Header,      \* SIZEOF_STRUCT_MEM
  MinSize,     \* MIN_SIZE_ALIGNED
  HeapUser,    \* the threads that allocate
  HeapSizes,   \* the sizes they ask for, rounded up to whole words
  MaxHeld      \* bound: blocks a user holds

ASSUME HeapAssumption ==
  /\ {HeapSize, Header, MinSize} \subseteq Nat \ {0}
  /\ MinSize <= HeapSize
  /\ HeapSizes \subseteq 1 .. HeapSize

End == HeapSize + Header

VARIABLES
  mem,       \* offset -> the header that starts there, or the user whose
             \* data fills the word, or Unwritten
  lfree,     \* the lowest free block
  usedMem,   \* used_mem
  held,      \* user -> the blocks it was given: [at: first data word, size]
  growing    \* user -> the steps left of its rt_realloc: a record or NotGrowing

heapVars == <<mem, lfree, usedMem, held, growing>>

Unwritten == "unwritten"
NotGrowing == [step |-> "none"]

HeapInit ==
  /\ mem = [q \in 0 .. End |->
              IF q = 0 THEN [next |-> End, prev |-> 0, used |-> FALSE]
              ELSE IF q = End THEN [next |-> End, prev |-> End, used |-> TRUE]
              ELSE Unwritten]
  /\ lfree = 0
  /\ usedMem = 0
  /\ held = [u \in HeapUser |-> {}]
  /\ growing = [u \in HeapUser |-> NotGrowing]
----------------------------------------------------------------------------
(* The blocks met from p on by following `next'.                           *)
Reach(m, p) ==
  LET node[i \in 0 .. End] == IF i = 0 THEN p ELSE m[node[i - 1]].next
  IN {node[i] : i \in 0 .. End}

DataSize(m, p) == m[p].next - (p + Header)

(* The walk of rt_malloc: the first block from lfree on that is free and   *)
(* large enough, among those that lie before mem_size_aligned - size.      *)
Fits(p, size) == p < HeapSize - size /\ ~ mem[p].used /\ DataSize(mem, p) >= size

Fitting(size) == {p \in Reach(mem, lfree) : Fits(p, size)}

(* "Find next free block after mem and update lowest free pointer".        *)
LowestFree(m, p) == Min({q \in Reach(m, p) : ~ m[q].used} \union {End})

Splits(p, size) == DataSize(mem, p) >= size + Header + MinSize

(* A new free block at r, between p and the block after it.                *)
CutAt(m, p, r) ==
  LET n == m[p].next
      cut == [m EXCEPT ![r] = [next |-> n, prev |-> p, used |-> FALSE], ![p].next = r]
  IN IF n # End THEN [cut EXCEPT ![n].prev = r] ELSE cut

(* Mutant: no merge with the block before.                                 *)
PluggedForward(m, l, p) ==
  LET n == m[p].next IN
  IF n # p /\ ~ m[n].used /\ n # End
    THEN [mem |-> [m EXCEPT ![p].next = m[n].next, ![m[n].next].prev = p],
          lfree |-> IF l = n THEN p ELSE l]
    ELSE [mem |-> m, lfree |-> l]

(* plug_holes: p is merged with the free block after it, then with the     *)
(* free block before it.                                                   *)
Plugged(m, l, p) ==
  LET n == m[p].next
      forward == n # p /\ ~ m[n].used /\ n # End
      fwd == IF forward
               THEN [m EXCEPT ![p].next = m[n].next, ![m[n].next].prev = p] ELSE m
      l1 == IF forward /\ l = n THEN p ELSE l
      b == fwd[p].prev
      backward == b # p /\ ~ fwd[b].used
  IN [mem |-> IF backward
                THEN [fwd EXCEPT ![b].next = fwd[p].next, ![fwd[p].next].prev = b] ELSE fwd,
      lfree |-> IF backward /\ l1 = p THEN b ELSE l1]

(* The user writes the words it was given.                                 *)
Written(m, a, size, u) == [q \in 0 .. End |-> IF q \in a .. a + size - 1 THEN u ELSE m[q]]
----------------------------------------------------------------------------
(* rt_malloc, on the chain: the block at p is taken, and `size' words of   *)
(* it belong to the caller.                                                *)
Larger(n) == IF n < MinSize THEN MinSize ELSE n

Taken(p, size) ==
  LET m == IF Splits(p, size) THEN CutAt(mem, p, p + Header + size) ELSE mem
  IN [m EXCEPT ![p].used = TRUE]

AllocateAt(p, size) ==
  LET m == Taken(p, size) IN
  /\ lfree' = IF p = lfree THEN LowestFree(m, p) ELSE lfree
  /\ usedMem' = usedMem + (m[p].next - p)

Malloc(u, n) ==
  /\ growing[u] = NotGrowing /\ Cardinality(held[u]) < MaxHeld
  /\ Fitting(Larger(n)) # {}
  /\ LET p == Min(Fitting(Larger(n))) IN
     /\ AllocateAt(p, Larger(n))
     /\ mem' = Written(Taken(p, Larger(n)), p + Header, n, u)
     /\ held' = [held EXCEPT ![u] = @ \union {[at |-> p + Header, size |-> n]}]
  /\ UNCHANGED growing

(* rt_free of a block whose data begin at a, on a chain m.                 *)
FreedAt(m, a) ==
  LET p == a - Header
      l == IF p < lfree THEN p ELSE lfree
  IN Plugged([m EXCEPT ![p].used = FALSE], l, p)

HeapFree(u, b) ==
  /\ growing[u] = NotGrowing /\ b \in held[u]
  /\ LET f == FreedAt(mem, b.at) IN mem' = f.mem /\ lfree' = f.lfree
  /\ usedMem' = usedMem - (mem[b.at - Header].next - (b.at - Header))
  /\ held' = [held EXCEPT ![u] = @ \ {b}]
  /\ UNCHANGED growing

(* Mutant: the new header is placed as if the block had none.              *)
CutOffInData(b, n) == (b.at - Header) + n

(* Where the end of a shrinking block is cut off.                          *)
CutOff(b, n) == b.at + n

(* rt_realloc that cuts the end off.  It may leave a block shorter than    *)
(* MIN_SIZE_ALIGNED, which rt_malloc never hands out.  A block can be      *)
(* larger than was asked for: the user fills what it did not have.         *)
Shrink(u, b, n) ==
  LET p == b.at - Header
      r == CutOff(b, n)
      f == Plugged(CutAt(mem, p, r), IF r < lfree THEN r ELSE lfree, r)
  IN
  /\ growing[u] = NotGrowing /\ b \in held[u]
  /\ n + Header + MinSize < DataSize(mem, p)
  /\ usedMem' = usedMem - (DataSize(mem, p) - n)
  /\ mem' = Written(f.mem, b.at + b.size, n - b.size, u) /\ lfree' = f.lfree
  /\ held' = [held EXCEPT ![u] = (@ \ {b}) \union {[at |-> b.at, size |-> n]}]
  /\ UNCHANGED growing

(* rt_realloc to the size the block has.                                   *)
SameSize(u, b, n) ==
  /\ growing[u] = NotGrowing /\ b \in held[u]
  /\ DataSize(mem, b.at - Header) = n
  /\ mem' = Written(mem, b.at + b.size, n - b.size, u)
  /\ held' = [held EXCEPT ![u] = (@ \ {b}) \union {[at |-> b.at, size |-> n]}]
  /\ UNCHANGED <<lfree, usedMem, growing>>

(* rt_realloc to any other size than the block's: heap_sem is released     *)
(* with nothing done, then rt_malloc, then copy and rt_free.               *)
Grow(u, b, n) ==
  /\ growing[u] = NotGrowing /\ b \in held[u]
  /\ DataSize(mem, b.at - Header) # n
  /\ ~ n + Header + MinSize < DataSize(mem, b.at - Header)
  /\ growing' = [growing EXCEPT ![u] =
                   [step |-> "malloc", old |-> b, size |-> n]]
  /\ UNCHANGED <<mem, lfree, usedMem, held>>

GrowMalloc(u) ==
  /\ growing[u].step = "malloc"
  /\ LET fit == Fitting(Larger(growing[u].size)) IN
     IF fit = {}
       THEN growing' = [growing EXCEPT ![u] = NotGrowing] /\ UNCHANGED <<mem, lfree, usedMem>>
       ELSE /\ AllocateAt(Min(fit), Larger(growing[u].size))
            /\ mem' = Taken(Min(fit), Larger(growing[u].size))
            /\ growing' = [growing EXCEPT ![u] =
                 [step |-> "copy", old |-> growing[u].old, size |-> growing[u].size,
                  at |-> Min(fit) + Header]]
  /\ UNCHANGED held

(* The smaller of the two sizes is copied, the user fills the rest.        *)
GrowCopy(u) ==
  LET g == growing[u]
      n == IF g.old.size < g.size THEN g.old.size ELSE g.size
      copied == [q \in 0 .. End |->
                   IF q \in g.at .. g.at + n - 1 THEN mem[g.old.at + (q - g.at)]
                   ELSE IF q \in g.at + n .. g.at + g.size - 1 THEN u ELSE mem[q]]
      f == FreedAt(copied, g.old.at)
  IN
  /\ g.step = "copy"
  /\ mem' = f.mem /\ lfree' = f.lfree
  /\ usedMem' = usedMem - (mem[g.old.at - Header].next - (g.old.at - Header))
  /\ held' = [held EXCEPT ![u] = (@ \ {g.old}) \union {[at |-> g.at, size |-> g.size]}]
  /\ growing' = [growing EXCEPT ![u] = NotGrowing]
----------------------------------------------------------------------------
HeapNext ==
  \E u \in HeapUser :
    \/ GrowMalloc(u) \/ GrowCopy(u)
    \/ \E n \in HeapSizes : Malloc(u, n)
    \/ \E b \in held[u] :
         \/ HeapFree(u, b)
         \/ \E n \in HeapSizes : Shrink(u, b, n) \/ SameSize(u, b, n) \/ Grow(u, b, n)

HeapSpec == HeapInit /\ [][HeapNext]_heapVars
----------------------------------------------------------------------------
Blocks == Reach(mem, 0)
InUse == {p \in Blocks \ {End} : mem[p].used}

(* The chain is what its next reader needs: it rises from 0 to heap_end,   *)
(* `prev' names the block before, no two free blocks lie side by side      *)
(* (rt_malloc relies on it, mem.c:351), lfree is the lowest free block or  *)
(* heap_end, and used_mem is the room of the blocks in use.                *)
HeapWellFormed ==
  LET blocks == Blocks
      used == {p \in blocks \ {End} : mem[p].used}
  IN
  /\ End \in blocks
  /\ \A p \in blocks \ {End} :
       LET n == mem[p].next IN
       /\ n > p + Header
       /\ n # End => mem[n].prev = p
       /\ ~ (n # End /\ ~ mem[p].used /\ ~ mem[n].used)
  /\ lfree = Min({p \in blocks : ~ mem[p].used} \union {End})
  /\ usedMem = Cardinality(UNION {p .. mem[p].next - 1 : p \in used})

(* What an allocation promises: the words a user was given hold what it    *)
(* wrote, through splits, merges and growing rt_reallocs of others, and    *)
(* exactly the blocks given out are in use, so that none leaks.            *)
Given ==
  (UNION {held[u] : u \in HeapUser})
    \union {[at |-> growing[u].at, size |-> growing[u].size] :
              u \in {v \in HeapUser : growing[v].step = "copy"}}

HeldStaysIntact ==
  /\ \A u \in HeapUser : \A b \in held[u] :
       \A q \in b.at .. b.at + b.size - 1 : mem[q] = u
  /\ InUse = {b.at - Header : b \in Given}
  /\ \A b \in Given : b.size <= DataSize(mem, b.at - Header)
=============================================================================
