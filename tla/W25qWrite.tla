----------------------------- MODULE W25qWrite ------------------------------
(***************************************************************************)
(* W25QXX_Write of w25qxx.c, sector by sector and page by page, on a NOR   *)
(* flash: read the sector into w25qxx_buf, erase and program it as a whole *)
(* when the range to write is not blank, else program the range.           *)
(*                                                                         *)
(* One call runs at a time and nothing else touches the chip.  Every step  *)
(* may fail on the bus without the caller being told: W25QXX_Read,         *)
(* W25QXX_PageProgram and W25QXX_SectorErase return nothing.  A command    *)
(* that times out leaves the HAL in its error state, which refuses all     *)
(* that follow.                                                            *)
(***************************************************************************)
EXTENDS Integers, FiniteSets

CONSTANTS
  PageSize, SectorSize,   \* 256 and 4096 bytes
  Sectors,                \* sectors of the chip
  Blank,                  \* 0xFF
  Old, Junk,              \* a byte stored before the call; programmed twice
  MaxBusFaults,           \* bound on the sectors in which bus commands fail
  OverwriteAnywhere       \* FALSE: bytes that are not blank are overwritten in
                          \* sector 0 only

ASSUME WriteAssumption ==
  /\ PageSize \in Nat \ {0} /\ SectorSize \in Nat \ {0} /\ Sectors \in Nat \ {0}
  /\ SectorSize % PageSize = 0
  /\ MaxBusFaults \in Nat
  /\ OverwriteAnywhere \in BOOLEAN

Address == 0 .. Sectors * SectorSize - 1
SectorOf(a) == a \div SectorSize

(* The byte the caller wants at address a: pbuf[a - start].                *)
New(a) == <<"new", a>>
FlashBytes == {Blank, Old, Junk} \union {New(a) : a \in Address}

VARIABLES
  flash,       \* the chip: address -> byte
  before,    \* flash when the call began
  first, count,        \* the call's addr and size
  addr, size, secRem,  \* its locals, as they move on
  buf,       \* w25qxx_buf: offset -> byte
  from, todo, pageRem, \* W25QXX_Write_NoCheck: its addr, size and page_rem
  source,    \* what it programs: "buf" or "pbuf"
  hit,       \* the sectors in which a bus command failed
  halError,  \* hqspi.State is HAL_QSPI_STATE_ERROR
  stage

call == <<before, first, count>>
locals == <<addr, size, secRem>>
pages == <<from, todo, pageRem, source>>
faults == <<hit, halError>>
writeVars == <<flash, call, locals, buf, pages, faults, stage>>

Least(m, n) == IF m <= n THEN m ELSE n

(* The application writes over stored bytes, or only on blank ones.        *)
MayWrite(a, n) ==
  \/ OverwriteAnywhere
  \/ \A x \in a .. a + n - 1 : flash[x] = Blank \/ SectorOf(x) = 0

WriteInit ==
  /\ flash \in [Address -> {Blank, Old}]
  /\ before = flash
  /\ first = 0 /\ count = 0
  /\ addr = 0 /\ size = 0 /\ secRem = 0
  /\ buf = [i \in 0 .. SectorSize - 1 |-> Old]
  /\ from = 0 /\ todo = 0 /\ pageRem = 0 /\ source = "buf"
  /\ hit = {} /\ halError = FALSE
  /\ stage = "idle"
----------------------------------------------------------------------------
(* A HAL call that ends well; one that is refused; one whose wait for a    *)
(* flag times out; and one of which part or nothing gets across: its data  *)
(* phase times out, or the chip is still busy and does not hear it because *)
(* a failed status read ended the last W25QXX_WaitBusy.                    *)
BusFault ==
  /\ hit' = hit \union {SectorOf(addr)}
  /\ Cardinality(hit') <= MaxBusFaults
BusWorks == ~ halError /\ UNCHANGED faults
BusRefuses == halError /\ UNCHANGED faults
BusTimesOut == ~ halError /\ halError' = TRUE /\ BusFault
BusLoses == ~ halError /\ UNCHANGED halError /\ BusFault

(* The chip.  Programming clears bits, so a byte that is not blank does    *)
(* not become the new one; beyond the end of a page it wraps to its start. *)
Programmed(old, new) ==
  IF old = Blank THEN new ELSE IF new \in {Blank, old} THEN old ELSE Junk

InPage(a, i) == ((a \div PageSize) * PageSize) + ((a + i) % PageSize)

ProgramPage(m, a, n, data) ==
  [x \in Address |->
     IF \E i \in 0 .. n - 1 : InPage(a, i) = x
       THEN Programmed(m[x], data[CHOOSE i \in 0 .. n - 1 : InPage(a, i) = x])
       ELSE m[x]]

(* The erase command takes the sector its byte address lies in.            *)
EraseSector(m, a) == [x \in Address |-> IF SectorOf(x) = SectorOf(a) THEN Blank ELSE m[x]]
----------------------------------------------------------------------------
WriteCall(a, n) ==
  /\ stage = "idle" /\ MayWrite(a, n)
  /\ before' = flash /\ first' = a /\ count' = n
  /\ addr' = a /\ size' = n
  /\ secRem' = Least(n, SectorSize - (a % SectorSize))
  /\ stage' = "read"
  /\ UNCHANGED <<flash, buf, pages, faults>>

(* Mutant: only the range is read.                                         *)
ReadRange ==
  /\ stage = "read" /\ stage' = "test"
  /\ \/ (BusRefuses \/ BusTimesOut) /\ UNCHANGED buf
     \/ /\ BusWorks
        /\ buf' = [i \in 0 .. SectorSize - 1 |->
                     IF i - (addr % SectorSize) \in 0 .. secRem - 1
                       THEN flash[SectorOf(addr) * SectorSize + i] ELSE buf[i]]
  /\ UNCHANGED <<flash, call, locals, pages>>

(* W25QXX_Read of the whole sector into the buffer: as far as it gets, the *)
(* rest of the buffer staying as it was, or the 0xFF of an idle bus.       *)
Read(n) ==
  [i \in 0 .. SectorSize - 1 |-> IF i < n THEN flash[SectorOf(addr) * SectorSize + i] ELSE buf[i]]
IdleBus == [i \in 0 .. SectorSize - 1 |-> Blank]

ReadSector ==
  /\ stage = "read" /\ stage' = "test"
  /\ \/ BusWorks /\ buf' = Read(SectorSize)
     \/ BusLoses /\ buf' \in {Read(n) : n \in 0 .. SectorSize} \union {IdleBus}
     \/ (BusRefuses \/ BusTimesOut) /\ UNCHANGED buf
  /\ UNCHANGED <<flash, call, locals, pages>>

NeedsErase == \E i \in 0 .. secRem - 1 : buf[(addr % SectorSize) + i] # Blank

(* Mutant: the first page takes a page's worth, wherever it starts.        *)
NoCheckUnaligned(src, a, n) ==
  /\ source' = src /\ from' = a /\ todo' = n
  /\ pageRem' = Least(n, PageSize)
  /\ stage' = "program"

(* W25QXX_Write_NoCheck(src, a, n) begins.                                 *)
NoCheck(src, a, n) ==
  /\ source' = src /\ from' = a /\ todo' = n
  /\ pageRem' = Least(n, PageSize - (a % PageSize))
  /\ stage' = "program"

WriteBlank ==
  /\ stage = "test" /\ ~ NeedsErase
  /\ NoCheck("pbuf", addr, secRem)
  /\ UNCHANGED <<flash, call, locals, buf, faults>>

(* W25QXX_SectorErase(sec_pos): its parameter is sent as a byte address.   *)
ErasedAt(s) == s

Merged == [i \in 0 .. SectorSize - 1 |->
             IF i - (addr % SectorSize) \in 0 .. secRem - 1
               THEN New(SectorOf(addr) * SectorSize + i) ELSE buf[i]]

EraseAndMerge ==
  /\ stage = "test" /\ NeedsErase
  /\ LET erased == EraseSector(flash, ErasedAt(SectorOf(addr))) IN
     \/ BusWorks /\ flash' = erased
     \/ (BusLoses \/ BusTimesOut) /\ flash' \in {flash, erased}
     \/ BusRefuses /\ UNCHANGED flash
  /\ buf' = Merged
  /\ NoCheck("buf", SectorOf(addr) * SectorSize, SectorSize)
  /\ UNCHANGED <<call, locals>>

Data(a) == IF source = "pbuf" THEN New(a) ELSE buf[a % SectorSize]

(* One round of W25QXX_Write_NoCheck: W25QXX_PageProgram, then move on.    *)
(* What times out is the command, or the status read after the page.       *)
PageProgram ==
  /\ stage = "program"
  /\ LET programmed(n) ==
           ProgramPage(flash, from, n, [i \in 0 .. pageRem - 1 |-> Data(from + i)]) IN
     \/ BusWorks /\ flash' = programmed(pageRem)
     \/ BusLoses /\ flash' \in {programmed(n) : n \in 0 .. pageRem}
     \/ BusTimesOut /\ flash' \in {flash, programmed(pageRem)}
     \/ BusRefuses /\ UNCHANGED flash
  /\ IF todo = pageRem
       THEN stage' = "next" /\ UNCHANGED <<from, todo, pageRem>>
       ELSE /\ from' = from + pageRem
            /\ todo' = todo - pageRem
            /\ pageRem' = Least(todo', PageSize)
            /\ UNCHANGED stage
  /\ UNCHANGED <<call, locals, buf, source>>

NextSector ==
  /\ stage = "next" /\ size # secRem
  /\ addr' = addr + secRem
  /\ size' = size - secRem
  /\ secRem' = Least(size', SectorSize)
  /\ stage' = "read"
  /\ UNCHANGED <<flash, call, buf, pages, faults>>

WriteReturn ==
  /\ stage = "next" /\ size = secRem
  /\ stage' = "done"
  /\ UNCHANGED <<flash, call, locals, buf, pages, faults>>

WriteNext ==
  \/ \E a \in Address : \E n \in 1 .. Sectors * SectorSize - a : WriteCall(a, n)
  \/ ReadSector \/ WriteBlank \/ EraseAndMerge \/ PageProgram \/ NextSector
  \/ WriteReturn

WriteSpec == WriteInit /\ [][WriteNext]_writeVars
----------------------------------------------------------------------------
WriteTypeOK ==
  /\ flash \in [Address -> FlashBytes] /\ before \in [Address -> FlashBytes]
  /\ first \in Address /\ count \in 0 .. Sectors * SectorSize
  /\ addr \in Address /\ size \in 0 .. Sectors * SectorSize
  /\ secRem \in 0 .. SectorSize
  /\ buf \in [0 .. SectorSize - 1 -> FlashBytes]
  /\ from \in Address /\ todo \in 0 .. SectorSize /\ pageRem \in 0 .. PageSize
  /\ source \in {"buf", "pbuf"}
  /\ hit \subseteq 0 .. Sectors - 1 /\ halError \in BOOLEAN
  /\ stage \in {"idle", "read", "test", "program", "next", "done"}

(* The split into pages and sectors: no page program crosses the end of    *)
(* its page, where the chip would wrap and overwrite the page's start, and *)
(* none leaves the sector that was read.  WriteTypeOK, checked with it,    *)
(* says what the variables range over.                                     *)
SplitRespectsPages ==
  /\ WriteTypeOK
  /\ stage = "program" =>
       /\ pageRem <= todo
       /\ from \div PageSize = (from + pageRem - 1) \div PageSize
       /\ SectorOf(from) = SectorOf(addr) /\ SectorOf(from + pageRem - 1) = SectorOf(addr)

(* What W25QXX_Write is for (w25qxx.h:88): without a bus failure, the      *)
(* bytes of the range are the caller's afterwards and all others are what  *)
(* they were, although whole sectors were erased and written back.         *)
Stored(x) == flash[x] = IF x \in first .. first + count - 1 THEN New(x) ELSE before[x]

WriteStores == stage = "done" /\ hit = {} => \A x \in Address : Stored(x)

(* W25QXX_Write as above, and with bus failures: stale bytes in w25qxx_buf *)
(* (w25qxx.c:515), an erase or a page that did not take, spoil only the    *)
(* sector they happened in, and sector 0, where an erase meant for another *)
(* sector goes (w25qxx.c:523).  What follows in the call is stored all the *)
(* same, or, once the HAL refuses, left alone: it is never half done.      *)
Spoilt == IF hit = {} THEN {} ELSE hit \union {SectorOf(ErasedAt(0))}

DamageIsLocal ==
  stage = "done" =>
    \A s \in (0 .. Sectors - 1) \ Spoilt :
      LET sector == {x \in Address : SectorOf(x) = s} IN
      \/ \A x \in sector : Stored(x)
      \/ halError /\ \A x \in sector : flash[x] = before[x]
=============================================================================
