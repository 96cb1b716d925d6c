------------------------------ MODULE W25qBoot ------------------------------
(***************************************************************************)
(* From main() to the jump into the external flash, in the configuration   *)
(* board.h selects (BSP_QSPI_USING_EXAMPLE and BSP_QSPI_USR_MEM_MAP):      *)
(* W25QXX_Init brings the chip from whatever mode the last boot left it in *)
(* to QPI, W25Q_Memory_Mapped_Enable maps it, main() checks the entry and  *)
(* jumps.  One action is one HAL call; a call that fails reports it to     *)
(* nobody who looks.  A HAL_QSPI_Command that times out leaves hqspi.State *)
(* in error, and every later call is refused; a timeout of HAL_QSPI_Receive*)
(* or _Transmit does not.  The MCU may be reset at any moment; the chip is *)
(* not.                                                                    *)
(*                                                                         *)
(* Of the chip (external) only this is modelled: a command is heard when   *)
(* it comes on the number of lines of the chip's mode; 0xFF leaves QPI,    *)
(* 0x38 enters it when SR2.QE is set, 0x99 resets, 0xC0 sets the number of *)
(* dummy clocks.  The write enable latch is left out (W25QXX_WriteEnable   *)
(* before a register write changes nothing else), and the chip is taken to *)
(* be idle when the MCU starts and to be back from its reset at once.      *)
(***************************************************************************)
EXTENDS Naturals

CONSTANTS
  MaxHalFaults,     \* bound on HAL calls that fail
  MaxRestarts,   \* bound on resets of the MCU
  QeFromFactory  \* TRUE: the chip comes with SR2.QE set for good

ASSUME BootAssumption ==
  MaxHalFaults \in Nat /\ MaxRestarts \in Nat /\ QeFromFactory \in BOOLEAN

VARIABLES
  w25qxx_mode,
  hal,        \* hqspi.State: "reset", "ready", "error" or "mapped"
  ready,      \* qspi_ready
  dat,        \* W25QXX_EnterQPIMode: has its SR2 value QE_MASK set?
  app_entry,  \* the word main() read at BSP_QSPI_ADDR_BASE + 4
  caches,     \* the D- and I-cache are on
  systick,    \* SysTick->CTRL is not 0
  bootPc,
  chip,       \* the W25Q128: mode, qe, dummy (0xC0 was heard), image (where
              \* its application's entry lies)
  halFaults, restarts

mcu == <<w25qxx_mode, ready, dat, app_entry, caches, systick>>
halVars == <<hal, halFaults>>
bootVars == <<mcu, halVars, bootPc, chip, restarts>>

Modes == {"spi", "qpi"}
Entries == {"inside", "outside"}   \* the window main() accepts, or not

McuInit ==
  /\ w25qxx_mode = "spi" /\ hal = "reset" /\ ready = FALSE
  /\ dat = FALSE /\ app_entry = "outside"
  /\ caches = TRUE /\ systick = TRUE
  /\ bootPc = "init"

BootInit ==
  /\ McuInit
  /\ chip \in [mode : Modes, qe : {QeFromFactory}, dummy : BOOLEAN, image : Entries]
  /\ chip.mode = "qpi" => chip.qe
  /\ halFaults = 0 /\ restarts = 0
----------------------------------------------------------------------------
Hears(lines) == chip.mode = lines

Goes(from, to) == bootPc = from /\ bootPc' = to

(* A HAL call that ends well; one that is refused with HAL_BUSY; a command *)
(* that waits too long for a flag; a data phase that does.                 *)
Fault == halFaults < MaxHalFaults /\ halFaults' = halFaults + 1
Works == hal = "ready" /\ UNCHANGED halVars
Refused == hal # "ready" /\ UNCHANGED halVars
TimesOut == hal = "ready" /\ hal' = "error" /\ Fault
DataTimesOut == hal = "ready" /\ UNCHANGED hal /\ Fault

(* A command without an answer, whose result the driver ignores; one that  *)
(* times out may have reached the chip.                                    *)
Heard(lines, after) == IF Hears(lines) THEN after ELSE chip

Command(lines, after) ==
  \/ Works /\ chip' = Heard(lines, after)
  \/ TimesOut /\ chip' \in {chip, Heard(lines, after)}
  \/ Refused /\ UNCHANGED chip

(* W25QXX_WriteEnable, a command and its data byte.                        *)
CommandWithData(lines, after) ==
  \/ Command(lines, after)
  \/ DataTimesOut /\ chip' \in {chip, Heard(lines, after)}

(* What a status read returns: the chip's answer, anything when the chip   *)
(* does not listen, 0 when nothing was received.                           *)
Answer(bit) ==
  \/ Works /\ dat' \in IF Hears(w25qxx_mode) THEN {bit} ELSE BOOLEAN
  \/ DataTimesOut /\ dat' \in {FALSE, bit}
  \/ (Refused \/ TimesOut) /\ dat' = FALSE
----------------------------------------------------------------------------
(* W25QXX_Init                                                             *)

MX_QUADSPI_Init ==
  /\ Goes("init", "exit_qpi")
  /\ \/ hal' = "ready" /\ UNCHANGED halFaults
     \/ hal' = "error" /\ Fault
  /\ UNCHANGED <<mcu, chip, restarts>>

ExitQPIMode ==
  /\ Goes("exit_qpi", "wait_busy")
  /\ Command("qpi", [chip EXCEPT !.mode = "spi"])
  /\ w25qxx_mode' = "spi"
  /\ UNCHANGED <<ready, dat, app_entry, caches, systick, restarts>>

(* Mutant: waits for the BUSY bit to be set.                               *)
WaitUntilBusy ==
  /\ bootPc = "wait_busy"
  /\ Answer(FALSE)
  /\ bootPc' = IF dat' THEN "enable_reset" ELSE "wait_busy"
  /\ UNCHANGED <<w25qxx_mode, ready, app_entry, caches, systick, chip, restarts>>

(* W25QXX_WaitBusy: the chip is idle when it answers; a read that is not   *)
(* heard may show the BUSY bit again and again.                            *)
WaitBusy ==
  /\ bootPc = "wait_busy"
  /\ Answer(FALSE)
  /\ bootPc' = IF dat' THEN "wait_busy" ELSE "enable_reset"
  /\ UNCHANGED <<w25qxx_mode, ready, app_entry, caches, systick, chip, restarts>>

EnableReset ==
  /\ bootPc = "enable_reset"
  /\ \/ Works /\ bootPc' = "reset_device"
     \/ (Refused \/ TimesOut) /\ bootPc' = "read_sr2"
  /\ UNCHANGED <<mcu, chip, restarts>>

ResetDevice ==
  /\ Goes("reset_device", "read_sr2")
  /\ Command(w25qxx_mode, [chip EXCEPT !.mode = "spi", !.dummy = FALSE])
  /\ UNCHANGED <<mcu, restarts>>

ReadSR2 ==
  /\ bootPc = "read_sr2"
  /\ Answer(chip.qe)
  /\ bootPc' = IF dat' THEN "enter_qpi" ELSE "write_sr2"
  /\ UNCHANGED <<w25qxx_mode, ready, app_entry, caches, systick, chip, restarts>>

(* W25QXX_WriteSR(2, dat | QE_MASK), after W25QXX_WriteEnable: the opcode  *)
(* it sends, W25X_WriteStatusReg2, is 0x01, which writes SR1.              *)
WrittenBySR2 == chip

WriteSR2 ==
  /\ Goes("write_sr2", "enter_qpi")
  /\ CommandWithData(w25qxx_mode, WrittenBySR2)
  /\ UNCHANGED <<mcu, restarts>>

(* Mutant: w25qxx_mode is not set.                                         *)
EnterQPIModeUnrecorded ==
  /\ Goes("enter_qpi", "set_dummy")
  /\ Command("spi", [chip EXCEPT !.mode = IF chip.qe THEN "qpi" ELSE "spi"])
  /\ UNCHANGED <<mcu, restarts>>

(* w25qxx_mode is set whether or not the chip took the command.            *)
EnterQPIMode ==
  /\ Goes("enter_qpi", "set_dummy")
  /\ Command("spi", [chip EXCEPT !.mode = IF chip.qe THEN "qpi" ELSE "spi"])
  /\ w25qxx_mode' = "qpi"
  /\ UNCHANGED <<ready, dat, app_entry, caches, systick, restarts>>

(* Mutant: the number of dummy clocks is left as the reset left it.        *)
KeepReadParameters ==
  Goes("set_dummy", "map") /\ UNCHANGED <<mcu, halVars, chip, restarts>>

(* W25X_SetReadParameters with its data byte.                              *)
SetReadParameters ==
  /\ Goes("set_dummy", "map")
  /\ CommandWithData("qpi", [chip EXCEPT !.dummy = TRUE])
  /\ UNCHANGED <<mcu, restarts>>
----------------------------------------------------------------------------
(* main()                                                                  *)

MemoryMappedEnable ==
  /\ Goes("map", "set_ready")
  /\ \/ hal = "ready" /\ hal' = "mapped" /\ UNCHANGED halFaults
     \/ Refused \/ TimesOut
  /\ UNCHANGED <<mcu, chip, restarts>>

SetReady ==
  /\ Goes("set_ready", "test_ready")
  /\ ready' = TRUE
  /\ UNCHANGED <<w25qxx_mode, hal, dat, app_entry, caches, systick, chip, halFaults, restarts>>

TestReady ==
  /\ bootPc = "test_ready"
  /\ IF ready THEN bootPc' = "read_entry" /\ caches' = FALSE
              ELSE bootPc' = "returned" /\ UNCHANGED caches
  /\ UNCHANGED <<w25qxx_mode, hal, ready, dat, app_entry, systick, chip, halFaults, restarts>>

(* Reading the window of a flash that is not mapped is a bus error; of one *)
(* that does not follow the read command, anything.                        *)
ReadEntry ==
  /\ bootPc = "read_entry"
  /\ IF hal = "mapped"
       THEN /\ bootPc' = "test_entry"
            /\ app_entry' \in IF Hears("qpi") /\ chip.dummy THEN {chip.image} ELSE Entries
       ELSE bootPc' = "bus_error" /\ UNCHANGED app_entry
  /\ UNCHANGED <<w25qxx_mode, hal, ready, dat, caches, systick, chip, halFaults, restarts>>

Jump ==
  /\ Goes("test_entry", "jumped") /\ app_entry = "inside"
  /\ systick' = FALSE
  /\ UNCHANGED <<w25qxx_mode, hal, ready, dat, app_entry, caches, chip, halFaults, restarts>>

RefuseEntry ==
  /\ Goes("test_entry", "returned") /\ app_entry = "outside"
  /\ UNCHANGED <<mcu, halVars, chip, restarts>>
----------------------------------------------------------------------------
(* A reset of the MCU alone: watchdog, reset key, debugger.                *)
Restart ==
  /\ restarts < MaxRestarts /\ restarts' = restarts + 1
  /\ w25qxx_mode' = "spi" /\ hal' = "reset" /\ ready' = FALSE
  /\ dat' = FALSE /\ app_entry' = "outside"
  /\ caches' = TRUE /\ systick' = TRUE
  /\ bootPc' = "init"
  /\ UNCHANGED <<chip, halFaults>>

Boot ==
  \/ MX_QUADSPI_Init \/ ExitQPIMode \/ WaitBusy \/ EnableReset \/ ResetDevice
  \/ ReadSR2 \/ WriteSR2 \/ EnterQPIMode \/ SetReadParameters
  \/ MemoryMappedEnable \/ SetReady \/ TestReady \/ ReadEntry \/ Jump \/ RefuseEntry

BootNext == Boot \/ Restart

BootSpec == BootInit /\ [][BootNext]_bootVars

(* The CPU keeps executing; that a HAL call fails is never owed.           *)
BootFairness == WF_bootVars(Boot /\ UNCHANGED halFaults)
----------------------------------------------------------------------------
BootTypeOK ==
  /\ w25qxx_mode \in Modes
  /\ hal \in {"reset", "ready", "error", "mapped"}
  /\ ready \in BOOLEAN /\ dat \in BOOLEAN
  /\ app_entry \in Entries
  /\ caches \in BOOLEAN /\ systick \in BOOLEAN
  /\ bootPc \in {"init", "exit_qpi", "wait_busy", "enable_reset", "reset_device",
             "read_sr2", "write_sr2", "enter_qpi", "set_dummy", "map", "set_ready",
             "test_ready", "read_entry", "test_entry", "jumped", "returned", "bus_error"}
  /\ chip \in [mode : Modes, qe : BOOLEAN, dummy : BOOLEAN, image : Entries]
  /\ halFaults \in 0 .. MaxHalFaults /\ restarts \in 0 .. MaxRestarts

(* w25qxx_mode is the chip's mode once W25QXX_Init has returned, in        *)
(* whatever mode, half-way through whatever sequence, the last boot was    *)
(* reset: every later command picks its number of lines by it.  BootTypeOK *)
(* says what the variables range over.                                     *)
Initialised ==
  bootPc \in {"map", "set_ready", "test_ready", "read_entry", "test_entry", "jumped", "returned"}

ModesAgree ==
  /\ BootTypeOK
  /\ Initialised /\ halFaults = 0 => w25qxx_mode = chip.mode

(* main() hands over only to the application in the flash, with the tick   *)
(* and the caches off (main.c:44-64).  Without a fault the entry is that   *)
(* of the image; whatever fails, the flash is at least mapped.             *)
JumpsToImage ==
  bootPc = "jumped" =>
    /\ hal = "mapped" /\ ~ systick /\ ~ caches
    /\ halFaults = 0 => app_entry = chip.image

(* The boot comes to an end: it jumps, or main() returns to a system whose *)
(* shell can be used.                                                      *)
BootEnds == <>(halFaults > 0 \/ bootPc \in {"jumped", "returned"})

(* drv_qspi.c:29 "Memory-mapped mode readiness flag, checked by main()     *)
(* before accessing 0x90000000": while it is set, the flash is mapped.     *)
ReadyMeansMapped == ready => hal = "mapped"
=============================================================================
