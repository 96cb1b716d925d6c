--------------------------- MODULE ServicesProofs ---------------------------
(***************************************************************************)
(* Proofs about the parts that share no state with the IPC objects: the    *)
(* context switch of the CPU port, the flash driver, the heap and the      *)
(* shell's input loop.  They share no state with each other either.        *)
(***************************************************************************)
EXTENDS RtSwitch, W25qBoot, W25qWrite, RtHeap, FinshShell, RtListLemmas,
        SequenceTheorems, FiniteSetTheorems, TLAPS
----------------------------------------------------------------------------
(***************************************************************************)
(* The context switch follows the scheduler, and gives every thread        *)
(* registers of its own, for any number of threads and any contents.       *)
(*                                                                         *)
(* CpuFollowsScheduler is inductive beside the types.  It is also what the *)
(* refinement needs: PendSV saves the registers on the stack of            *)
(* rt_interrupt_from_thread, and only because that is the thread that      *)
(* executes do they stay the registers of their owner.                     *)
(***************************************************************************)
SwitchInv == SwitchTypeOK /\ CpuFollowsScheduler

LEMMA NewFrameType == NewFrame \in [flag : BOOLEAN, int : Contents, fp : Contents]
  BY DEF NewFrame, Contents

LEMMA FrameType ==
  ASSUME SwitchTypeOK
  PROVE  Frame \in [flag : BOOLEAN, int : Contents, fp : Contents]
  BY DEF SwitchTypeOK, Frame, Contents

LEMMA LoadedType ==
  ASSUME SwitchTypeOK, NEW f \in [flag : BOOLEAN, int : Contents, fp : Contents]
  PROVE  Loaded(f) \in [int : Contents, fp : Contents, fpca : BOOLEAN]
  BY DEF SwitchTypeOK, Loaded

LEMMA SwitchInitInv == SwitchInit => SwitchInv
<1> SUFFICES ASSUME SwitchInit PROVE SwitchInv
  OBVIOUS
<1>1. core \in [int : Contents, fp : Contents, fpca : BOOLEAN]
  BY DEF SwitchInit, Contents
<1>2. saved \in [SwThread -> [flag : BOOLEAN, int : Contents, fp : Contents]]
  BY NewFrameType DEF SwitchInit
<1>3. CpuFollowsScheduler
  BY DEF SwitchInit, CpuFollowsScheduler
<1> QED BY <1>1, <1>2, <1>3 DEF SwitchInit, SwitchInv, SwitchTypeOK

(* The steps of a thread and of a handler between two switches.            *)
LEMMA RequestInv ==
  ASSUME SwitchInv, NEW t \in SwThread, ThreadSchedules(t) \/ HandlerSchedules(t)
  PROVE  SwitchInv'
  BY DEF SwitchInv, SwitchTypeOK, CpuFollowsScheduler, ThreadSchedules, HandlerSchedules,
     Request

LEMMA MaskInv == SwitchInv /\ (Mask \/ Unmask) => SwitchInv'
<1> SUFFICES ASSUME SwitchInv, Mask \/ Unmask PROVE SwitchInv'
  OBVIOUS
<1>1. /\ masked' \in BOOLEAN
      /\ UNCHANGED <<current, executing, fromThread, toThread, switchFlag, pended,
                     cpuMode, core, saved>>
  BY DEF Mask, Unmask
<1> QED BY <1>1 DEF SwitchInv, SwitchTypeOK, CpuFollowsScheduler

LEMMA UseInv ==
  ASSUME SwitchInv, NEW v \in Word, UseRegisters(v) \/ UseFpu(v)
  PROVE  SwitchInv'
<1>1. core' \in [int : Contents, fp : Contents, fpca : BOOLEAN]
  BY DEF SwitchInv, SwitchTypeOK, UseRegisters, UseFpu, Contents
<1>2. UNCHANGED <<current, executing, fromThread, toThread, switchFlag, pended, masked,
                  cpuMode, saved>>
  BY DEF UseRegisters, UseFpu
<1> QED BY <1>1, <1>2 DEF SwitchInv, SwitchTypeOK, CpuFollowsScheduler

LEMMA SetUpInv ==
  ASSUME SwitchInv, NEW t \in SwThread, SetUpThread(t)
  PROVE  SwitchInv'
  BY NewFrameType DEF SwitchInv, SwitchTypeOK, CpuFollowsScheduler, SetUpThread

LEMMA PendSVInv == SwitchInv /\ PendSV_Handler => SwitchInv'
<1> SUFFICES ASSUME SwitchInv, PendSV_Handler PROVE SwitchInv'
  OBVIOUS
<1>1. CASE PendSVEnter
  BY <1>1 DEF SwitchInv, SwitchTypeOK, CpuFollowsScheduler, PendSVEnter
<1>2. CASE PendSVSwitch
  <2>1. saved' \in [SwThread -> [flag : BOOLEAN, int : Contents, fp : Contents]]
    BY <1>2, FrameType DEF SwitchInv, SwitchTypeOK, PendSVSwitch
  <2>2. core' \in [int : Contents, fp : Contents, fpca : BOOLEAN]
    <3>1. saved'[toThread] \in [flag : BOOLEAN, int : Contents, fp : Contents]
      BY <2>1 DEF SwitchInv, SwitchTypeOK
    <3> QED BY <1>2, <3>1, LoadedType DEF SwitchInv, PendSVSwitch
  <2> QED
    BY <1>2, <2>1, <2>2 DEF SwitchInv, SwitchTypeOK, CpuFollowsScheduler, PendSVSwitch
<1>3. CASE PendSVNothing
  BY <1>3 DEF SwitchInv, SwitchTypeOK, CpuFollowsScheduler, PendSVNothing
<1>4. CASE PendSVReturn
  BY <1>4 DEF SwitchInv, SwitchTypeOK, CpuFollowsScheduler, PendSVReturn
<1> QED BY <1>1, <1>2, <1>3, <1>4 DEF PendSV_Handler

LEMMA SwitchNextInv == SwitchInv /\ [SwitchNext]_switchVars => SwitchInv'
<1> SUFFICES ASSUME SwitchInv, [SwitchNext]_switchVars PROVE SwitchInv'
  OBVIOUS
<1>1. CASE UNCHANGED switchVars
  BY <1>1 DEF SwitchInv, SwitchTypeOK, CpuFollowsScheduler, switchVars
<1>2. CASE SwitchNext
  BY <1>2, RequestInv, MaskInv, UseInv, SetUpInv, PendSVInv DEF SwitchNext
<1> QED BY <1>1, <1>2

LEMMA SwitchInvariance == SwitchSpec => []SwitchInv
<1> QED BY SwitchInitInv, SwitchNextInv, PTL DEF SwitchSpec

(* Type correctness of the CPU port's state, for every instance.           *)
THEOREM SwitchTypeCorrect == SwitchSpec => []SwitchTypeOK
<1>1. SwitchInv => SwitchTypeOK
  BY DEF SwitchInv
<1> QED BY <1>1, SwitchInvariance, PTL

(* The CPU executes rt_current_thread, or a switch to it from the thread   *)
(* that executes is on its way, for any number of threads.                 *)
THEOREM SwitchFollows == SwitchSpec => []CpuFollowsScheduler
<1>1. SwitchInv => CpuFollowsScheduler
  BY DEF SwitchInv
<1> QED BY <1>1, SwitchInvariance, PTL
----------------------------------------------------------------------------
(* What each step does to the registers of the threads.                    *)
RegisterSet == [int : Contents, fp : Contents, fpu : BOOLEAN]
BlankRegisters == [int |-> Deadbeef, fp |-> Deadbeef, fpu |-> FALSE]

LEMMA InitContexts == SwitchInit => Contexts!Init
<1> SUFFICES ASSUME SwitchInit PROVE Contexts!Init
  OBVIOUS
<1>1. \A t \in SwThread : ContextOf(t) = BlankRegisters
  BY SwitchAssumption DEF SwitchInit, ContextOf, Registers, NewFrame, BlankRegisters
<1> QED BY <1>1 DEF SwitchInit, Contexts!Init, BlankRegisters

(* A thread's own instruction changes its own registers only.              *)
LEMMA ComputeContexts ==
  ASSUME SwitchInv, NEW v \in Word, UseRegisters(v) \/ UseFpu(v)
  PROVE  Contexts!Next
<1>1. executing \in SwThread /\ executing' = executing
  BY DEF SwitchInv, SwitchTypeOK, UseRegisters, UseFpu, Executes
<1>2. ContextOf(executing)' \in RegisterSet
  BY <1>1 DEF SwitchInv, SwitchTypeOK, UseRegisters, UseFpu, ContextOf, Registers,
     RegisterSet, Contents
<1>3. \A t \in SwThread \ {executing} : ContextOf(t)' = ContextOf(t)
  BY <1>1 DEF UseRegisters, UseFpu, ContextOf
<1>4. [t \in SwThread |-> ContextOf(t)]'
        = [[t \in SwThread |-> ContextOf(t)] EXCEPT ![executing] = ContextOf(executing)']
  BY <1>1, <1>3
<1>5. Contexts!Compute(ContextOf(executing)')
  BY <1>1, <1>4 DEF Contexts!Compute
<1> QED BY <1>2, <1>5 DEF Contexts!Next, RegisterSet

LEMMA SetUpContexts ==
  ASSUME SwitchInv, NEW u \in SwThread, SetUpThread(u)
  PROVE  Contexts!Next
<1>1. u # executing /\ executing' = executing
  BY DEF SetUpThread
<1>2. ContextOf(u)' = BlankRegisters
  BY <1>1 DEF SwitchInv, SwitchTypeOK, SetUpThread, ContextOf, Registers, NewFrame,
     BlankRegisters
<1>3. \A t \in SwThread \ {u} : ContextOf(t)' = ContextOf(t)
  BY <1>1 DEF SwitchInv, SwitchTypeOK, SetUpThread, ContextOf
<1>4. [t \in SwThread |-> ContextOf(t)]'
        = [[t \in SwThread |-> ContextOf(t)] EXCEPT ![u] = BlankRegisters]
  BY <1>2, <1>3
<1>5. Contexts!SetUp(u)
  BY <1>1, <1>4 DEF Contexts!SetUp, BlankRegisters
<1> QED BY <1>5 DEF Contexts!Next

(* PendSV moves the registers of two threads between the core and their    *)
(* stacks; as registers of their threads they stay what they were.         *)
LEMMA SwitchContexts ==
  ASSUME SwitchInv, PendSVSwitch
  PROVE  Contexts!Next
<1>1. fromThread = executing /\ executing' = toThread /\ toThread \in SwThread
  BY DEF SwitchInv, SwitchTypeOK, CpuFollowsScheduler, PendSVSwitch
<1>2. \A t \in SwThread :
        saved'[t] = IF t = fromThread THEN Frame ELSE saved[t]
  BY SwitchAssumption DEF SwitchInv, SwitchTypeOK, PendSVSwitch
<1>3. \A t \in SwThread : Registers(saved'[t], saved'[t].flag) = ContextOf(t)
  BY <1>1, <1>2 DEF SwitchInv, SwitchTypeOK, ContextOf, Registers, Frame
<1>4. \A t \in SwThread : ContextOf(t)' = ContextOf(t)
  <2> SUFFICES ASSUME NEW t \in SwThread PROVE ContextOf(t)' = ContextOf(t)
    OBVIOUS
  <2>1. CASE t = toThread
    <3>1. core' = Loaded(saved'[t])
      BY <2>1 DEF PendSVSwitch
    <3>2. Registers(core', core'.fpca) = Registers(saved'[t], saved'[t].flag)
      BY <3>1 DEF Loaded, Registers
    <3> QED BY <1>1, <1>3, <2>1, <3>2 DEF ContextOf
  <2>2. CASE t # toThread
    BY <1>1, <1>3, <2>2 DEF ContextOf
  <2> QED BY <2>1, <2>2
<1>5. [t \in SwThread |-> ContextOf(t)]' = [t \in SwThread |-> ContextOf(t)]
  BY <1>4
<1>6. Contexts!SwitchTo(toThread)
  BY <1>1, <1>5 DEF Contexts!SwitchTo
<1> QED BY <1>1, <1>6 DEF Contexts!Next

(* Every other step leaves the registers and the executing thread alone.   *)
LEMMA QuietContexts ==
  ASSUME UNCHANGED <<executing, core, saved>>
  PROVE  UNCHANGED <<executing, [t \in SwThread |-> ContextOf(t)]>>
  BY DEF ContextOf, Registers

LEMMA StepContexts ==
  ASSUME SwitchInv, [SwitchNext]_switchVars
  PROVE  [Contexts!Next]_<<executing, [t \in SwThread |-> ContextOf(t)]>>
<1>1. CASE UNCHANGED switchVars
  BY <1>1, QuietContexts DEF switchVars
<1>2. CASE PendSV_Handler
  <2>1. CASE PendSVSwitch
    BY <2>1, SwitchContexts
  <2>2. CASE PendSVEnter \/ PendSVNothing \/ PendSVReturn
    BY <2>2, QuietContexts DEF PendSVEnter, PendSVNothing, PendSVReturn
  <2> QED BY <1>2, <2>1, <2>2 DEF PendSV_Handler
<1>3. CASE Mask \/ Unmask
  BY <1>3, QuietContexts DEF Mask, Unmask
<1>4. ASSUME NEW t \in SwThread, ThreadSchedules(t) \/ HandlerSchedules(t) \/ SetUpThread(t)
      PROVE  [Contexts!Next]_<<executing, [u \in SwThread |-> ContextOf(u)]>>
  BY <1>4, QuietContexts, SetUpContexts DEF ThreadSchedules, HandlerSchedules
<1>5. ASSUME NEW v \in Word, UseRegisters(v) \/ UseFpu(v)
      PROVE  [Contexts!Next]_<<executing, [t \in SwThread |-> ContextOf(t)]>>
  BY <1>5, ComputeContexts
<1> QED BY <1>1, <1>2, <1>3, <1>4, <1>5 DEF SwitchNext

(* The port keeps its promise: through every sequence of requests from     *)
(* threads and handlers and every switch, a thread's registers are its     *)
(* own, whatever the number of threads and what they compute.              *)
THEOREM SwitchKeepsRegisters == SwitchSpec => RegistersArePrivate
<1>1. SwitchInv /\ [SwitchNext]_switchVars
        => [Contexts!Next]_<<executing, [t \in SwThread |-> ContextOf(t)]>>
  BY StepContexts
<1> QED BY <1>1, InitContexts, SwitchInvariance, PTL
        DEF SwitchSpec, RegistersArePrivate, Contexts!Spec
----------------------------------------------------------------------------
(***************************************************************************)
(* The boot for any number of failing HAL calls and of resets of the MCU.  *)
(*                                                                         *)
(* What the boot relies on is spread over its steps: until a call has      *)
(* failed, chip and driver are both in SPI from the wake-up command to     *)
(* W25QXX_EnterQPIMode and both in QPI after it, in whatever mode the      *)
(* last boot left the chip; a failure is remembered by the HAL or by       *)
(* nobody, and only that the flash is mapped is checked before the jump.   *)
(***************************************************************************)
SpiSteps == {"wait_busy", "enable_reset", "reset_device", "read_sr2", "write_sr2", "enter_qpi"}
MappedSteps == {"set_ready", "test_ready", "read_entry", "test_entry", "jumped", "returned"}

(* Whatever failed.                                                        *)
JumpInv ==
  /\ bootPc \in {"read_entry", "test_entry", "jumped"} => ~ caches
  /\ bootPc \in {"test_entry", "jumped"} => hal = "mapped"
  /\ bootPc = "jumped" => ~ systick

(* While no HAL call has failed.                                           *)
FaultlessInv ==
  /\ bootPc = "init" => hal = "reset"
  /\ bootPc \in SpiSteps \union {"exit_qpi", "set_dummy", "map"} => hal = "ready"
  /\ bootPc \in MappedSteps => hal = "mapped"
  /\ bootPc \in SpiSteps => w25qxx_mode = "spi" /\ chip.mode = "spi"
  /\ bootPc \in MappedSteps \union {"set_dummy", "map"} =>
       w25qxx_mode = "qpi" /\ chip.mode = "qpi"
  /\ bootPc \in MappedSteps \union {"map"} => chip.dummy
  /\ bootPc \in {"test_entry", "jumped"} => app_entry = chip.image
  /\ bootPc # "bus_error"

BootInv ==
  /\ BootTypeOK
  /\ chip.qe
  /\ JumpInv
  /\ halFaults = 0 => FaultlessInv

Chip == [mode : Modes, qe : BOOLEAN, dummy : BOOLEAN, image : Entries]

LEMMA BootInitInv == QeFromFactory /\ BootInit => BootInv
<1> SUFFICES ASSUME QeFromFactory, BootInit PROVE BootInv
  OBVIOUS
<1>1. chip \in Chip /\ chip.qe
  BY BootAssumption DEF BootInit, Chip
<1>2. /\ w25qxx_mode \in Modes /\ app_entry \in Entries
      /\ halFaults \in 0 .. MaxHalFaults /\ restarts \in 0 .. MaxRestarts
  BY BootAssumption DEF BootInit, McuInit, Modes, Entries
<1>3. ready \in BOOLEAN /\ dat \in BOOLEAN /\ caches \in BOOLEAN /\ systick \in BOOLEAN
  BY DEF BootInit, McuInit
<1>4. BootTypeOK
  BY <1>1, <1>2, <1>3 DEF BootInit, McuInit, BootTypeOK, Chip
<1> QED
  BY <1>1, <1>4 DEF BootInit, McuInit, BootInv, JumpInv, FaultlessInv, SpiSteps, MappedSteps

(* What a command may do: it works, is refused, or times out for good.     *)
LEMMA CommandFacts ==
  ASSUME BootTypeOK, NEW lines, NEW after \in Chip, Command(lines, after)
  PROVE  /\ hal' \in {"reset", "ready", "error", "mapped"}
         /\ halFaults' \in 0 .. MaxHalFaults
         /\ chip' \in {chip, after}
         /\ halFaults' = 0 => halFaults = 0 /\ hal' = hal
         /\ halFaults' = 0 /\ hal = "ready" => chip' = IF chip.mode = lines THEN after ELSE chip
  BY BootAssumption DEF Command, BootTypeOK, Works, TimesOut, Refused, Fault, halVars, Heard, Hears

LEMMA CommandWithDataFacts ==
  ASSUME BootTypeOK, NEW lines, NEW after \in Chip, CommandWithData(lines, after)
  PROVE  /\ hal' \in {"reset", "ready", "error", "mapped"}
         /\ halFaults' \in 0 .. MaxHalFaults
         /\ chip' \in {chip, after}
         /\ halFaults' = 0 => halFaults = 0 /\ hal' = hal
         /\ halFaults' = 0 /\ hal = "ready" => chip' = IF chip.mode = lines THEN after ELSE chip
<1>1. CASE Command(lines, after)
  BY <1>1, CommandFacts
<1>2. CASE DataTimesOut /\ chip' \in {chip, Heard(lines, after)}
  BY <1>2, BootAssumption DEF BootTypeOK, DataTimesOut, Fault, Heard
<1> QED BY <1>1, <1>2 DEF CommandWithData

LEMMA AnswerFacts ==
  ASSUME BootTypeOK, NEW bit \in BOOLEAN, Answer(bit)
  PROVE  /\ hal' \in {"reset", "ready", "error", "mapped"}
         /\ halFaults' \in 0 .. MaxHalFaults
         /\ dat' \in BOOLEAN
         /\ halFaults' = 0 => halFaults = 0 /\ hal' = hal
<1>1. dat' \in BOOLEAN
  BY DEF Answer
<1>2. Works \/ TimesOut \/ Refused \/ DataTimesOut
  BY DEF Answer
<1>3. /\ hal' \in {"reset", "ready", "error", "mapped"}
      /\ halFaults' \in 0 .. MaxHalFaults
      /\ halFaults' = 0 => halFaults = 0 /\ hal' = hal
  BY <1>2, BootAssumption DEF BootTypeOK, Works, TimesOut, Refused, DataTimesOut, Fault, halVars
<1> QED BY <1>1, <1>3

LEMMA PowerUpInv == BootInv /\ MX_QUADSPI_Init => BootInv'
<1> SUFFICES ASSUME BootInv, MX_QUADSPI_Init PROVE BootInv'
  OBVIOUS
<1>1. /\ bootPc = "init" /\ bootPc' = "exit_qpi" /\ UNCHANGED <<mcu, chip, restarts>>
      /\ hal' \in {"ready", "error"} /\ halFaults' \in 0 .. MaxHalFaults
      /\ halFaults' = 0 => halFaults = 0 /\ hal' = "ready"
  BY BootAssumption DEF BootInv, BootTypeOK, MX_QUADSPI_Init, Goes, Fault
<1> QED BY <1>1 DEF BootInv, BootTypeOK, JumpInv, FaultlessInv, SpiSteps, MappedSteps, mcu

(* The steps of W25QXX_Init that send a command.                           *)
LEMMA CommandInv ==
  ASSUME BootInv, ExitQPIMode \/ ResetDevice \/ EnterQPIMode \/ SetReadParameters \/ WriteSR2
  PROVE  BootInv'
<1> USE DEF Modes
<1>1. chip \in Chip
  BY DEF BootInv, BootTypeOK, Chip
<1>2. CASE ExitQPIMode
  <2>1. [chip EXCEPT !.mode = "spi"] \in Chip
    BY <1>1 DEF Chip
  <2>2. /\ bootPc = "exit_qpi" /\ bootPc' = "wait_busy" /\ w25qxx_mode' = "spi"
        /\ UNCHANGED <<ready, dat, app_entry, caches, systick, restarts>>
        /\ hal' \in {"reset", "ready", "error", "mapped"} /\ halFaults' \in 0 .. MaxHalFaults
        /\ chip' \in {chip, [chip EXCEPT !.mode = "spi"]}
        /\ halFaults' = 0 => halFaults = 0 /\ hal' = hal
        /\ halFaults' = 0 /\ hal = "ready"
             => chip' = IF chip.mode = "qpi" THEN [chip EXCEPT !.mode = "spi"] ELSE chip
    BY <1>2, <2>1, CommandFacts DEF ExitQPIMode, Goes, BootInv
  <2>3. halFaults' = 0 => chip'.mode = "spi"
    BY <1>1, <2>2 DEF BootInv, FaultlessInv, SpiSteps, Chip
  <2> QED BY <1>1, <2>2, <2>3
    DEF BootInv, BootTypeOK, JumpInv, FaultlessInv, SpiSteps, MappedSteps, Chip
<1>3. CASE ResetDevice
  <2>1. [chip EXCEPT !.mode = "spi", !.dummy = FALSE] \in Chip
    BY <1>1 DEF Chip
  <2>2. /\ bootPc = "reset_device" /\ bootPc' = "read_sr2" /\ UNCHANGED <<mcu, restarts>>
        /\ hal' \in {"reset", "ready", "error", "mapped"} /\ halFaults' \in 0 .. MaxHalFaults
        /\ chip' \in {chip, [chip EXCEPT !.mode = "spi", !.dummy = FALSE]}
        /\ halFaults' = 0 => halFaults = 0 /\ hal' = hal
    BY <1>3, <2>1, CommandFacts DEF ResetDevice, Goes, BootInv
  <2>3. chip' \in Chip /\ chip'.qe /\ (chip.mode = "spi" => chip'.mode = "spi")
    BY <1>1, <2>1, <2>2 DEF BootInv, Chip
  <2> QED BY <2>2, <2>3
    DEF BootInv, BootTypeOK, JumpInv, FaultlessInv, SpiSteps, MappedSteps, Chip, mcu
<1>4. CASE EnterQPIMode
  <2>1. [chip EXCEPT !.mode = IF chip.qe THEN "qpi" ELSE "spi"] \in Chip
    BY <1>1 DEF Chip
  <2>2. /\ bootPc = "enter_qpi" /\ bootPc' = "set_dummy" /\ w25qxx_mode' = "qpi"
        /\ UNCHANGED <<ready, dat, app_entry, caches, systick, restarts>>
        /\ hal' \in {"reset", "ready", "error", "mapped"} /\ halFaults' \in 0 .. MaxHalFaults
        /\ chip' \in {chip, [chip EXCEPT !.mode = IF chip.qe THEN "qpi" ELSE "spi"]}
        /\ halFaults' = 0 => halFaults = 0 /\ hal' = hal
        /\ halFaults' = 0 /\ hal = "ready"
             => chip' = IF chip.mode = "spi"
                          THEN [chip EXCEPT !.mode = IF chip.qe THEN "qpi" ELSE "spi"] ELSE chip
    BY <1>4, <2>1, CommandFacts DEF EnterQPIMode, Goes, BootInv
  <2>3. chip' \in Chip /\ chip'.qe
    BY <1>1, <2>1, <2>2 DEF BootInv, Chip
  <2>4. halFaults' = 0 => chip'.mode = "qpi"
    BY <1>1, <2>2 DEF BootInv, FaultlessInv, SpiSteps, Chip
  <2> QED BY <2>2, <2>3, <2>4
    DEF BootInv, BootTypeOK, JumpInv, FaultlessInv, SpiSteps, MappedSteps, Chip
<1>5. CASE SetReadParameters
  <2>1. [chip EXCEPT !.dummy = TRUE] \in Chip
    BY <1>1 DEF Chip
  <2>2. /\ bootPc = "set_dummy" /\ bootPc' = "map" /\ UNCHANGED <<mcu, restarts>>
        /\ hal' \in {"reset", "ready", "error", "mapped"} /\ halFaults' \in 0 .. MaxHalFaults
        /\ chip' \in {chip, [chip EXCEPT !.dummy = TRUE]}
        /\ halFaults' = 0 => halFaults = 0 /\ hal' = hal
        /\ halFaults' = 0 /\ hal = "ready"
             => chip' = IF chip.mode = "qpi" THEN [chip EXCEPT !.dummy = TRUE] ELSE chip
    BY <1>5, <2>1, CommandWithDataFacts DEF SetReadParameters, Goes, BootInv
  <2>3. chip' \in Chip /\ chip'.qe /\ chip'.mode = chip.mode
    BY <1>1, <2>1, <2>2 DEF BootInv, Chip
  <2>4. halFaults' = 0 => chip'.dummy
    BY <1>1, <2>2 DEF BootInv, FaultlessInv, Chip
  <2> QED BY <2>2, <2>3, <2>4
    DEF BootInv, BootTypeOK, JumpInv, FaultlessInv, SpiSteps, MappedSteps, Chip, mcu
<1>6. CASE WriteSR2
  <2>1. /\ bootPc = "write_sr2" /\ bootPc' = "enter_qpi" /\ UNCHANGED <<mcu, restarts>>
        /\ hal' \in {"reset", "ready", "error", "mapped"} /\ halFaults' \in 0 .. MaxHalFaults
        /\ chip' = chip
        /\ halFaults' = 0 => halFaults = 0 /\ hal' = hal
    BY <1>1, <1>6, CommandWithDataFacts DEF WriteSR2, WrittenBySR2, Goes, BootInv
  <2> QED BY <2>1 DEF BootInv, BootTypeOK, JumpInv, FaultlessInv, SpiSteps, MappedSteps, mcu
<1> QED BY <1>2, <1>3, <1>4, <1>5, <1>6

(* The steps that read a status register, and the reset's first command.   *)
LEMMA StatusInv == BootInv /\ (WaitBusy \/ ReadSR2 \/ EnableReset) => BootInv'
<1> SUFFICES ASSUME BootInv, WaitBusy \/ ReadSR2 \/ EnableReset PROVE BootInv'
  OBVIOUS
<1>1. /\ UNCHANGED <<w25qxx_mode, ready, app_entry, caches, systick, chip, restarts>>
      /\ hal' \in {"reset", "ready", "error", "mapped"} /\ halFaults' \in 0 .. MaxHalFaults
      /\ dat' \in BOOLEAN
      /\ halFaults' = 0 => halFaults = 0 /\ hal' = hal
      /\ bootPc \in SpiSteps /\ bootPc' \in SpiSteps
  <2>1. CASE WaitBusy
    BY <2>1, AnswerFacts DEF WaitBusy, BootInv, SpiSteps
  <2>2. CASE ReadSR2
    <3>1. chip.qe \in BOOLEAN
      BY DEF BootInv, BootTypeOK
    <3> QED BY <2>2, <3>1, AnswerFacts DEF ReadSR2, BootInv, SpiSteps
  <2>3. CASE EnableReset
    BY <2>3, BootAssumption DEF EnableReset, BootInv, BootTypeOK, SpiSteps, Works, TimesOut,
       Refused, Fault, halVars, mcu
  <2> QED BY <2>1, <2>2, <2>3
<1> QED BY <1>1 DEF BootInv, BootTypeOK, JumpInv, FaultlessInv, SpiSteps, MappedSteps

LEMMA MainInv ==
  ASSUME BootInv,
         MemoryMappedEnable \/ SetReady \/ TestReady \/ ReadEntry \/ Jump \/ RefuseEntry
  PROVE  BootInv'
<1> USE DEF BootInv, BootTypeOK, JumpInv, FaultlessInv, SpiSteps, MappedSteps
<1>1. CASE MemoryMappedEnable
  <2>1. /\ bootPc = "map" /\ bootPc' = "set_ready" /\ UNCHANGED <<mcu, chip, restarts>>
        /\ hal' \in {"reset", "ready", "error", "mapped"} /\ halFaults' \in 0 .. MaxHalFaults
        /\ halFaults' = 0 => halFaults = 0 /\ (hal = "ready" => hal' = "mapped")
    BY <1>1, BootAssumption DEF MemoryMappedEnable, Goes, Refused, TimesOut, Fault, halVars
  <2> QED BY <2>1 DEF mcu
<1>2. CASE SetReady
  BY <1>2 DEF SetReady, Goes
<1>3. CASE TestReady
  BY <1>3 DEF TestReady
<1>4. CASE ReadEntry
  BY <1>4 DEF ReadEntry, Hears, Entries
<1>5. CASE Jump
  BY <1>5 DEF Jump, Goes
<1>6. CASE RefuseEntry
  BY <1>6 DEF RefuseEntry, Goes, mcu, halVars
<1> QED BY <1>1, <1>2, <1>3, <1>4, <1>5, <1>6

LEMMA RestartInv == BootInv /\ Restart => BootInv'
<1> SUFFICES ASSUME BootInv, Restart PROVE BootInv'
  OBVIOUS
<1>1. /\ w25qxx_mode' \in Modes /\ app_entry' \in Entries
      /\ halFaults' \in 0 .. MaxHalFaults /\ restarts' \in 0 .. MaxRestarts
  BY BootAssumption DEF BootInv, BootTypeOK, Restart, Modes, Entries
<1>2. ready' \in BOOLEAN /\ dat' \in BOOLEAN /\ caches' \in BOOLEAN /\ systick' \in BOOLEAN
  BY DEF Restart
<1>3. bootPc' = "init" /\ hal' = "reset" /\ chip' = chip
  BY DEF Restart
<1>4. BootTypeOK'
  BY <1>1, <1>2, <1>3 DEF BootInv, BootTypeOK
<1> QED BY <1>3, <1>4 DEF BootInv, JumpInv, FaultlessInv, SpiSteps, MappedSteps

LEMMA BootNextInv == BootInv /\ [BootNext]_bootVars => BootInv'
<1> SUFFICES ASSUME BootInv, [BootNext]_bootVars PROVE BootInv'
  OBVIOUS
<1>1. CASE UNCHANGED bootVars
  BY <1>1 DEF BootInv, BootTypeOK, JumpInv, FaultlessInv, bootVars, mcu, halVars
<1>2. CASE BootNext
  BY <1>2, PowerUpInv, CommandInv, StatusInv, MainInv, RestartInv DEF BootNext, Boot
<1> QED BY <1>1, <1>2

LEMMA BootInvariance == QeFromFactory => (BootSpec => []BootInv)
<1> SUFFICES ASSUME QeFromFactory PROVE BootSpec => []BootInv
  OBVIOUS
<1>1. BootInit => BootInv
  BY BootInitInv
<1> QED BY <1>1, BootNextInv, PTL DEF BootSpec

(* However often the MCU is reset in the middle of the mode sequence, a    *)
(* boot in which no HAL call failed ends with driver and chip in one mode. *)
THEOREM BootModesAgree == QeFromFactory => (BootSpec => []ModesAgree)
<1> SUFFICES ASSUME QeFromFactory PROVE BootSpec => []ModesAgree
  OBVIOUS
<1>1. BootInv => ModesAgree
  BY DEF BootInv, FaultlessInv, ModesAgree, Initialised, MappedSteps
<1> QED BY <1>1, BootInvariance, PTL

(* main() jumps only with the flash mapped, tick and caches off, whatever  *)
(* HAL calls failed, and to the image's entry when none did.               *)
THEOREM BootJumpsToImage == QeFromFactory => (BootSpec => []JumpsToImage)
<1> SUFFICES ASSUME QeFromFactory PROVE BootSpec => []JumpsToImage
  OBVIOUS
<1>1. BootInv => JumpsToImage
  BY DEF BootInv, JumpInv, FaultlessInv, JumpsToImage
<1> QED BY <1>1, BootInvariance, PTL
----------------------------------------------------------------------------
(***************************************************************************)
(* The split of a write into sectors and pages, for any chip whose sectors *)
(* are a whole number of pages, any range and any bus failures.            *)
(***************************************************************************)
LEMMA Sizes ==
  /\ PageSize \in Nat /\ PageSize > 0 /\ SectorSize \in Nat /\ SectorSize > 0
  /\ Sectors \in Nat /\ Sectors > 0 /\ Sectors * SectorSize \in Nat
BY WriteAssumption

LEMMA DivMod ==
  ASSUME NEW a \in Nat, NEW b \in Nat, b > 0
  PROVE  /\ a \div b \in Nat /\ a % b \in Nat /\ a % b < b
         /\ a = (b * (a \div b)) + (a % b)
OBVIOUS

LEMMA Times ==
  ASSUME NEW a \in Nat, NEW b \in Nat, NEW c \in Nat, a < b
  PROVE  (c * a) + c <= c * b
OBVIOUS

LEMMA Commutes ==
  ASSUME NEW a \in Nat, NEW b \in Nat
  PROVE  a * b = b * a /\ a * b \in Nat
OBVIOUS

(* A quotient and a remainder are known by their sum.                      *)
LEMMA UniqueDivMod ==
  ASSUME NEW b \in Nat, b > 0, NEW q \in Nat, NEW r \in Nat, r < b, NEW a \in Nat,
         a = (b * q) + r
  PROVE  a \div b = q /\ a % b = r
<1>1. a \div b \in Nat /\ a % b \in Nat /\ a % b < b /\ a = (b * (a \div b)) + (a % b)
  BY DivMod
<1>2. CASE a \div b < q
  BY <1>1, <1>2, Times
<1>3. CASE q < a \div b
  BY <1>1, <1>3, Times
<1> QED BY <1>1, <1>2, <1>3

(* Where sector s begins.                                                  *)
Base(s) == s * SectorSize

LEMMA SectorFacts ==
  ASSUME NEW a \in Nat
  PROVE  /\ SectorOf(a) \in Nat /\ Base(SectorOf(a)) \in Nat /\ a % SectorSize \in Nat
         /\ a % SectorSize < SectorSize
         /\ a = Base(SectorOf(a)) + (a % SectorSize)
BY Sizes, DivMod, Commutes DEF SectorOf, Base

LEMMA InSector ==
  ASSUME NEW a \in Nat, NEW s \in Nat, Base(s) <= a, a < Base(s) + SectorSize
  PROVE  SectorOf(a) = s /\ a % SectorSize = a - Base(s)
<1>1. Base(s) = SectorSize * s /\ Base(s) \in Nat
  BY Sizes, Commutes DEF Base
<1>2. a - Base(s) \in Nat /\ a - Base(s) < SectorSize /\ a = (SectorSize * s) + (a - Base(s))
  BY <1>1, Sizes
<1> QED BY <1>2, Sizes, UniqueDivMod DEF SectorOf

(* The sectors of the chip, and the room that each has on it.              *)
LEMMA SectorOnChip ==
  ASSUME NEW a \in Address
  PROVE  /\ SectorOf(a) \in 0 .. Sectors - 1
         /\ Base(SectorOf(a)) + SectorSize <= Sectors * SectorSize
<1>1. a \in Nat /\ a < Sectors * SectorSize
  BY Sizes DEF Address
<1>2. PICK s \in Nat : s = SectorOf(a)
  BY <1>1, SectorFacts
<1>3. Base(s) \in Nat /\ Base(s) <= a /\ Base(s) = SectorSize * s
  <2>1. Base(s) \in Nat /\ Base(s) <= a
    BY <1>1, <1>2, SectorFacts, Sizes
  <2>2. Base(s) = SectorSize * s
    BY <1>2, Sizes, Commutes DEF Base
  <2> QED BY <2>1, <2>2
<1>4. Sectors * SectorSize = SectorSize * Sectors
  BY Sizes, Commutes
<1>5. s < Sectors
  <2>1. CASE Sectors = s
    BY <1>1, <1>3, <1>4, <2>1, Sizes
  <2>2. CASE Sectors < s
    BY <1>1, <1>3, <1>4, <2>2, Sizes, Times
  <2> QED BY <1>2, <2>1, <2>2, Sizes
<1>6. Base(s) + SectorSize <= Sectors * SectorSize
  BY <1>3, <1>4, <1>5, Sizes, Times
<1> QED BY <1>2, <1>5, <1>6, Sizes

(* Bytes that stay in their page lie one after the other.                  *)
LEMMA PageFacts ==
  ASSUME NEW a \in Nat, NEW i \in Nat, (a % PageSize) + i < PageSize
  PROVE  InPage(a, i) = a + i /\ (a + i) \div PageSize = a \div PageSize
<1>1. /\ a \div PageSize \in Nat /\ a % PageSize \in Nat
      /\ a = (PageSize * (a \div PageSize)) + (a % PageSize)
  BY Sizes, DivMod
<1>2. a + i = (PageSize * (a \div PageSize)) + ((a % PageSize) + i)
  BY <1>1, Sizes, Commutes
<1>3. (a + i) \div PageSize = a \div PageSize /\ (a + i) % PageSize = (a % PageSize) + i
  BY <1>1, <1>2, Sizes, UniqueDivMod
<1>4. (a \div PageSize) * PageSize = PageSize * (a \div PageSize)
  BY <1>1, Sizes, Commutes
<1> QED BY <1>1, <1>2, <1>3, <1>4, Sizes DEF InPage

LEMMA NextPage ==
  ASSUME NEW a \in Nat, NEW n \in Nat, (a % PageSize) + n = PageSize
  PROVE  (a + n) % PageSize = 0
<1>1. /\ a \div PageSize \in Nat /\ a % PageSize \in Nat
      /\ a = (PageSize * (a \div PageSize)) + (a % PageSize)
  BY Sizes, DivMod
<1>2. PICK q \in Nat : q = a \div PageSize
  BY <1>1
<1>3. PageSize * (q + 1) = (PageSize * q) + PageSize
  BY <1>2, Sizes
<1>4. a + n = (PageSize * (q + 1)) + 0
  BY <1>1, <1>2, <1>3, Sizes, Commutes
<1> QED BY <1>2, <1>4, Sizes, UniqueDivMod

(* A page program that stays in its page.                                  *)
LEMMA ProgramFacts ==
  ASSUME NEW m, NEW a \in Nat, NEW n \in Nat, NEW d, (a % PageSize) + n <= PageSize
  PROVE  ProgramPage(m, a, n, d) =
           [x \in Address |->
              IF x \in a .. a + n - 1 THEN Programmed(m[x], d[x - a]) ELSE m[x]]
<1>1. a % PageSize \in Nat
  BY Sizes, DivMod
<1>2. \A i \in 0 .. n - 1 : InPage(a, i) = a + i
  BY <1>1, PageFacts, Sizes
<1>3. ASSUME NEW x \in Address
      PROVE  /\ (\E i \in 0 .. n - 1 : InPage(a, i) = x) <=> x \in a .. a + n - 1
             /\ x \in a .. a + n - 1 =>
                  (CHOOSE i \in 0 .. n - 1 : InPage(a, i) = x) = x - a
  <2>1. x \in Nat
    BY Sizes DEF Address
  <2>2. x \in a .. a + n - 1 => x - a \in 0 .. n - 1 /\ InPage(a, x - a) = x
    BY <1>2, <2>1
  <2>3. \A i \in 0 .. n - 1 : InPage(a, i) = x => i = x - a /\ x \in a .. a + n - 1
    BY <1>2, <2>1
  <2> QED BY <2>2, <2>3
<1> QED BY <1>3 DEF ProgramPage
----------------------------------------------------------------------------
(* What is left of the call, and of the program loop, never leaves the     *)
(* sector and fills it or ends the range; a page is filled or is the last. *)
Offset == addr % SectorSize

CallShape ==
  stage # "idle" =>
    /\ secRem > 0 /\ secRem <= size /\ addr + size = first + count
    /\ first + count <= Sectors * SectorSize
    /\ Offset + secRem <= SectorSize
    /\ secRem < size => Offset + secRem = SectorSize

PageShape ==
  stage = "program" =>
    /\ pageRem > 0 /\ pageRem <= todo
    /\ (from % PageSize) + pageRem <= PageSize
    /\ pageRem < todo => (from % PageSize) + pageRem = PageSize
    /\ Base(SectorOf(addr)) <= from /\ from + todo <= Base(SectorOf(addr)) + SectorSize

WriteInv == WriteTypeOK /\ CallShape /\ PageShape

LEMMA Addresses ==
  /\ \A a \in Address : a \in Nat /\ a < Sectors * SectorSize
  /\ \A a \in Nat : a < Sectors * SectorSize => a \in Address
  /\ 0 \in Address
<1>1. Sectors * SectorSize > 0
  BY Sizes, Times
<1> QED BY <1>1, Sizes DEF Address

LEMMA ByteFacts ==
  /\ Blank \in FlashBytes /\ Old \in FlashBytes /\ Junk \in FlashBytes
  /\ \A a \in Address : New(a) \in FlashBytes
BY DEF FlashBytes

(* The addresses of the current sector.                                    *)
LEMMA HereFacts ==
  ASSUME addr \in Address
  PROVE  /\ Base(SectorOf(addr)) \in Nat /\ Offset \in Nat /\ Offset < SectorSize
         /\ addr = Base(SectorOf(addr)) + Offset
         /\ \A i \in 0 .. SectorSize - 1 : Base(SectorOf(addr)) + i \in Address
<1>1. addr \in Nat
  BY Addresses
<1>2. /\ Base(SectorOf(addr)) \in Nat /\ Offset \in Nat /\ Offset < SectorSize
      /\ addr = Base(SectorOf(addr)) + Offset
  BY <1>1, SectorFacts DEF Offset
<1>3. Base(SectorOf(addr)) + SectorSize <= Sectors * SectorSize
  BY SectorOnChip
<1>4. \A i \in 0 .. SectorSize - 1 : Base(SectorOf(addr)) + i \in Address
  BY <1>2, <1>3, Sizes, Addresses
<1> QED BY <1>2, <1>4

LEMMA WriteInitInv == WriteInit => WriteInv
<1> SUFFICES ASSUME WriteInit PROVE WriteInv
  OBVIOUS
<1>1. flash \in [Address -> FlashBytes] /\ before \in [Address -> FlashBytes]
  BY ByteFacts DEF WriteInit
<1>2. buf \in [0 .. SectorSize - 1 -> FlashBytes]
  BY ByteFacts DEF WriteInit
<1>3. hit \subseteq 0 .. Sectors - 1 /\ halError \in BOOLEAN
  BY DEF WriteInit
<1>4. WriteTypeOK
  BY <1>1, <1>2, <1>3, Sizes, Addresses DEF WriteInit, WriteTypeOK
<1> QED BY <1>4 DEF WriteInit, WriteInv, CallShape, PageShape

(* A bus fault leaves the marks in their types.                            *)
LEMMA FaultTypes ==
  ASSUME WriteInv, BusWorks \/ BusRefuses \/ BusTimesOut \/ BusLoses
  PROVE  hit' \subseteq 0 .. Sectors - 1 /\ halError' \in BOOLEAN
<1>1. addr \in Address /\ hit \subseteq 0 .. Sectors - 1 /\ halError \in BOOLEAN
  BY DEF WriteInv, WriteTypeOK
<1>2. SectorOf(addr) \in 0 .. Sectors - 1
  BY <1>1, SectorOnChip
<1>3. hit' \subseteq 0 .. Sectors - 1
  BY <1>1, <1>2 DEF BusWorks, BusRefuses, BusTimesOut, BusLoses, BusFault, faults
<1>4. halError' \in BOOLEAN
  BY <1>1 DEF BusWorks, BusRefuses, BusTimesOut, BusLoses, faults
<1> QED BY <1>3, <1>4

LEMMA WriteCallInv ==
  ASSUME WriteInv, NEW a \in Address, NEW n \in 1 .. Sectors * SectorSize - a, WriteCall(a, n)
  PROVE  WriteInv'
<1>1. /\ flash' = flash /\ before' = flash /\ first' = a /\ count' = n /\ addr' = a /\ size' = n
      /\ secRem' = Least(n, SectorSize - (a % SectorSize)) /\ stage' = "read"
      /\ UNCHANGED <<buf, pages, faults>>
  BY DEF WriteCall
<1>2. /\ a \in Nat /\ n \in Nat /\ n > 0 /\ a + n <= Sectors * SectorSize
      /\ a % SectorSize \in Nat /\ a % SectorSize < SectorSize
  <2>1. a \in Nat /\ a < Sectors * SectorSize
    BY Addresses
  <2> QED BY <2>1, Sizes, SectorFacts
<1>3. /\ secRem' \in Nat /\ secRem' > 0 /\ secRem' <= n /\ (a % SectorSize) + secRem' <= SectorSize
      /\ secRem' < n => (a % SectorSize) + secRem' = SectorSize
  BY <1>1, <1>2, Sizes DEF Least
<1>4. WriteTypeOK'
  BY <1>1, <1>2, <1>3, Sizes DEF WriteInv, WriteTypeOK, pages, faults
<1>5. CallShape'
  BY <1>1, <1>2, <1>3 DEF CallShape, Offset
<1>6. PageShape'
  BY <1>1 DEF PageShape
<1> QED BY <1>4, <1>5, <1>6 DEF WriteInv

LEMMA ReadSectorInv ==
  ASSUME WriteInv, ReadSector
  PROVE  WriteInv'
<1>1. /\ stage = "read" /\ stage' = "test" /\ UNCHANGED <<flash, call, locals, pages>>
      /\ BusWorks \/ BusRefuses \/ BusTimesOut \/ BusLoses
      /\ buf' \in {Read(n) : n \in 0 .. SectorSize} \union {IdleBus, Read(SectorSize), buf}
  BY DEF ReadSector
<1>2. flash \in [Address -> FlashBytes] /\ buf \in [0 .. SectorSize - 1 -> FlashBytes]
  BY DEF WriteInv, WriteTypeOK
<1>3. addr \in Address
  BY DEF WriteInv, WriteTypeOK
<1>4. \A i \in 0 .. SectorSize - 1 : flash[SectorOf(addr) * SectorSize + i] \in FlashBytes
  BY <1>2, <1>3, HereFacts DEF Base
<1>5. \A n : Read(n) \in [0 .. SectorSize - 1 -> FlashBytes]
  BY <1>2, <1>4 DEF Read
<1>6. buf' \in [0 .. SectorSize - 1 -> FlashBytes]
  BY <1>1, <1>2, <1>5, ByteFacts DEF IdleBus
<1>7. WriteTypeOK'
  BY <1>1, <1>6, FaultTypes DEF WriteInv, WriteTypeOK, call, locals, pages
<1>8. CallShape' /\ PageShape'
  BY <1>1 DEF WriteInv, CallShape, PageShape, Offset, call, locals
<1> QED BY <1>7, <1>8 DEF WriteInv

(* The loop over pages begins in a range of the current sector.            *)
LEMMA NoCheckInv ==
  ASSUME WriteInv, NEW src \in {"buf", "pbuf"}, NEW a \in Address, NEW n \in Nat, NoCheck(src, a, n),
         n > 0, Base(SectorOf(addr)) <= a, a + n <= Base(SectorOf(addr)) + SectorSize,
         UNCHANGED <<call, locals>>, stage # "idle",
         flash' \in [Address -> FlashBytes], buf' \in [0 .. SectorSize - 1 -> FlashBytes],
         hit' \subseteq 0 .. Sectors - 1, halError' \in BOOLEAN
  PROVE  WriteInv'
<1>1. /\ source' = src /\ from' = a /\ todo' = n /\ stage' = "program"
      /\ pageRem' = Least(n, PageSize - (a % PageSize))
  BY DEF NoCheck
<1>2. a \in Nat /\ a % PageSize \in Nat /\ a % PageSize < PageSize
  BY Addresses, Sizes, DivMod
<1>3. /\ pageRem' \in Nat /\ pageRem' > 0 /\ pageRem' <= n /\ (a % PageSize) + pageRem' <= PageSize
      /\ pageRem' < n => (a % PageSize) + pageRem' = PageSize
  BY <1>1, <1>2, Sizes DEF Least
<1>4. n <= SectorSize
  <2>1. Base(SectorOf(addr)) \in Nat
    BY HereFacts DEF WriteInv, WriteTypeOK
  <2> QED BY <1>2, <2>1, Sizes
<1>5. WriteTypeOK'
  BY <1>1, <1>2, <1>3, <1>4, Sizes DEF WriteInv, WriteTypeOK, call, locals
<1>6. CallShape'
  BY <1>1 DEF WriteInv, CallShape, Offset, call, locals
<1>7. PageShape'
  BY <1>1, <1>3 DEF PageShape, locals
<1> QED BY <1>5, <1>6, <1>7 DEF WriteInv

LEMMA BeginInv ==
  ASSUME WriteInv, WriteBlank \/ EraseAndMerge
  PROVE  WriteInv'
<1>1. /\ addr \in Address /\ addr \in Nat /\ secRem \in Nat /\ flash \in [Address -> FlashBytes]
      /\ buf \in [0 .. SectorSize - 1 -> FlashBytes]
  BY Addresses DEF WriteInv, WriteTypeOK
<1>2. /\ Base(SectorOf(addr)) \in Nat /\ Offset \in Nat /\ addr = Base(SectorOf(addr)) + Offset
      /\ \A i \in 0 .. SectorSize - 1 : Base(SectorOf(addr)) + i \in Address
  BY <1>1, HereFacts
<1>3. CASE WriteBlank
  <2>1. /\ stage = "test" /\ NoCheck("pbuf", addr, secRem)
        /\ UNCHANGED <<flash, call, locals, buf, faults>>
    BY <1>3 DEF WriteBlank
  <2>2. secRem > 0 /\ Offset + secRem <= SectorSize
    BY <2>1 DEF WriteInv, CallShape
  <2>3. Base(SectorOf(addr)) <= addr /\ addr + secRem <= Base(SectorOf(addr)) + SectorSize
    BY <1>1, <1>2, <2>2, Sizes
  <2>4. hit' \subseteq 0 .. Sectors - 1 /\ halError' \in BOOLEAN
    BY <2>1 DEF faults, WriteInv, WriteTypeOK
  <2> QED BY <1>1, <2>1, <2>2, <2>3, <2>4, NoCheckInv
<1>4. CASE EraseAndMerge
  <2>1. PICK a \in Address : a = Base(SectorOf(addr))
    <3>1. 0 \in 0 .. SectorSize - 1 /\ Base(SectorOf(addr)) + 0 = Base(SectorOf(addr))
      BY <1>2, Sizes
    <3> QED BY <1>2, <3>1
  <2>2. /\ stage = "test" /\ NoCheck("buf", a, SectorSize) /\ UNCHANGED <<call, locals>>
        /\ buf' = Merged
        /\ BusWorks \/ BusRefuses \/ BusTimesOut \/ BusLoses
        /\ flash' \in {flash, EraseSector(flash, ErasedAt(SectorOf(addr)))}
    BY <1>4, <2>1 DEF EraseAndMerge, Base
  <2>3. flash' \in [Address -> FlashBytes]
    BY <1>1, <2>2, ByteFacts DEF EraseSector
  <2>4. buf' \in [0 .. SectorSize - 1 -> FlashBytes]
    <3>1. \A i \in 0 .. SectorSize - 1 : New(SectorOf(addr) * SectorSize + i) \in FlashBytes
      BY <1>2, ByteFacts DEF Base
    <3> QED BY <1>1, <2>2, <3>1 DEF Merged
  <2>5. a + SectorSize <= Base(SectorOf(addr)) + SectorSize
    BY <1>2, <2>1, Sizes
  <2>6. hit' \subseteq 0 .. Sectors - 1 /\ halError' \in BOOLEAN
    BY <2>2, FaultTypes
  <2>7. Base(SectorOf(addr)) <= a
    BY <1>2, <2>1
  <2> QED BY <2>1, <2>2, <2>3, <2>4, <2>5, <2>6, <2>7, Sizes, NoCheckInv
<1> QED BY <1>3, <1>4

(* What one PageProgram does to the chip: some first bytes of the page's   *)
(* part are programmed, all of them when the bus works, none when the HAL  *)
(* refuses.                                                                *)
PartProgrammed(n) ==
  [x \in Address |->
     IF x \in from .. from + n - 1 THEN Programmed(flash[x], Data(x)) ELSE flash[x]]

LEMMA PageProgramFacts ==
  ASSUME WriteInv, PageProgram
  PROVE  /\ \/ BusWorks /\ flash' = PartProgrammed(pageRem)
            \/ BusLoses /\ \E n \in 0 .. pageRem : flash' = PartProgrammed(n)
            \/ BusTimesOut /\ flash' \in {flash, PartProgrammed(pageRem)}
            \/ BusRefuses /\ flash' = flash
         /\ \E n \in 0 .. pageRem : flash' = PartProgrammed(n)
         /\ from + pageRem - 1 \in Address
<1>1. stage = "program" /\ from \in Nat /\ pageRem \in Nat /\ flash \in [Address -> FlashBytes]
  BY Sizes, Addresses DEF PageProgram, WriteInv, WriteTypeOK
<1>2. /\ pageRem > 0 /\ pageRem <= todo /\ (from % PageSize) + pageRem <= PageSize
      /\ from + todo <= Base(SectorOf(addr)) + SectorSize /\ todo \in Nat /\ addr \in Address
  BY <1>1, Sizes DEF WriteInv, WriteTypeOK, PageShape
<1>3. from + pageRem - 1 \in Address
  <2>1. Base(SectorOf(addr)) + SectorSize <= Sectors * SectorSize /\ Base(SectorOf(addr)) \in Nat
    BY <1>2, SectorOnChip, HereFacts
  <2> QED BY <1>1, <1>2, <2>1, Sizes, Addresses
<1> DEFINE data == [i \in 0 .. pageRem - 1 |-> Data(from + i)]
<1>4. ASSUME NEW n \in 0 .. pageRem
      PROVE  ProgramPage(flash, from, n, data) = PartProgrammed(n)
  <2>1. n \in Nat /\ n <= pageRem /\ (from % PageSize) + n <= PageSize
    <3>1. from % PageSize \in Nat
      BY <1>1, Sizes, DivMod
    <3> QED BY <1>1, <1>2, <3>1, Sizes
  <2> HIDE DEF data
  <2>2. ProgramPage(flash, from, n, data) =
          [x \in Address |->
             IF x \in from .. from + n - 1 THEN Programmed(flash[x], data[x - from]) ELSE flash[x]]
    BY <1>1, <2>1, ProgramFacts
  <2>3. ASSUME NEW x \in Address, x \in from .. from + n - 1
        PROVE  data[x - from] = Data(x)
    <3>1. x - from \in 0 .. pageRem - 1 /\ from + (x - from) = x
      BY <1>1, <2>1, <2>3
    <3> QED BY <3>1 DEF data
  <2> QED BY <2>2, <2>3 DEF PartProgrammed
<1>5. PartProgrammed(0) = flash
  <2>1. \A x : x \notin from .. from + 0 - 1
    BY <1>1
  <2> QED BY <1>1, <2>1 DEF PartProgrammed
<1>6. 0 \in 0 .. pageRem /\ pageRem \in 0 .. pageRem
  BY <1>1
<1>7. \/ BusWorks /\ flash' = ProgramPage(flash, from, pageRem, data)
      \/ BusLoses /\ \E n \in 0 .. pageRem : flash' = ProgramPage(flash, from, n, data)
      \/ BusTimesOut /\ flash' \in {flash, ProgramPage(flash, from, pageRem, data)}
      \/ BusRefuses /\ flash' = flash
  BY DEF PageProgram
<1> HIDE DEF data
<1>8. \/ BusWorks /\ flash' = PartProgrammed(pageRem)
      \/ BusLoses /\ \E n \in 0 .. pageRem : flash' = PartProgrammed(n)
      \/ BusTimesOut /\ flash' \in {flash, PartProgrammed(pageRem)}
      \/ BusRefuses /\ flash' = flash
  BY <1>4, <1>6, <1>7
<1> QED BY <1>3, <1>5, <1>6, <1>8

LEMMA PageProgramInv ==
  ASSUME WriteInv, PageProgram
  PROVE  WriteInv'
<1>1. /\ stage = "program" /\ from \in Nat /\ pageRem \in Nat /\ todo \in Nat
      /\ flash \in [Address -> FlashBytes] /\ addr \in Address
      /\ buf \in [0 .. SectorSize - 1 -> FlashBytes]
      /\ UNCHANGED <<call, locals, buf, source>>
  BY Sizes, Addresses DEF PageProgram, WriteInv, WriteTypeOK
<1>2. /\ pageRem > 0 /\ pageRem <= todo /\ (from % PageSize) + pageRem <= PageSize
      /\ pageRem < todo => (from % PageSize) + pageRem = PageSize
      /\ Base(SectorOf(addr)) <= from /\ from + todo <= Base(SectorOf(addr)) + SectorSize
  BY <1>1 DEF WriteInv, PageShape
<1>3. Base(SectorOf(addr)) \in Nat /\ Base(SectorOf(addr)) + SectorSize <= Sectors * SectorSize
  BY <1>1, HereFacts, SectorOnChip
<1>4. flash' \in [Address -> FlashBytes]
  <2>1. ASSUME NEW x \in Address PROVE Data(x) \in FlashBytes
    <3>1. x % SectorSize \in 0 .. SectorSize - 1
      BY Addresses, Sizes, DivMod
    <3> QED BY <1>1, <3>1, ByteFacts DEF Data
  <2>2. \A x \in Address : Programmed(flash[x], Data(x)) \in FlashBytes
    BY <1>1, <2>1, ByteFacts DEF Programmed
  <2>3. PICK n \in 0 .. pageRem : flash' = PartProgrammed(n)
    BY PageProgramFacts
  <2> QED BY <1>1, <2>2, <2>3 DEF PartProgrammed
<1>5. hit' \subseteq 0 .. Sectors - 1 /\ halError' \in BOOLEAN
  BY PageProgramFacts, FaultTypes
<1>6. CASE todo = pageRem
  <2>1. stage' = "next" /\ UNCHANGED <<from, todo, pageRem>>
    BY <1>6 DEF PageProgram
  <2>2. WriteTypeOK'
    BY <1>1, <1>4, <1>5, <2>1 DEF WriteInv, WriteTypeOK, call, locals
  <2>3. CallShape' /\ PageShape'
    BY <1>1, <2>1 DEF WriteInv, CallShape, PageShape, Offset, call, locals
  <2> QED BY <2>2, <2>3 DEF WriteInv
<1>7. CASE todo # pageRem
  <2>1. /\ from' = from + pageRem /\ todo' = todo - pageRem /\ pageRem' = Least(todo', PageSize)
        /\ stage' = "program"
    BY <1>1, <1>7 DEF PageProgram
  <2>2. todo' \in Nat /\ todo' > 0 /\ from' + todo' = from + todo
    BY <1>1, <1>2, <1>7, <2>1
  <2>3. from' % PageSize = 0
    BY <1>1, <1>2, <1>7, <2>1, NextPage
  <2>4. /\ pageRem' \in Nat /\ pageRem' > 0 /\ pageRem' <= todo'
        /\ (from' % PageSize) + pageRem' <= PageSize
        /\ pageRem' < todo' => (from' % PageSize) + pageRem' = PageSize
    BY <2>1, <2>2, <2>3, Sizes DEF Least
  <2>5. from' \in Address /\ todo' <= SectorSize /\ Base(SectorOf(addr)) <= from'
    BY <1>1, <1>2, <1>3, <2>1, <2>2, Sizes, Addresses
  <2>6. pageRem' \in 0 .. PageSize /\ todo' \in 0 .. SectorSize
    BY <2>2, <2>3, <2>4, <2>5, Sizes
  <2>7. WriteTypeOK'
    BY <1>1, <1>4, <1>5, <2>1, <2>5, <2>6 DEF WriteInv, WriteTypeOK, call, locals
  <2>8. CallShape'
    BY <1>1, <2>1 DEF WriteInv, CallShape, Offset, call, locals
  <2>9. PageShape'
    BY <1>1, <1>2, <2>2, <2>4, <2>5 DEF PageShape, locals
  <2> QED BY <2>7, <2>8, <2>9 DEF WriteInv
<1> QED BY <1>6, <1>7

(* The next sector begins where this one ends.                             *)
LEMMA NextSectorFacts ==
  ASSUME WriteInv, NextSector
  PROVE  /\ secRem < size /\ Offset + secRem = SectorSize
         /\ addr' = Base(SectorOf(addr)) + SectorSize /\ addr' \in Address
         /\ SectorOf(addr') = SectorOf(addr) + 1 /\ addr' % SectorSize = 0
<1>1. /\ stage = "next" /\ size # secRem /\ addr' = addr + secRem
      /\ addr \in Address /\ addr \in Nat /\ secRem \in Nat /\ size \in Nat
  BY Sizes, Addresses DEF NextSector, WriteInv, WriteTypeOK
<1>2. /\ secRem > 0 /\ secRem <= size /\ addr + size <= Sectors * SectorSize
      /\ secRem < size => Offset + secRem = SectorSize
  BY <1>1 DEF WriteInv, CallShape
<1>3. /\ Base(SectorOf(addr)) \in Nat /\ Offset \in Nat /\ addr = Base(SectorOf(addr)) + Offset
      /\ SectorOf(addr) \in Nat
  BY <1>1, HereFacts, SectorFacts
<1>4. secRem < size /\ Offset + secRem = SectorSize
  BY <1>1, <1>2
<1>5. addr' = Base(SectorOf(addr)) + SectorSize /\ addr' \in Nat /\ addr' \in Address
  BY <1>1, <1>2, <1>3, <1>4, Sizes, Addresses
<1>6. Base(SectorOf(addr) + 1) = Base(SectorOf(addr)) + SectorSize
  BY <1>3, Sizes DEF Base
<1>7. SectorOf(addr') = SectorOf(addr) + 1 /\ addr' % SectorSize = addr' - Base(SectorOf(addr) + 1)
  BY <1>3, <1>5, <1>6, Sizes, InSector
<1> QED BY <1>3, <1>4, <1>5, <1>6, <1>7, Sizes

LEMMA NextSectorInv ==
  ASSUME WriteInv, NextSector
  PROVE  WriteInv'
<1>1. /\ stage = "next" /\ addr' = addr + secRem /\ size' = size - secRem
      /\ secRem' = Least(size', SectorSize) /\ stage' = "read"
      /\ UNCHANGED <<flash, call, buf, pages, faults>>
      /\ addr \in Nat /\ secRem \in Nat /\ size \in Nat
  BY Sizes, Addresses DEF NextSector, WriteInv, WriteTypeOK
<1>2. addr + size = first + count /\ first + count <= Sectors * SectorSize
  BY <1>1 DEF WriteInv, CallShape
<1>3. secRem < size /\ addr' \in Address /\ addr' % SectorSize = 0
  BY NextSectorFacts
<1>4. size' \in Nat /\ size' > 0 /\ size' <= size /\ addr' + size' = addr + size
  BY <1>1, <1>3
<1>5. /\ secRem' \in Nat /\ secRem' > 0 /\ secRem' <= size' /\ secRem' <= SectorSize
      /\ secRem' < size' => secRem' = SectorSize
  BY <1>1, <1>4, Sizes DEF Least
<1>6. size' \in 0 .. Sectors * SectorSize /\ secRem' \in 0 .. SectorSize
  BY <1>1, <1>4, <1>5, Sizes DEF WriteInv, WriteTypeOK
<1>7. WriteTypeOK'
  BY <1>1, <1>3, <1>6 DEF WriteInv, WriteTypeOK, call, pages, faults
<1>8. CallShape'
  BY <1>1, <1>2, <1>3, <1>4, <1>5, Sizes DEF CallShape, Offset, call
<1>9. PageShape'
  BY <1>1 DEF PageShape
<1> QED BY <1>7, <1>8, <1>9 DEF WriteInv

LEMMA WriteNextInv == WriteInv /\ [WriteNext]_writeVars => WriteInv'
<1> SUFFICES ASSUME WriteInv, [WriteNext]_writeVars PROVE WriteInv'
  OBVIOUS
<1>1. CASE UNCHANGED writeVars
  BY <1>1 DEF writeVars, WriteInv, WriteTypeOK, CallShape, PageShape, Offset, call, locals, pages, faults
<1>2. CASE WriteReturn
  BY <1>2 DEF WriteReturn, WriteInv, WriteTypeOK, CallShape, PageShape, Offset, call, locals, pages,
              faults
<1> QED BY <1>1, <1>2, WriteCallInv, ReadSectorInv, BeginInv, PageProgramInv, NextSectorInv
        DEF WriteNext

LEMMA WriteInvariance == WriteSpec => []WriteInv
BY WriteInitInv, WriteNextInv, PTL DEF WriteSpec

(* No page program wraps around in its page or leaves the sector that was  *)
(* read and erased, for any page and sector size, range and bus failures   *)
(* (w25qxx.c:468 and 497).                                                 *)
THEOREM WriteRespectsPages == WriteSpec => []SplitRespectsPages
<1>1. WriteInv => SplitRespectsPages
  <2>1. ASSUME WriteInv, stage = "program"
        PROVE  /\ pageRem <= todo /\ from \div PageSize = (from + pageRem - 1) \div PageSize
               /\ SectorOf(from) = SectorOf(addr) /\ SectorOf(from + pageRem - 1) = SectorOf(addr)
    <3>1. /\ from \in Nat /\ pageRem \in Nat /\ todo \in Nat /\ addr \in Address /\ addr \in Nat
          /\ pageRem > 0 /\ pageRem <= todo /\ (from % PageSize) + pageRem <= PageSize
          /\ Base(SectorOf(addr)) <= from /\ from + todo <= Base(SectorOf(addr)) + SectorSize
      BY <2>1, Sizes, Addresses DEF WriteInv, WriteTypeOK, PageShape
    <3>2. from % PageSize \in Nat
      BY <3>1, Sizes, DivMod
    <3>3. PICK i \in Nat : i = pageRem - 1
      BY <3>1
    <3>4. (from + i) \div PageSize = from \div PageSize
      <4>1. (from % PageSize) + i < PageSize
        BY <3>1, <3>2, <3>3, Sizes
      <4> QED BY <3>1, <4>1, PageFacts
    <3>5. from + i = from + pageRem - 1
      BY <3>1, <3>3
    <3>6. SectorOf(addr) \in Nat /\ Base(SectorOf(addr)) \in Nat
      BY <3>1, SectorFacts
    <3>7. SectorOf(from) = SectorOf(addr) /\ SectorOf(from + i) = SectorOf(addr)
      BY <3>1, <3>3, <3>6, Sizes, InSector
    <3> QED BY <3>1, <3>4, <3>5, <3>7
  <2> QED BY <2>1 DEF SplitRespectsPages, WriteInv
<1> QED BY <1>1, WriteInvariance, PTL
----------------------------------------------------------------------------
(***************************************************************************)
(* Damage is local: what each sector holds while the call goes through     *)
(* them in turn.  The sectors to come are as they were; those behind are   *)
(* stored, or left alone by a HAL in its error state, or spoilt; and in    *)
(* the sector at hand, if no command failed in it, the bytes not yet       *)
(* programmed are blank and the program data are what is wanted there.     *)
(* The stale buffer (w25qxx.c:515) does no harm then: it is stale only if  *)
(* the HAL refuses, and the HAL refuses the erase and the programs as well.*)
(***************************************************************************)
Wanted(x) == IF x \in first .. first + count - 1 THEN New(x) ELSE before[x]

Here == SectorOf(addr)
Kept(s) == \A x \in Address : SectorOf(x) = s => flash[x] = before[x]
StoredIn(s) == \A x \in Address : SectorOf(x) = s => flash[x] = Wanted(x)

Halfway ==
  \A x \in Address : SectorOf(x) = Here =>
    IF x \in from .. from + todo - 1 THEN flash[x] = Blank /\ Data(x) = Wanted(x)
    ELSE flash[x] = Wanted(x)

Others ==
  /\ \A s \in Nat : s > Here => Kept(s)
  /\ \A s \in Nat : s < Here /\ s \notin Spoilt => StoredIn(s) \/ (halError /\ Kept(s))

ReadRight == \A i \in 0 .. SectorSize - 1 : buf[i] = flash[Base(Here) + i]

Current ==
  /\ stage \in {"read", "test"} => Kept(Here)
  /\ stage = "test" /\ Here \notin hit /\ ~ halError => ReadRight
  /\ stage \in {"program", "next", "done"} /\ Here \notin hit =>
       IF halError THEN Kept(Here) ELSE IF stage = "program" THEN Halfway ELSE StoredIn(Here)

DamageInv ==
  /\ hit = {} => ~ halError
  /\ stage # "idle" =>
       /\ first <= addr /\ (addr = first \/ Offset = 0)
       /\ \A x \in Address : x \in first .. first + count - 1 => before[x] = Blank \/ SectorOf(x) = 0
       /\ Others /\ Current
       /\ stage = "done" => size = secRem

(* Bytes are overwritten in sector 0 only, and the number of a sector,     *)
(* which W25QXX_SectorErase is given, is an address in sector 0: a W25Qxx  *)
(* has no more sectors than a sector has bytes.                            *)
SafeUse == OverwriteAnywhere = FALSE /\ Sectors <= SectorSize

(* The range lies in the current sector as the locals say.                 *)
LEMMA RangeHere ==
  ASSUME WriteInv, DamageInv, stage # "idle"
  PROVE  \A x \in Address : SectorOf(x) = Here =>
           (x \in first .. first + count - 1 <=> x \in addr .. addr + secRem - 1)
<1>1. /\ addr \in Address /\ addr \in Nat /\ secRem \in Nat /\ size \in Nat
      /\ first \in Nat /\ count \in Nat
  BY Sizes, Addresses DEF WriteInv, WriteTypeOK
<1>2. /\ secRem > 0 /\ secRem <= size /\ addr + size = first + count
      /\ secRem < size => Offset + secRem = SectorSize
      /\ Offset + secRem <= SectorSize
  BY DEF WriteInv, CallShape
<1>3. first <= addr /\ (addr = first \/ Offset = 0)
  BY DEF DamageInv
<1>4. Base(Here) \in Nat /\ Offset \in Nat /\ addr = Base(Here) + Offset
  BY <1>1, HereFacts DEF Here
<1>5. ASSUME NEW x \in Address, SectorOf(x) = Here
      PROVE  x \in first .. first + count - 1 <=> x \in addr .. addr + secRem - 1
  <2>1. x \in Nat
    BY Addresses
  <2>2. PICK r \in Nat : r < SectorSize /\ x = Base(Here) + r
    BY <1>5, <2>1, SectorFacts
  <2>3. x \in first .. first + count - 1 => x \in addr .. addr + secRem - 1
    <3>1. ASSUME first <= x, x <= first + count - 1 PROVE addr <= x /\ x <= addr + secRem - 1
      <4>1. addr <= x
        BY <1>3, <1>4, <2>1, <2>2, <3>1
      <4>2. CASE secRem = size
        BY <1>1, <1>2, <2>1, <3>1, <4>1, <4>2
      <4>3. CASE secRem < size
        BY <1>1, <1>2, <1>4, <2>2, <4>1, <4>3, Sizes
      <4> QED BY <1>1, <1>2, <4>1, <4>2, <4>3
    <3> QED BY <1>1, <2>1, <3>1
  <2>4. x \in addr .. addr + secRem - 1 => x \in first .. first + count - 1
    BY <1>1, <1>2, <1>3, <2>1
  <2> QED BY <2>3, <2>4
<1> QED BY <1>5

(* Once spoilt, always spoilt; a fault spoils the current sector.          *)
LEMMA FaultFacts ==
  ASSUME WriteInv, BusWorks \/ BusRefuses \/ BusTimesOut \/ BusLoses
  PROVE  /\ hit \subseteq hit' /\ (halError => halError') /\ Spoilt \subseteq Spoilt'
         /\ (hit = {} => ~ halError) => (hit' = {} => ~ halError')
         /\ Here \notin hit' => BusWorks \/ BusRefuses
         /\ BusTimesOut \/ BusLoses => Here \in hit'
         /\ BusWorks => ~ halError /\ ~ halError' /\ hit' = hit
         /\ BusRefuses => halError /\ halError' /\ hit' = hit
<1>1. halError \in BOOLEAN
  BY DEF WriteInv, WriteTypeOK
<1>2. hit \subseteq hit'
  BY DEF BusWorks, BusRefuses, BusTimesOut, BusLoses, BusFault, faults
<1>3. Spoilt \subseteq Spoilt'
  BY <1>2 DEF Spoilt
<1>4. BusTimesOut \/ BusLoses => Here \in hit'
  BY DEF BusTimesOut, BusLoses, BusFault, Here
<1>5. halError => halError'
  BY DEF BusWorks, BusRefuses, BusTimesOut, BusLoses, faults
<1>6. /\ BusWorks => ~ halError /\ ~ halError' /\ hit' = hit
      /\ BusRefuses => halError /\ halError' /\ hit' = hit
  BY DEF BusWorks, BusRefuses, faults
<1>7. (hit = {} => ~ halError) => (hit' = {} => ~ halError')
  BY <1>1, <1>4, <1>6
<1> QED BY <1>2, <1>3, <1>4, <1>5, <1>6, <1>7

(* The other sectors, through a step that touches none of them but, if     *)
(* something has failed, sector 0.                                         *)
LEMMA OthersStay ==
  ASSUME Others, UNCHANGED <<call, addr>>, Spoilt \subseteq Spoilt', halError => halError',
         \A x \in Address : SectorOf(x) # Here =>
           flash'[x] = flash[x] \/ (SectorOf(x) = 0 /\ 0 \in Spoilt'),
         Here \in Nat
  PROVE  Others'
<1>1. Here' = Here /\ \A x : Wanted(x)' = Wanted(x)
  BY DEF Here, Wanted, call
<1>2. ASSUME NEW s \in Nat, s > Here PROVE Kept(s)'
  <2>1. s # 0 /\ s # Here
    BY <1>2
  <2> QED BY <1>2, <2>1 DEF Others, Kept, call
<1>3. ASSUME NEW s \in Nat, s < Here, s \notin Spoilt'
      PROVE  StoredIn(s)' \/ (halError' /\ Kept(s)')
  <2>1. StoredIn(s) \/ (halError /\ Kept(s))
    BY <1>3 DEF Others
  <2>2. \A x \in Address : SectorOf(x) = s => flash'[x] = flash[x]
    BY <1>3
  <2> QED BY <1>1, <2>1, <2>2 DEF StoredIn, Kept, call
<1> QED BY <1>1, <1>2, <1>3 DEF Others

LEMMA HereNat ==
  ASSUME WriteInv
  PROVE  /\ addr \in Address /\ Here \in 0 .. Sectors - 1 /\ Here \in Nat
         /\ Base(Here) \in Nat /\ Offset \in Nat /\ addr = Base(Here) + Offset
<1>1. addr \in Address
  BY DEF WriteInv, WriteTypeOK
<1> QED BY <1>1, HereFacts, SectorOnChip DEF Here

LEMMA WriteCallDamage ==
  ASSUME SafeUse, WriteInv, DamageInv, NEW a \in Address,
         NEW n \in 1 .. Sectors * SectorSize - a, WriteCall(a, n)
  PROVE  DamageInv'
<1>1. /\ flash' = flash /\ before' = flash /\ first' = a /\ count' = n /\ addr' = a /\ size' = n
      /\ stage' = "read" /\ hit' = hit /\ halError' = halError /\ MayWrite(a, n)
  BY DEF WriteCall, faults
<1>2. a \in Nat
  BY Addresses
<1>3. Here' \in Nat
  <2>1. Here' = SectorOf(a)
    BY <1>1 DEF Here
  <2> QED BY <1>2, <2>1, SectorFacts
<1>4. ASSUME NEW s \in Nat, s < Here'
      PROVE  StoredIn(s)'
  <2>1. ASSUME NEW x \in Address, SectorOf(x) = s PROVE x \notin a .. a + n - 1
    <3>1. x \in Nat /\ SectorOf(a) = Here'
      BY <1>1, Addresses DEF Here
    <3>2. ASSUME a <= x PROVE SectorOf(a) <= SectorOf(x)
      <4>1. a \in Nat /\ x \in Nat /\ SectorOf(a) \in Nat /\ SectorOf(x) \in Nat
        BY <1>2, <3>1, SectorFacts
      <4>2. Base(SectorOf(a)) <= a /\ x < Base(SectorOf(x)) + SectorSize
            /\ Base(SectorOf(a)) \in Nat /\ Base(SectorOf(x)) \in Nat
        BY <4>1, SectorFacts, Sizes
      <4>3. PICK p \in Nat, q \in Nat : p = SectorOf(a) /\ q = SectorOf(x)
        BY <4>1
      <4>4. Base(p) = SectorSize * p /\ Base(q) = SectorSize * q
        BY Sizes, Commutes DEF Base
      <4>5. CASE q < p
        BY <3>2, <4>1, <4>2, <4>3, <4>4, <4>5, Sizes, Times
      <4> QED BY <4>3, <4>5
    <3> QED BY <1>2, <1>4, <2>1, <3>1, <3>2, <1>3
  <2> QED BY <1>1, <2>1 DEF StoredIn, Wanted
<1>5. \A s : Kept(s)'
  BY <1>1 DEF Kept
<1>6. \A x \in Address : x \in first' .. first' + count' - 1 => before'[x] = Blank \/ SectorOf(x) = 0
  BY <1>1 DEF MayWrite, SafeUse
<1>7. Others' /\ Current'
  BY <1>1, <1>4, <1>5 DEF Others, Current
<1>8. first' <= addr'
  BY <1>1, <1>2
<1> QED BY <1>1, <1>6, <1>7, <1>8 DEF DamageInv

LEMMA ReadSectorDamage ==
  ASSUME WriteInv, DamageInv, ReadSector
  PROVE  DamageInv'
<1>1. /\ stage = "read" /\ stage' = "test" /\ UNCHANGED <<flash, call, locals, pages>>
      /\ BusWorks \/ BusRefuses \/ BusTimesOut \/ BusLoses
      /\ (BusWorks /\ buf' = Read(SectorSize)) \/ BusLoses \/ BusRefuses \/ BusTimesOut
  BY DEF ReadSector
<1>2. Here \in Nat /\ Here' = Here /\ Offset' = Offset
  BY <1>1, HereNat DEF Here, Offset, locals
<1>3. Others'
  BY <1>1, <1>2, FaultFacts, OthersStay DEF DamageInv, locals
<1>4. Kept(Here)'
  BY <1>1, <1>2 DEF DamageInv, Current, Kept, call
<1>5. ASSUME Here \notin hit', ~ halError' PROVE ReadRight'
  <2>1. buf' = Read(SectorSize)
    BY <1>1, <1>5, FaultFacts
  <2>2. \A i \in 0 .. SectorSize - 1 : buf'[i] = flash[Base(Here) + i]
    BY <2>1, Sizes DEF Read, Base, Here
  <2> QED BY <1>1, <1>2, <2>2 DEF ReadRight
<1>6. Current'
  BY <1>1, <1>2, <1>4, <1>5 DEF Current
<1>7. hit' = {} => ~ halError'
  BY <1>1, FaultFacts DEF DamageInv
<1> QED BY <1>1, <1>2, <1>3, <1>6, <1>7 DEF DamageInv, call, locals

(* A read that worked: the range is blank, or the sector is sector 0.      *)
LEMMA BlankOrFirst ==
  ASSUME WriteInv, DamageInv, stage = "test", Here \notin hit, ~ halError
  PROVE  /\ NeedsErase => Here = 0
         /\ ~ NeedsErase => \A x \in addr .. addr + secRem - 1 : flash[x] = Blank
<1>1. /\ addr \in Address /\ addr \in Nat /\ secRem \in Nat /\ Offset + secRem <= SectorSize
      /\ Base(Here) \in Nat /\ Offset \in Nat /\ addr = Base(Here) + Offset
  BY HereNat, Sizes, Addresses DEF WriteInv, WriteTypeOK, CallShape
<1>2. ReadRight /\ Kept(Here)
  BY DEF DamageInv, Current
<1>3. ASSUME NEW i \in 0 .. secRem - 1
      PROVE  /\ addr + i \in Address /\ SectorOf(addr + i) = Here
             /\ buf[Offset + i] = flash[addr + i] /\ flash[addr + i] = before[addr + i]
  <2>1. Offset + i \in 0 .. SectorSize - 1 /\ addr + i = Base(Here) + (Offset + i)
    BY <1>1, Sizes
  <2>2. addr + i \in Address
    BY <1>1, <2>1, HereFacts DEF Here
  <2>3. SectorOf(addr + i) = Here
    <3>1. PICK b \in Nat, k \in Nat : b = addr + i /\ k = Here
      BY <1>1, HereNat
    <3>2. Base(k) <= b /\ b < Base(k) + SectorSize
      BY <1>1, <2>1, <3>1, Sizes
    <3> QED BY <3>1, <3>2, InSector
  <2> QED BY <1>2, <2>1, <2>2, <2>3 DEF ReadRight, Kept
<1>4. ASSUME NeedsErase PROVE Here = 0
  <2>1. PICK i \in 0 .. secRem - 1 : buf[Offset + i] # Blank
    BY <1>4 DEF NeedsErase, Offset
  <2>2. addr + i \in Address /\ SectorOf(addr + i) = Here /\ before[addr + i] # Blank
    BY <1>3, <2>1
  <2>3. addr + i \in addr .. addr + secRem - 1
    BY <1>1
  <2>4. addr + i \in first .. first + count - 1
    BY <2>2, <2>3, RangeHere
  <2> QED BY <2>2, <2>4 DEF DamageInv
<1>5. ASSUME ~ NeedsErase, NEW x \in addr .. addr + secRem - 1 PROVE flash[x] = Blank
  <2>1. x - addr \in 0 .. secRem - 1 /\ addr + (x - addr) = x
    BY <1>1
  <2>2. buf[Offset + (x - addr)] = Blank
    BY <1>5, <2>1 DEF NeedsErase, Offset
  <2> QED BY <1>3, <2>1, <2>2
<1> QED BY <1>4, <1>5

LEMMA WriteBlankDamage ==
  ASSUME WriteInv, DamageInv, WriteBlank
  PROVE  DamageInv'
<1>1. /\ stage = "test" /\ ~ NeedsErase /\ stage' = "program"
      /\ source' = "pbuf" /\ from' = addr /\ todo' = secRem
      /\ UNCHANGED <<flash, call, locals, buf, faults>>
  BY DEF WriteBlank, NoCheck
<1>2. /\ Here \in Nat /\ Here' = Here /\ Offset' = Offset /\ Spoilt' = Spoilt
      /\ hit' = hit /\ halError' = halError /\ addr' = addr
  BY <1>1, HereNat DEF Here, Offset, locals, Spoilt, faults
<1>3. Others'
  BY <1>1, <1>2, OthersStay DEF DamageInv
<1>4. Kept(Here) /\ Kept(Here)'
  BY <1>1, <1>2 DEF DamageInv, Current, Kept, call
<1>5. ASSUME Here \notin hit, ~ halError, NEW x \in Address, SectorOf(x) = Here
      PROVE  IF x \in from' .. from' + todo' - 1 THEN flash'[x] = Blank /\ Data(x)' = Wanted(x)'
             ELSE flash'[x] = Wanted(x)'
  <2>1. x \in first .. first + count - 1 <=> x \in addr .. addr + secRem - 1
    BY <1>1, <1>5, RangeHere
  <2>2. x \in addr .. addr + secRem - 1 => flash[x] = Blank
    BY <1>1, <1>5, BlankOrFirst
  <2>3. flash[x] = before[x]
    BY <1>4, <1>5 DEF Kept
  <2> QED BY <1>1, <2>1, <2>2, <2>3 DEF Data, Wanted, call
<1>6. Here \notin hit /\ ~ halError => Halfway'
  BY <1>2, <1>5 DEF Halfway
<1>7. Current'
  BY <1>1, <1>2, <1>4, <1>6 DEF Current
<1> QED BY <1>1, <1>2, <1>3, <1>7 DEF DamageInv, call, locals

(* The erase of the current sector is an erase of sector 0.                *)
LEMMA EraseFacts ==
  ASSUME SafeUse, WriteInv
  PROVE  \A x \in Address :
           EraseSector(flash, ErasedAt(Here))[x] = IF SectorOf(x) = 0 THEN Blank ELSE flash[x]
<1>1. Here \in Nat /\ Here < SectorSize
  BY HereNat, Sizes DEF SafeUse
<1>2. Base(0) = 0
  BY Sizes DEF Base
<1>3. SectorOf(Here) = 0
  <2>1. PICK h \in Nat : h = Here
    BY <1>1
  <2>2. Base(0) <= h /\ h < Base(0) + SectorSize /\ 0 \in Nat
    BY <1>1, <1>2, <2>1, Sizes
  <2> QED BY <2>1, <2>2, InSector
<1> QED BY <1>3 DEF EraseSector, ErasedAt

LEMMA EraseDamage ==
  ASSUME SafeUse, WriteInv, DamageInv, EraseAndMerge
  PROVE  DamageInv'
<1>1. /\ stage = "test" /\ NeedsErase /\ stage' = "program"
      /\ source' = "buf" /\ from' = Base(Here) /\ todo' = SectorSize
      /\ UNCHANGED <<call, locals>> /\ buf' = Merged
      /\ BusWorks \/ BusRefuses \/ BusTimesOut \/ BusLoses
      /\ \/ BusWorks /\ flash' = EraseSector(flash, ErasedAt(Here))
         \/ (BusLoses \/ BusTimesOut) /\ flash' \in {flash, EraseSector(flash, ErasedAt(Here))}
         \/ BusRefuses /\ flash' = flash
  BY DEF EraseAndMerge, NoCheck, Here, Base
<1>2. Here \in Nat /\ Here' = Here /\ Offset' = Offset /\ addr' = addr
  BY <1>1, HereNat DEF Here, Offset, locals
<1>3. /\ hit \subseteq hit' /\ (halError => halError') /\ Spoilt \subseteq Spoilt'
      /\ hit' = {} => ~ halError'
  BY <1>1, FaultFacts DEF DamageInv
<1>4. \A x \in Address : flash'[x] = flash[x] \/ (SectorOf(x) = 0 /\ flash'[x] = Blank)
  BY <1>1, EraseFacts
<1>5. Here # 0 => (flash' = flash \/ 0 \in Spoilt')
  <2>1. ASSUME Here # 0, 0 \notin Spoilt' PROVE flash' = flash
    <3>1. SectorOf(ErasedAt(0)) = 0
      <4>1. Base(0) = 0 /\ 0 \in Nat
        BY Sizes DEF Base
      <4> QED BY <4>1, Sizes, InSector DEF ErasedAt
    <3>2. hit' = {}
      BY <2>1, <3>1 DEF Spoilt, ErasedAt
    <3>3. Here \notin hit /\ ~ halError
      BY <1>3, <3>2 DEF DamageInv
    <3> QED BY <1>1, <2>1, <3>3, BlankOrFirst
  <2> QED BY <2>1
<1>6. Others'
  <2>1. \A x \in Address : SectorOf(x) # Here =>
          flash'[x] = flash[x] \/ (SectorOf(x) = 0 /\ 0 \in Spoilt')
    BY <1>2, <1>4, <1>5
  <2>2. UNCHANGED <<call, addr>>
    BY <1>1, <1>2
  <2>3. Others
    BY <1>1 DEF DamageInv
  <2> QED BY <1>2, <1>3, <2>1, <2>2, <2>3, OthersStay
<1>7. Kept(Here)
  BY <1>1 DEF DamageInv, Current
<1>8. ASSUME Here \notin hit', halError' PROVE Kept(Here)'
  <2>1. flash' = flash
    BY <1>1, <1>8, FaultFacts
  <2> QED BY <1>1, <1>2, <1>7, <2>1 DEF Kept, call
<1>9. ASSUME Here \notin hit', ~ halError' PROVE Halfway'
  <2>1. /\ Here \notin hit /\ ~ halError
        /\ flash' = EraseSector(flash, ErasedAt(Here))
    BY <1>1, <1>3, <1>9, FaultFacts
  <2>2. Here = 0 /\ ReadRight
    BY <1>1, <2>1, BlankOrFirst DEF DamageInv, Current
  <2>3. Base(Here) = 0
    BY <2>2, Sizes DEF Base
  <2>4. ASSUME NEW x \in Address, SectorOf(x) = Here
        PROVE  /\ x \in from' .. from' + todo' - 1
               /\ flash'[x] = Blank /\ Data(x)' = Wanted(x)'
    <3>1. /\ x \in Nat /\ x % SectorSize \in Nat /\ x % SectorSize < SectorSize
          /\ x = Base(Here) + (x % SectorSize)
      BY <2>4, Addresses, SectorFacts, Sizes
    <3>2. x = x % SectorSize /\ x \in 0 .. SectorSize - 1
      BY <2>3, <3>1, Sizes
    <3>3. x \in from' .. from' + todo' - 1
      <4>1. from' = 0 /\ from' + todo' - 1 = SectorSize - 1
        BY <1>1, <2>3, Sizes
      <4> QED BY <3>2, <4>1
    <3>4. flash'[x] = Blank
      BY <2>1, <2>2, <2>4, EraseFacts
    <3>5. x \in first .. first + count - 1 <=> x \in addr .. addr + secRem - 1
      BY <1>1, <2>4, RangeHere
    <3>6. buf[x] = before[x]
      BY <1>7, <2>2, <2>3, <2>4, <3>1, <3>2 DEF ReadRight, Kept
    <3>7. /\ addr \in Nat /\ secRem \in Nat /\ addr % SectorSize = addr
          /\ SectorOf(addr) * SectorSize = 0
      BY <2>3, HereNat, Sizes, Addresses DEF Offset, WriteInv, WriteTypeOK, Here, Base
    <3>8. Merged[x] = IF x - addr \in 0 .. secRem - 1 THEN New(0 + x) ELSE buf[x]
      BY <3>2, <3>7 DEF Merged
    <3>9. x - addr \in 0 .. secRem - 1 <=> x \in addr .. addr + secRem - 1
      BY <3>1, <3>7
    <3>10. Data(x)' = Merged[x]
      BY <1>1, <3>2 DEF Data
    <3>11. Wanted(x)' = Wanted(x)
      BY <1>1 DEF Wanted, call
    <3>12. Merged[x] = Wanted(x)
      BY <3>1, <3>5, <3>6, <3>8, <3>9 DEF Wanted
    <3> QED BY <3>3, <3>4, <3>10, <3>11, <3>12
  <2> QED BY <1>2, <2>4 DEF Halfway
<1>10. Current'
  BY <1>1, <1>2, <1>8, <1>9 DEF Current
<1> QED BY <1>1, <1>2, <1>3, <1>6, <1>10 DEF DamageInv, call

LEMMA PageProgramDamage ==
  ASSUME WriteInv, DamageInv, PageProgram
  PROVE  DamageInv'
<1>1. /\ stage = "program" /\ UNCHANGED <<call, locals, buf, source>>
      /\ from \in Nat /\ pageRem \in Nat /\ todo \in Nat /\ pageRem <= todo
      /\ stage' \in {"program", "next"}
      /\ \/ todo = pageRem /\ stage' = "next"
         \/ todo # pageRem /\ stage' = "program" /\ from' = from + pageRem
              /\ todo' = todo - pageRem
  <2>1. stage = "program"
    BY DEF PageProgram
  <2>2. UNCHANGED <<call, locals, buf, source>>
    BY DEF PageProgram
  <2>3. from \in Nat /\ pageRem \in Nat
    BY <2>1, Addresses DEF WriteInv, WriteTypeOK
  <2>4. pageRem <= todo /\ todo \in Nat
    BY <2>1 DEF WriteInv, PageShape, WriteTypeOK
  <2>5. \/ todo = pageRem /\ stage' = "next"
        \/ todo # pageRem /\ stage' = "program" /\ from' = from + pageRem
             /\ todo' = todo - pageRem
    BY DEF PageProgram
  <2> QED BY <2>1, <2>2, <2>3, <2>4, <2>5
<1>2. Here \in Nat /\ Here' = Here /\ Offset' = Offset /\ addr' = addr
  BY <1>1, HereNat DEF Here, Offset, locals
<1>3. /\ \/ BusWorks /\ flash' = PartProgrammed(pageRem)
         \/ BusLoses /\ \E n \in 0 .. pageRem : flash' = PartProgrammed(n)
         \/ BusTimesOut /\ flash' \in {flash, PartProgrammed(pageRem)}
         \/ BusRefuses /\ flash' = flash
      /\ \E n \in 0 .. pageRem : flash' = PartProgrammed(n)
  BY PageProgramFacts
<1>4. /\ hit \subseteq hit' /\ (halError => halError') /\ Spoilt \subseteq Spoilt'
      /\ hit' = {} => ~ halError'
  BY <1>3, FaultFacts DEF DamageInv
<1>5. \A x \in Address : SectorOf(x) # Here => flash'[x] = flash[x]
  <2>1. PICK n \in 0 .. pageRem : flash' = PartProgrammed(n)
    BY <1>3
  <2>2. ASSUME NEW x \in Address, x \in from .. from + n - 1 PROVE SectorOf(x) = Here
    <3>1. /\ Base(Here) <= from /\ from + todo <= Base(Here) + SectorSize /\ Base(Here) \in Nat
      BY <1>1, HereNat DEF WriteInv, PageShape, Here
    <3>2. x \in Nat /\ Base(Here) <= x /\ x < Base(Here) + SectorSize
      BY <1>1, <2>2, <3>1, Sizes, Addresses
    <3> QED BY <1>2, <3>2, InSector
  <2> QED BY <2>1, <2>2 DEF PartProgrammed
<1>6. Others'
  BY <1>1, <1>2, <1>4, <1>5, OthersStay DEF DamageInv
<1>7. Here \notin hit' => Here \notin hit
  BY <1>4
<1>8. ASSUME Here \notin hit', halError' PROVE Kept(Here)'
  <2>1. flash' = flash /\ halError
    BY <1>3, <1>8, FaultFacts
  <2>2. Kept(Here)
    BY <1>1, <1>7, <1>8, <2>1 DEF DamageInv, Current
  <2> QED BY <1>1, <1>2, <2>1, <2>2 DEF Kept, call
<1>9. ASSUME Here \notin hit', ~ halError'
      PROVE  IF stage' = "program" THEN Halfway' ELSE StoredIn(Here)'
  <2>1. flash' = PartProgrammed(pageRem) /\ ~ halError
    BY <1>3, <1>9, FaultFacts
  <2>2. Halfway
    BY <1>1, <1>7, <1>9, <2>1 DEF DamageInv, Current
  <2>3. ASSUME NEW x \in Address, SectorOf(x) = Here
        PROVE  /\ x \in from .. from + pageRem - 1 => flash'[x] = Wanted(x)
               /\ x \notin from .. from + pageRem - 1 => flash'[x] = flash[x]
               /\ x \in from .. from + todo - 1 => flash[x] = Blank /\ Data(x) = Wanted(x)
               /\ x \notin from .. from + todo - 1 => flash[x] = Wanted(x)
               /\ Wanted(x)' = Wanted(x) /\ Data(x)' = Data(x) /\ x \in Nat
    <3>1. /\ x \in from .. from + todo - 1 => flash[x] = Blank /\ Data(x) = Wanted(x)
          /\ x \notin from .. from + todo - 1 => flash[x] = Wanted(x)
      BY <2>2, <2>3 DEF Halfway
    <3>2. x \in from .. from + pageRem - 1 => x \in from .. from + todo - 1
      BY <1>1, Addresses
    <3>3. /\ x \in from .. from + pageRem - 1 => flash'[x] = Programmed(flash[x], Data(x))
          /\ x \notin from .. from + pageRem - 1 => flash'[x] = flash[x]
      BY <2>1 DEF PartProgrammed
    <3>4. Wanted(x)' = Wanted(x) /\ Data(x)' = Data(x) /\ x \in Nat
      BY <1>1, Addresses DEF Wanted, Data, call
    <3> QED BY <3>1, <3>2, <3>3, <3>4 DEF Programmed
  <2>4. CASE todo = pageRem
    BY <1>1, <1>2, <2>3, <2>4 DEF StoredIn
  <2>5. CASE todo # pageRem
    <3>1. stage' = "program" /\ from' = from + pageRem /\ todo' = todo - pageRem
      BY <1>1, <2>5
    <3>2. ASSUME NEW x \in Address, SectorOf(x) = Here
          PROVE  IF x \in from' .. from' + todo' - 1 THEN flash'[x] = Blank /\ Data(x)' = Wanted(x)'
                 ELSE flash'[x] = Wanted(x)'
      <4>1. x \in from' .. from' + todo' - 1 <=>
              x \in from .. from + todo - 1 /\ x \notin from .. from + pageRem - 1
        BY <1>1, <2>3, <3>1, <3>2
      <4> QED BY <2>3, <3>2, <4>1
    <3> QED BY <1>2, <3>1, <3>2 DEF Halfway
  <2> QED BY <2>4, <2>5
<1>10. Current'
  BY <1>1, <1>2, <1>8, <1>9 DEF Current
<1> QED BY <1>1, <1>2, <1>4, <1>6, <1>10 DEF DamageInv, call

LEMMA NextSectorDamage ==
  ASSUME WriteInv, DamageInv, NextSector
  PROVE  DamageInv'
<1>1. /\ stage = "next" /\ stage' = "read" /\ UNCHANGED <<flash, call, buf, pages, faults>>
  BY DEF NextSector
<1>2. /\ Here \in Nat /\ Here' = Here + 1 /\ Offset' = 0
      /\ addr \in Nat /\ secRem \in Nat /\ addr' = addr + secRem /\ first \in Nat
  <2>1. addr \in Nat /\ secRem \in Nat /\ addr' = addr + secRem /\ first \in Nat
    BY Sizes, Addresses DEF NextSector, WriteInv, WriteTypeOK
  <2>2. Here' = Here + 1 /\ Offset' = 0
    BY NextSectorFacts DEF Here, Offset
  <2> QED BY <2>1, <2>2, HereNat
<1>3. first' <= addr'
  BY <1>1, <1>2 DEF DamageInv, call
<1>4. /\ hit' = hit /\ halError' = halError /\ Spoilt' = Spoilt
      /\ \A s : (Kept(s)' <=> Kept(s)) /\ (StoredIn(s)' <=> StoredIn(s))
  BY <1>1 DEF Kept, StoredIn, Wanted, Spoilt, call, faults
<1>5. Others /\ Current
  BY <1>1 DEF DamageInv
<1>6. Here \notin Spoilt => Here \notin hit
  BY DEF Spoilt
<1>7. Others'
  <2>1. ASSUME NEW s \in Nat, s > Here' PROVE Kept(s)'
    BY <1>2, <1>4, <1>5, <2>1 DEF Others
  <2>2. ASSUME NEW s \in Nat, s < Here', s \notin Spoilt'
        PROVE  StoredIn(s)' \/ (halError' /\ Kept(s)')
    <3>1. CASE s = Here
      BY <1>1, <1>4, <1>5, <1>6, <2>2, <3>1 DEF Current
    <3>2. CASE s < Here
      BY <1>4, <1>5, <2>2, <3>2 DEF Others
    <3> QED BY <1>2, <2>2, <3>1, <3>2
  <2> QED BY <2>1, <2>2 DEF Others
<1>8. Current'
  <2>1. Kept(Here + 1)
    BY <1>2, <1>5 DEF Others
  <2>2. Kept(Here)'
    BY <1>1, <1>2, <2>1 DEF Kept, call
  <2> QED BY <1>1, <2>2 DEF Current
<1> QED BY <1>1, <1>2, <1>3, <1>4, <1>7, <1>8 DEF DamageInv, call

LEMMA WriteReturnDamage ==
  ASSUME DamageInv, WriteReturn
  PROVE  DamageInv'
<1>1. /\ stage = "next" /\ size = secRem /\ stage' = "done"
      /\ UNCHANGED <<flash, call, locals, buf, pages, faults>>
  BY DEF WriteReturn
<1>2. Here' = Here /\ Offset' = Offset /\ hit' = hit /\ halError' = halError /\ Spoilt' = Spoilt
      /\ \A s : (Kept(s)' <=> Kept(s)) /\ (StoredIn(s)' <=> StoredIn(s))
  BY <1>1 DEF Here, Offset, Kept, StoredIn, Wanted, Spoilt, call, locals, faults
<1>3. Others' /\ Current'
  BY <1>1, <1>2 DEF DamageInv, Others, Current
<1> QED BY <1>1, <1>2, <1>3 DEF DamageInv, call, locals

LEMMA NextDamage ==
  ASSUME SafeUse, WriteInv, DamageInv, [WriteNext]_writeVars
  PROVE  DamageInv'
<1>1. CASE UNCHANGED writeVars
  BY <1>1 DEF writeVars, call, locals, pages, faults, DamageInv, Others, Current, Kept, StoredIn,
              Halfway, ReadRight, Wanted, Data, Spoilt, Here, Offset
<1> QED BY <1>1, WriteCallDamage, ReadSectorDamage, WriteBlankDamage, EraseDamage,
           PageProgramDamage, NextSectorDamage, WriteReturnDamage DEF WriteNext

LEMMA DamageInvariance ==
  ASSUME SafeUse
  PROVE  WriteSpec => []DamageInv
<1>1. WriteInit => DamageInv
  BY DEF WriteInit, DamageInv
<1>2. WriteInv /\ DamageInv /\ [WriteNext]_writeVars => DamageInv'
  BY NextDamage
<1> QED BY <1>1, <1>2, WriteInvariance, PTL DEF WriteSpec

(* What a sector holds when W25QXX_Write has returned.                     *)
LEMMA AtReturn ==
  ASSUME WriteInv, DamageInv, stage = "done", NEW s \in Nat, s \notin Spoilt
  PROVE  StoredIn(s) \/ (halError /\ Kept(s))
<1>1. Here \in Nat /\ Others /\ Current /\ size = secRem
  BY HereNat DEF DamageInv
<1>2. CASE s < Here
  BY <1>1, <1>2 DEF Others
<1>3. CASE s = Here
  <2>1. Here \notin hit
    BY <1>3 DEF Spoilt
  <2> QED BY <1>1, <1>3, <2>1 DEF Current
<1>4. CASE s > Here
  <2>1. Kept(s)
    BY <1>1, <1>4 DEF Others
  <2>2. ASSUME NEW x \in Address, SectorOf(x) = s PROVE x \notin first .. first + count - 1
    <3>1. /\ Base(Here) + SectorSize >= first + count /\ Base(Here) \in Nat
          /\ first \in Nat /\ count \in Nat
      <4>1. first \in Nat /\ count \in Nat /\ addr \in Nat /\ size \in Nat
        BY Sizes, Addresses DEF WriteInv, WriteTypeOK
      <4>2. Offset + size <= SectorSize /\ addr + size = first + count
        BY <1>1 DEF WriteInv, CallShape
      <4>3. Base(Here) \in Nat /\ Offset \in Nat /\ addr = Base(Here) + Offset
        BY HereNat
      <4> QED BY <4>1, <4>2, <4>3, Sizes
    <3>2. x \in Nat /\ Base(s) <= x /\ Base(s) \in Nat
      BY <2>2, Addresses, SectorFacts
    <3>3. Base(Here) + SectorSize <= Base(s)
      <4>1. PICK h \in Nat : h = Here /\ h < s
        BY <1>1, <1>4
      <4>2. Base(h) = SectorSize * h /\ Base(s) = SectorSize * s
        BY Sizes, Commutes DEF Base
      <4>3. (SectorSize * h) + SectorSize <= SectorSize * s
        BY <4>1, Sizes, Times
      <4> QED BY <4>1, <4>2, <4>3
    <3> QED BY <3>1, <3>2, <3>3, Sizes
  <2> QED BY <2>1, <2>2 DEF Kept, StoredIn, Wanted
<1> QED BY <1>1, <1>2, <1>3, <1>4

LEMMA StoredMeans ==
  /\ \A x : Stored(x) <=> flash[x] = Wanted(x)
BY DEF Stored, Wanted

(* A bus failure in a sector spoils that sector and sector 0 at most: the  *)
(* other sectors of the range hold the new bytes and keep their others, or *)
(* the HAL has refused and they are as they were; a sector is never half   *)
(* written elsewhere (w25qxx.c:497-551).                                   *)
THEOREM WriteDamageIsLocal ==
  ASSUME SafeUse
  PROVE  WriteSpec => []DamageIsLocal
<1>1. WriteInv /\ DamageInv => DamageIsLocal
  <2>1. ASSUME WriteInv, DamageInv, stage = "done", NEW s \in (0 .. Sectors - 1) \ Spoilt
        PROVE  StoredIn(s) \/ (halError /\ Kept(s))
    BY <2>1, AtReturn, Sizes
  <2>2. ASSUME NEW s
        PROVE  /\ StoredIn(s) <=> \A x \in {y \in Address : SectorOf(y) = s} : Stored(x)
               /\ Kept(s) <=> \A x \in {y \in Address : SectorOf(y) = s} : flash[x] = before[x]
    BY StoredMeans DEF StoredIn, Kept
  <2> QED BY <2>1, <2>2 DEF DamageIsLocal
<1> QED BY <1>1, WriteInvariance, DamageInvariance, PTL

(* W25QXX_Write keeps the promise of w25qxx.h:88 if no bus command fails   *)
(* and bytes are overwritten in sector 0 only.                             *)
THEOREM WriteStoresInSafeUse ==
  ASSUME SafeUse
  PROVE  WriteSpec => []WriteStores
<1>1. WriteInv /\ DamageInv => WriteStores
  <2>1. ASSUME WriteInv, DamageInv, stage = "done", hit = {}, NEW x \in Address PROVE Stored(x)
    <3>1. SectorOf(x) \in Nat /\ SectorOf(x) \notin Spoilt /\ ~ halError
      BY <2>1, Addresses, SectorFacts DEF Spoilt, DamageInv
    <3>2. StoredIn(SectorOf(x))
      BY <2>1, <3>1, AtReturn
    <3> QED BY <3>2, StoredMeans DEF StoredIn
  <2> QED BY <2>1 DEF WriteStores
<1> QED BY <1>1, WriteInvariance, DamageInvariance, PTL
----------------------------------------------------------------------------
(***************************************************************************)
(* The heap keeps its chain of blocks and what is stored in them, for any  *)
(* size, any number of threads and any sequence of calls.                  *)
(*                                                                         *)
(* HeapInv is inductive.  It says two things.  Sound: the words at the     *)
(* offsets Blocks form a doubly linked chain that rises by more than a     *)
(* header at each step, with no two free neighbours and lfree at the first *)
(* free block.  Owned: each block in use has one owner, a thread that      *)
(* holds it or a growing rt_realloc that has it for the copy.  The words   *)
(* of an owner lie in no other block and are no header, which is why what  *)
(* plug_holes and the splits write never meets them.                       *)
(*                                                                         *)
(* Each operation is first a fact about any chain m at any offsets B       *)
(* (CutChain, JoinChain, PluggedFacts, TakenFacts, FreedFacts,             *)
(* ShrunkFacts, WrittenFacts), then about the owners (OwnAdd, OwnRemove,   *)
(* OwnReplace), and last about the action.                                 *)
(***************************************************************************)
(* A chain of headers at the offsets B, whatever lies between them.        *)
Node == [next : 0 .. End, prev : 0 .. End, used : BOOLEAN]

NextRises(m, B) ==
  \A p \in B \ {End} :
    /\ m[p].next \in B
    /\ p + Header < m[p].next
    /\ \A q \in B : q <= p \/ m[p].next <= q

PrevAgrees(m, B) == \A p \in B \ {0, End} : m[p].prev \in B \ {End} /\ m[m[p].prev].next = p

BlockChain(m, B) ==
  /\ m = [q \in 0 .. End |-> m[q]]
  /\ B \subseteq 0 .. End
  /\ 0 \in B /\ End \in B
  /\ \A p \in B : m[p] \in Node
  /\ m[End].next = End /\ m[0].prev = 0
  /\ m[End].used
  /\ NextRises(m, B) /\ PrevAgrees(m, B)

LEMMA HeapSizesAre ==
  /\ HeapSize \in Nat \ {0} /\ Header \in Nat \ {0} /\ MinSize \in Nat \ {0}
  /\ End \in Nat /\ 0 < End
  /\ HeapSizes \subseteq 1 .. HeapSize
<1>1. HeapSize \in Nat \ {0} /\ Header \in Nat \ {0} /\ MinSize \in Nat \ {0}
  BY HeapAssumption
<1>2. End \in Nat /\ 0 < End
  BY <1>1 DEF End
<1> QED BY <1>1, <1>2, HeapAssumption

(* A walk of n steps from p by `next'.                                     *)
HeapWalk(f, m, p, n) ==
  f = [i \in 0 .. n |-> IF i = 0 THEN p ELSE m[f[i - 1]].next]

LEMMA HeapWalkExists ==
  ASSUME NEW m, NEW p, NEW n \in Nat
  PROVE  \E f : HeapWalk(f, m, p, n)
<1>1. SUFFICES ASSUME ~ \E f : HeapWalk(f, m, p, n) PROVE FALSE
  OBVIOUS
<1>2. {j \in Nat : ~ \E f : HeapWalk(f, m, p, j)} # {}
        /\ {j \in Nat : ~ \E f : HeapWalk(f, m, p, j)} \in SUBSET Nat
  BY <1>1
<1>3. PICK k \in {j \in Nat : ~ \E f : HeapWalk(f, m, p, j)} :
        \A j \in {j \in Nat : ~ \E f : HeapWalk(f, m, p, j)} : k <= j
  BY <1>2, LeastNatural
<1>4. k # 0
  <2>1. HeapWalk([i \in 0 .. 0 |-> p], m, p, 0)
    BY DEF HeapWalk
  <2> QED BY <1>3, <2>1
<1>5. k - 1 \in Nat /\ ~ (k <= k - 1) /\ (k - 1) + 1 = k
  BY <1>3, <1>4
<1>6. PICK f : HeapWalk(f, m, p, k - 1)
  BY <1>3, <1>5
<1> DEFINE g == [i \in 0 .. k |-> IF i = k THEN m[f[k - 1]].next ELSE f[i]]
<1>7. g = [i \in 0 .. k |-> IF i = 0 THEN p ELSE m[g[i - 1]].next]
  <2>1. \A i \in 0 .. k - 1 : f[i] = IF i = 0 THEN p ELSE m[f[i - 1]].next
    BY <1>6 DEF HeapWalk
  <2>2. ASSUME NEW i \in 0 .. k
        PROVE  g[i] = IF i = 0 THEN p ELSE m[g[i - 1]].next
    <3>1. CASE i = k
      <4>1. k - 1 \in 0 .. k /\ k - 1 # k /\ k # 0
        BY <1>4, <1>5
      <4>2. g[k - 1] = f[k - 1] /\ g[k] = m[f[k - 1]].next
        BY <4>1
      <4> QED BY <3>1, <4>1, <4>2
    <3>2. CASE i # k
      <4>1. i \in 0 .. k - 1 /\ g[i] = f[i]
        BY <1>5, <3>2
      <4>2. i # 0 => i - 1 \in 0 .. k /\ i - 1 # k /\ g[i - 1] = f[i - 1]
        BY <1>5, <4>1
      <4> QED BY <2>1, <4>1, <4>2
    <3> QED BY <3>1, <3>2
  <2> QED BY <2>2
<1>8. HeapWalk(g, m, p, k)
  BY <1>7 DEF HeapWalk
<1> QED BY <1>3, <1>8

(* What is reached from a block is the rest of the chain.                  *)
LEMMA ReachIsWalk ==
  ASSUME NEW m, NEW p
  PROVE  \E f : HeapWalk(f, m, p, End) /\ Reach(m, p) = {f[i] : i \in 0 .. End}
<1>1. End \in Nat
  BY HeapSizesAre
<1> DEFINE f == CHOOSE g : HeapWalk(g, m, p, End)
<1>2. HeapWalk(f, m, p, End)
  <2>1. \E g : HeapWalk(g, m, p, End)
    BY <1>1, HeapWalkExists
  <2> QED BY <2>1
<1>3. Reach(m, p) = {f[i] : i \in 0 .. End}
  BY DEF Reach, HeapWalk
<1> QED BY <1>2, <1>3

LEMMA ReachFacts ==
  ASSUME NEW m, NEW B, BlockChain(m, B), NEW p \in B
  PROVE  Reach(m, p) = {q \in B : p <= q}
<1>1. PICK f : HeapWalk(f, m, p, End) /\ Reach(m, p) = {f[i] : i \in 0 .. End}
  BY ReachIsWalk
<1>2. End \in Nat /\ B \subseteq 0 .. End /\ m[End].next = End /\ End \in B
  BY HeapSizesAre DEF BlockChain
<1>8. \A b \in B : b \in Int
  BY <1>2
<1>3. \A b \in B \ {End} : m[b].next \in B /\ b < m[b].next /\ \A q \in B : q <= b \/ m[b].next <= q
  <2>1. NextRises(m, B)
    BY DEF BlockChain
  <2>2. \A b, n \in Int : b + Header < n => b < n
    BY HeapSizesAre
  <2> QED BY <1>8, <2>1, <2>2 DEF NextRises
<1>4. f[0] = p /\ \A i \in 1 .. End : f[i] = m[f[i - 1]].next
  BY <1>1, <1>2 DEF HeapWalk
<1> DEFINE Ahead(i) == f[i] \in B /\ p <= f[i] /\ (f[i] = End \/ i <= f[i])
<1>5. \A i \in 0 .. End : Ahead(i)
  <2>1. SUFFICES ASSUME {i \in 0 .. End : ~ Ahead(i)} # {} PROVE FALSE
    OBVIOUS
  <2>2. {i \in 0 .. End : ~ Ahead(i)} \in SUBSET Nat
    OBVIOUS
  <2>3. PICK k \in {i \in 0 .. End : ~ Ahead(i)} : \A j \in {i \in 0 .. End : ~ Ahead(i)} : k <= j
    BY <2>1, <2>2, LeastNatural
  <2>4. k # 0
    <3>1. Ahead(0)
      BY <1>2, <1>4
    <3> QED BY <2>3, <3>1
  <2>5. k \in 1 .. End /\ k - 1 \in 0 .. End /\ ~ (k <= k - 1)
    BY <1>2, <2>3, <2>4
  <2>6. Ahead(k - 1)
    BY <2>3, <2>5
  <2>7. f[k] = m[f[k - 1]].next
    BY <1>4, <2>5
  <2>8. CASE f[k - 1] = End
    BY <1>2, <2>3, <2>6, <2>7, <2>8
  <2>9. CASE f[k - 1] # End
    <3>1. f[k] \in B /\ f[k - 1] < f[k]
      BY <1>3, <2>6, <2>7, <2>9
    <3>2. f[k] \in Int /\ f[k - 1] \in Int /\ p \in Int
      BY <1>8, <2>6, <3>1
    <3>3. Ahead(k)
      BY <2>5, <2>6, <2>9, <3>1, <3>2
    <3> QED BY <2>3, <3>3
  <2> QED BY <2>8, <2>9
<1>6. f[End] = End
  <2>1. End \in 0 .. End
    BY <1>2
  <2>2. Ahead(End)
    BY <1>5, <2>1
  <2>3. f[End] \in 0 .. End
    BY <1>2, <2>2
  <2> QED BY <1>2, <2>2, <2>3
<1>7. ASSUME NEW q \in B, p <= q PROVE \E i \in 0 .. End : f[i] = q
  <2> DEFINE T == {i \in 0 .. End : q <= f[i]}
  <2>1. End \in T
    BY <1>2, <1>6
  <2>2. T \in SUBSET Nat /\ T # {}
    BY <2>1
  <2> HIDE DEF T
  <2>3. PICK k \in T : \A j \in T : k <= j
    BY <2>2, LeastNatural
  <2>4. k \in 0 .. End /\ q <= f[k] /\ f[k] \in B
    BY <1>5, <2>3 DEF T
  <2>5. CASE k = 0
    <3>1. f[0] = q
      BY <1>2, <1>4, <1>7, <2>4, <2>5
    <3> QED BY <2>4, <2>5, <3>1
  <2>6. CASE k # 0
    <3>1. k \in 1 .. End /\ k - 1 \in 0 .. End /\ ~ (k <= k - 1)
      BY <1>2, <2>4, <2>6
    <3>2. f[k - 1] \in B /\ ~ (q <= f[k - 1])
      <4>1. k - 1 \notin T
        BY <2>3, <3>1
      <4> QED BY <1>5, <3>1, <4>1 DEF T
    <3>3. f[k - 1] # End
      BY <1>2, <3>2
    <3>4. f[k] = m[f[k - 1]].next
      BY <1>4, <3>1
    <3>5. q <= f[k - 1] \/ f[k] <= q
      BY <1>3, <3>2, <3>3, <3>4
    <3>6. f[k] = q
      BY <1>8, <2>4, <3>2, <3>5
    <3> QED BY <2>4, <3>6
  <2> QED BY <2>5, <2>6
<1> QED BY <1>1, <1>5, <1>7

LEMMA BlockFacts ==
  ASSUME NEW m, NEW B, BlockChain(m, B), NEW p \in B \ {End}
  PROVE  /\ p \in Nat /\ p < End /\ m[p] \in Node
         /\ m[p].next \in B /\ m[p].next \in Nat /\ m[p].next <= End
         /\ p + Header < m[p].next /\ p < m[p].next
         /\ \A q \in B : q <= p \/ m[p].next <= q
<1>1. End \in Nat /\ Header \in Nat \ {0} /\ B \subseteq 0 .. End
  BY HeapSizesAre DEF BlockChain
<1>2. m[p] \in Node /\ m[p].next \in B /\ p + Header < m[p].next
        /\ \A q \in B : q <= p \/ m[p].next <= q
  BY DEF BlockChain, NextRises
<1>3. p \in 0 .. End /\ m[p].next \in 0 .. End
  BY <1>1, <1>2
<1> QED BY <1>1, <1>2, <1>3

(* Two blocks do not overlap.                                              *)
LEMMA Disjoint ==
  ASSUME NEW m, NEW B, BlockChain(m, B), NEW p \in B \ {End}, NEW q \in B \ {End}, p # q
  PROVE  m[p].next <= q \/ m[q].next <= p
BY BlockFacts

(* A change of what no walk looks at.                                      *)
LEMMA SameLinks ==
  ASSUME NEW m, NEW B, BlockChain(m, B), NEW n, n = [q \in 0 .. End |-> n[q]], n[End].used,
         \A p \in B : n[p] \in Node /\ n[p].next = m[p].next /\ n[p].prev = m[p].prev
  PROVE  BlockChain(n, B)
<1>1. NextRises(n, B)
  BY DEF BlockChain, NextRises
<1>2. PrevAgrees(n, B)
  <2> SUFFICES ASSUME NEW p \in B \ {0, End}
               PROVE  n[p].prev \in B \ {End} /\ n[n[p].prev].next = p
    BY DEF PrevAgrees
  <2>1. m[p].prev \in B \ {End} /\ m[m[p].prev].next = p
    BY DEF BlockChain, PrevAgrees
  <2> QED BY <2>1
<1> QED BY <1>1, <1>2 DEF BlockChain

(* CutAt, header by header.                                                *)
LEMMA CutFacts ==
  ASSUME NEW m, NEW B, BlockChain(m, B), NEW p \in B \ {End}, NEW r \in Int,
         p + Header < r, r + Header < m[p].next
  PROVE  /\ r \in 0 .. End /\ r \notin B /\ p < r /\ r < m[p].next
         /\ CutAt(m, p, r) = [q \in 0 .. End |-> CutAt(m, p, r)[q]]
         /\ CutAt(m, p, r)[r] = [next |-> m[p].next, prev |-> p, used |-> FALSE]
         /\ CutAt(m, p, r)[p] = [m[p] EXCEPT !.next = r]
         /\ m[p].next # End => CutAt(m, p, r)[m[p].next] = [m[m[p].next] EXCEPT !.prev = r]
         /\ \A q \in 0 .. End : q # p /\ q # r /\ (q # m[p].next \/ q = End)
                                  => CutAt(m, p, r)[q] = m[q]
<1> DEFINE n == m[p].next
<1>1. /\ p \in Nat /\ p < End /\ n \in B /\ n \in Nat /\ n <= End /\ p < n
      /\ \A q \in B : q <= p \/ n <= q
  BY BlockFacts
<1>2. Header \in Nat \ {0} /\ End \in Nat /\ B \subseteq 0 .. End /\ m = [q \in 0 .. End |-> m[q]]
  BY HeapSizesAre DEF BlockChain
<1>3. p < r /\ r < n /\ r + Header < n /\ p + Header < r
  BY <1>1, <1>2
<1>4. r \in 0 .. End /\ r \notin B /\ r # p /\ r # n /\ p # n
  <2> HIDE DEF n
  <2>1. r \in 0 .. End /\ r # p /\ r # n /\ p # n
    BY <1>1, <1>2, <1>3
  <2>2. ~ (r <= p \/ n <= r)
    BY <1>1, <1>3
  <2> QED BY <1>1, <2>1, <2>2
<1> DEFINE cut == [m EXCEPT ![r] = [next |-> n, prev |-> p, used |-> FALSE], ![p].next = r]
<1>5. p \in 0 .. End /\ n \in 0 .. End
  BY <1>1, <1>2
<1>6. /\ cut = [q \in 0 .. End |-> cut[q]]
      /\ cut[r] = [next |-> n, prev |-> p, used |-> FALSE]
      /\ cut[p] = [m[p] EXCEPT !.next = r]
      /\ \A q \in 0 .. End : q # p /\ q # r => cut[q] = m[q]
  BY <1>2, <1>4, <1>5
<1> HIDE DEF cut
<1>7. CutAt(m, p, r) = IF n # End THEN [cut EXCEPT ![n].prev = r] ELSE cut
  BY DEF CutAt, cut
<1>8. CASE n = End
  BY <1>3, <1>4, <1>6, <1>7, <1>8
<1>9. CASE n # End
  <2> DEFINE c == [cut EXCEPT ![n].prev = r]
  <2>1. /\ c = [q \in 0 .. End |-> c[q]]
        /\ c[n] = [cut[n] EXCEPT !.prev = r]
        /\ \A q \in 0 .. End : q # n => c[q] = cut[q]
    BY <1>5, <1>6
  <2>2. CutAt(m, p, r) = c
    BY <1>7, <1>9
  <2> HIDE DEF c
  <2>3. cut[n] = m[n]
    BY <1>4, <1>5, <1>6
  <2>4. c[r] = cut[r] /\ c[p] = cut[p]
    BY <1>4, <1>5, <2>1
  <2>5. \A q \in 0 .. End : q # p /\ q # r /\ (q # n \/ q = End) => c[q] = m[q]
    BY <1>6, <1>9, <2>1
  <2> QED BY <1>3, <1>4, <1>6, <1>9, <2>1, <2>2, <2>3, <2>4, <2>5
<1> QED BY <1>8, <1>9

(* A block cut in two is two blocks of the chain.                          *)
IsCut(c, m, B, p, r) ==
  /\ BlockChain(c, B \union {r})
  /\ c[p].next = r /\ c[r].next = m[p].next /\ ~ c[r].used
  /\ \A q \in B : c[q].used = m[q].used /\ (q # p => c[q].next = m[q].next)
  /\ r \in 0 .. End /\ r \notin B /\ p < r /\ r < m[p].next
  /\ \A q \in 0 .. End : q \notin B /\ q # r => c[q] = m[q]

LEMMA CutChain ==
  ASSUME NEW m, NEW B, BlockChain(m, B), NEW p \in B \ {End}, NEW r \in Int,
         p + Header < r, r + Header < m[p].next
  PROVE  IsCut(CutAt(m, p, r), m, B, p, r)
<1> DEFINE n == m[p].next
           c == CutAt(m, p, r)
           D == B \union {r}
<1>1. /\ r \in 0 .. End /\ r \notin B /\ p < r /\ r < n
      /\ c = [q \in 0 .. End |-> c[q]]
      /\ c[r] = [next |-> n, prev |-> p, used |-> FALSE]
      /\ c[p] = [m[p] EXCEPT !.next = r]
      /\ n # End => c[n] = [m[n] EXCEPT !.prev = r]
      /\ \A q \in 0 .. End : q # p /\ q # r /\ (q # n \/ q = End) => c[q] = m[q]
  BY CutFacts
<1>2. /\ p \in Nat /\ p < End /\ n \in B /\ n \in Nat /\ n <= End /\ p < n
      /\ \A q \in B : q <= p \/ n <= q
  BY BlockFacts
<1>3. /\ Header \in Nat \ {0} /\ End \in Nat /\ B \subseteq 0 .. End
      /\ 0 \in B /\ End \in B /\ m[End].next = End /\ m[0].prev = 0 /\ m[End].used
      /\ \A q \in B : m[q] \in Node
      /\ NextRises(m, B) /\ PrevAgrees(m, B)
  BY HeapSizesAre DEF BlockChain
<1> HIDE DEF c
<1>4. p # n /\ p # End /\ p # r /\ r # n /\ r # End /\ r # 0 /\ n # 0
  BY <1>1, <1>2, <1>3
<1>5. c[r] \in Node /\ c[r].next = n /\ c[r].prev = p /\ ~ c[r].used
  <2> HIDE DEF n
  <2>1. p \in 0 .. End /\ n \in 0 .. End
    BY <1>2, <1>3
  <2>2. c[r] = [next |-> n, prev |-> p, used |-> FALSE]
    BY <1>1
  <2>3. c[r].next = n /\ c[r].prev = p
    BY <2>2
  <2>4. c[r].used = FALSE
    BY <2>2
  <2>5. [next |-> n, prev |-> p, used |-> FALSE] \in Node
    BY <2>1 DEF Node
  <2> QED BY <2>2, <2>3, <2>4, <2>5
<1>6. c[p] \in Node /\ c[p].next = r /\ c[p].prev = m[p].prev /\ c[p].used = m[p].used
  BY <1>1, <1>3 DEF Node
<1>7. /\ n # End => c[n].prev = r
      /\ c[n] \in Node /\ c[n].next = m[n].next /\ c[n].used = m[n].used
  <2>1. CASE n = End
    BY <1>1, <1>2, <1>3, <1>4, <2>1
  <2>2. CASE n # End
    BY <1>1, <1>2, <1>3, <2>2 DEF Node
  <2> QED BY <2>1, <2>2
<1>8. \A q \in B : q # p /\ q # n => c[q] = m[q]
  BY <1>1, <1>3
<1>9. \A q \in B : /\ c[q] \in Node /\ c[q].used = m[q].used
                   /\ q # p => c[q].next = m[q].next
                   /\ q # n => c[q].prev = m[q].prev
  BY <1>3, <1>6, <1>7, <1>8
<1>10. NextRises(c, D)
  <2> SUFFICES ASSUME NEW q \in D \ {End}
               PROVE  c[q].next \in D /\ q + Header < c[q].next
                      /\ \A s \in D : s <= q \/ c[q].next <= s
    BY DEF NextRises
  <2>1. CASE q = r
    BY <1>1, <1>2, <1>3, <1>5, <2>1
  <2>2. CASE q = p
    BY <1>1, <1>2, <1>3, <1>6, <2>2
  <2>3. CASE q # r /\ q # p
    <3>1. q \in B \ {End} /\ c[q].next = m[q].next
      BY <1>9, <2>3
    <3>2. m[q].next \in B /\ q + Header < m[q].next /\ \A s \in B : s <= q \/ m[q].next <= s
      BY <1>3, <3>1 DEF NextRises
    <3>3. m[q].next <= p \/ n <= q
      BY <2>3, <3>1, Disjoint
    <3>4. q \in Nat /\ m[q].next \in Nat
      BY <3>1, BlockFacts
    <3>5. r <= q \/ m[q].next <= r
      BY <1>1, <1>2, <3>3, <3>4
    <3> QED BY <3>1, <3>2, <3>5
  <2> QED BY <2>1, <2>2, <2>3
<1>11. PrevAgrees(c, D)
  <2> SUFFICES ASSUME NEW q \in D \ {0, End}
               PROVE  c[q].prev \in D \ {End} /\ c[c[q].prev].next = q
    BY DEF PrevAgrees
  <2>1. CASE q = r
    BY <1>2, <1>4, <1>5, <1>6, <2>1
  <2>2. CASE q = n
    BY <1>4, <1>5, <1>7, <2>2
  <2>3. CASE q # r /\ q # n
    <3>1. q \in B \ {0, End} /\ c[q].prev = m[q].prev
      BY <1>9, <2>3
    <3>2. m[q].prev \in B \ {End} /\ m[m[q].prev].next = q
      BY <1>3, <3>1 DEF PrevAgrees
    <3>3. m[q].prev # p
      BY <2>3, <3>2
    <3> QED BY <1>9, <3>1, <3>2, <3>3
  <2> QED BY <2>1, <2>2, <2>3
<1>12. c[End].next = End /\ c[End].used /\ c[0].prev = 0
  BY <1>3, <1>4, <1>9
<1>13. BlockChain(c, D)
  BY <1>1, <1>3, <1>5, <1>9, <1>10, <1>11, <1>12 DEF BlockChain
<1>14. \A q \in 0 .. End : q \notin B /\ q # r => c[q] = m[q]
  BY <1>1, <1>2
<1> QED BY <1>1, <1>5, <1>6, <1>9, <1>13, <1>14 DEF c, n, IsCut

(* A block joined to the one after it.                                     *)
Joined(m, p) == [m EXCEPT ![p].next = m[m[p].next].next, ![m[m[p].next].next].prev = p]

LEMMA JoinChain ==
  ASSUME NEW m, NEW B, BlockChain(m, B), NEW p \in B \ {End}, m[p].next # End
  PROVE  /\ BlockChain(Joined(m, p), B \ {m[p].next})
         /\ Joined(m, p)[p].next = m[m[p].next].next
         /\ \A q \in B \ {m[p].next} :
              /\ Joined(m, p)[q].used = m[q].used
              /\ q # p => Joined(m, p)[q].next = m[q].next
         /\ \A q \in 0 .. End : q \notin B => Joined(m, p)[q] = m[q]
<1> DEFINE n == m[p].next
           o == m[n].next
           c == Joined(m, p)
           D == B \ {n}
<1>1. /\ p \in Nat /\ p < End /\ n \in B /\ n \in Nat /\ n <= End /\ p < n /\ p + Header < n
      /\ \A q \in B : q <= p \/ n <= q
  BY BlockFacts
<1>2. /\ n \in B \ {End} /\ o \in B /\ o \in Nat /\ o <= End /\ n < o /\ n + Header < o
      /\ \A q \in B : q <= n \/ o <= q
  <2>1. n \in B \ {End}
    BY <1>1
  <2> HIDE DEF n
  <2> QED BY <2>1, BlockFacts
<1>3. /\ Header \in Nat \ {0} /\ End \in Nat /\ B \subseteq 0 .. End
      /\ 0 \in B /\ End \in B /\ m[End].next = End /\ m[0].prev = 0 /\ m[End].used
      /\ m = [q \in 0 .. End |-> m[q]]
      /\ \A q \in B : m[q] \in Node
      /\ NextRises(m, B) /\ PrevAgrees(m, B)
  BY HeapSizesAre DEF BlockChain
<1>4. c = [m EXCEPT ![p].next = o, ![o].prev = p]
  BY DEF Joined
<1> HIDE DEF c, o, n
<1>5. p \in 0 .. End /\ n \in 0 .. End /\ o \in 0 .. End /\ p # o /\ p # n /\ n # o /\ p # End
  BY <1>1, <1>2, <1>3
<1>6. /\ c = [q \in 0 .. End |-> c[q]]
      /\ c[p] = [m[p] EXCEPT !.next = o]
      /\ c[o] = [m[o] EXCEPT !.prev = p]
      /\ \A q \in 0 .. End : q # p /\ q # o => c[q] = m[q]
  BY <1>3, <1>4, <1>5
<1>7. c[p] \in Node /\ c[p].next = o /\ c[p].prev = m[p].prev /\ c[p].used = m[p].used
  <2>1. m[p] \in Node
    BY <1>3
  <2> QED BY <1>5, <1>6, <2>1 DEF Node
<1>8. c[o] \in Node /\ c[o].next = m[o].next /\ c[o].prev = p /\ c[o].used = m[o].used
  <2>1. m[o] \in Node
    BY <1>2, <1>3
  <2> QED BY <1>5, <1>6, <2>1 DEF Node
<1>9. \A q \in B : /\ c[q] \in Node /\ c[q].used = m[q].used
                   /\ q # p => c[q].next = m[q].next
                   /\ q # o => c[q].prev = m[q].prev
  <2> TAKE q \in B
  <2>1. CASE q = p
    BY <1>5, <1>7, <2>1
  <2>2. CASE q = o
    BY <1>5, <1>8, <2>2
  <2>3. CASE q # p /\ q # o
    BY <1>3, <1>6, <2>3
  <2> QED BY <2>1, <2>2, <2>3
<1>10. NextRises(c, D)
  <2> SUFFICES ASSUME NEW q \in D \ {End}
               PROVE  c[q].next \in D /\ q + Header < c[q].next
                      /\ \A s \in D : s <= q \/ c[q].next <= s
    BY DEF NextRises
  <2>1. CASE q = p
    <3>1. c[q].next = o /\ o \in D /\ p + Header < o
      BY <1>1, <1>2, <1>3, <1>5, <1>7, <2>1
    <3>2. ASSUME NEW s \in D PROVE s <= p \/ o <= s
      <4>1. s \in B /\ s # n /\ s \in Int
        BY <1>3
      <4>2. (s <= p \/ n <= s) /\ (s <= n \/ o <= s)
        BY <1>1, <1>2, <4>1
      <4> QED BY <1>1, <1>2, <4>1, <4>2
    <3> QED BY <2>1, <3>1, <3>2
  <2>2. CASE q # p
    <3>1. q \in B \ {End} /\ c[q].next = m[q].next
      BY <1>9, <2>2
    <3>2. m[q].next \in B /\ q + Header < m[q].next /\ \A s \in B : s <= q \/ m[q].next <= s
      BY <1>3, <3>1 DEF NextRises
    <3>3. m[q].next <= p \/ n <= q
      BY <2>2, <3>1, Disjoint DEF n
    <3>4. q \in Nat /\ m[q].next \in Nat /\ q < m[q].next /\ q # n
      BY <3>1, BlockFacts
    <3>5. m[q].next # n
      BY <1>1, <3>3, <3>4
    <3> QED BY <3>1, <3>2, <3>5
  <2> QED BY <2>1, <2>2
<1>11. PrevAgrees(c, D)
  <2> SUFFICES ASSUME NEW q \in D \ {0, End}
               PROVE  c[q].prev \in D \ {End} /\ c[c[q].prev].next = q
    BY DEF PrevAgrees
  <2>1. CASE q = o
    BY <1>1, <1>5, <1>7, <1>8, <2>1
  <2>2. CASE q # o
    <3>1. q \in B \ {0, End} /\ c[q].prev = m[q].prev /\ q # n
      BY <1>9, <2>2
    <3>2. m[q].prev \in B \ {End} /\ m[m[q].prev].next = q
      BY <1>3, <3>1 DEF PrevAgrees
    <3>3. m[q].prev # p /\ m[q].prev # n
      BY <2>2, <3>1, <3>2 DEF n, o
    <3> QED BY <1>9, <3>1, <3>2, <3>3
  <2> QED BY <2>1, <2>2
<1>12. c[End].next = End /\ c[End].used /\ c[0].prev = 0
  <2>1. o # 0 /\ End # p
    BY <1>1, <1>2, <1>5
  <2> QED BY <1>3, <1>9, <2>1
<1>13. 0 \in D /\ End \in D
  BY <1>1, <1>2, <1>3
<1>14. BlockChain(c, D)
  BY <1>3, <1>6, <1>9, <1>10, <1>11, <1>12, <1>13 DEF BlockChain
<1>15. \A q \in 0 .. End : q \notin B => c[q] = m[q]
  BY <1>2, <1>6
<1> QED BY <1>7, <1>9, <1>14, <1>15 DEF c, n, o
----------------------------------------------------------------------------
(* Which blocks are in use, that no two free ones are neighbours, and      *)
(* where the free ones begin.                                              *)
UsedIn(m, B) == {p \in B \ {End} : m[p].used}

Lowest(m, B, l) ==
  /\ l \in B
  /\ l # End => ~ m[l].used
  /\ \A q \in B : ~ m[q].used => l <= q

(* No free block has a free neighbour, p and those in S left aside.        *)
ApartBut(m, B, S) ==
  \A q \in B \ {End} :
    ~ m[q].used /\ m[q].next # End /\ q \notin S /\ m[q].next \notin S => m[m[q].next].used

LEMMA Successor ==
  ASSUME NEW m, NEW B, BlockChain(m, B), NEW p \in B \ {End}, NEW q \in B \ {End},
         m[p].next = m[q].next
  PROVE  p = q
<1>1. p < m[p].next /\ q < m[q].next /\ p \in Nat /\ q \in Nat /\ m[p].next \in Nat
  BY BlockFacts
<1> QED BY <1>1, Disjoint

(* Two free neighbours joined.                                             *)
LEMMA JoinFree ==
  ASSUME NEW m, NEW B, BlockChain(m, B), NEW p \in B \ {End}, ~ m[p].used,
         m[p].next # End, ~ m[m[p].next].used, NEW l, Lowest(m, B, l)
  PROVE  /\ l # m[p].next
         /\ Lowest(Joined(m, p), B \ {m[p].next}, l)
         /\ UsedIn(Joined(m, p), B \ {m[p].next}) = UsedIn(m, B)
         /\ \A q \in UsedIn(m, B) : Joined(m, p)[q].next = m[q].next
<1> DEFINE n == m[p].next
           c == Joined(m, p)
           D == B \ {n}
<1>1. \A q \in D : c[q].used = m[q].used /\ (q # p => c[q].next = m[q].next)
  <2>1. \A q \in B \ {m[p].next} :
          /\ Joined(m, p)[q].used = m[q].used
          /\ q # p => Joined(m, p)[q].next = m[q].next
    <3>1. BlockChain(m, B) /\ p \in B \ {End} /\ m[p].next # End
      OBVIOUS
    <3> HIDE DEF n, c, D
    <3>2. /\ BlockChain(Joined(m, p), B \ {m[p].next})
          /\ Joined(m, p)[p].next = m[m[p].next].next
          /\ \A q \in B \ {m[p].next} :
               /\ Joined(m, p)[q].used = m[q].used
               /\ q # p => Joined(m, p)[q].next = m[q].next
          /\ \A q \in 0 .. End : q \notin B => Joined(m, p)[q] = m[q]
      BY <3>1, JoinChain
    <3> QED BY <3>2
  <2> QED BY <2>1
<1>2. p \in Nat /\ n \in B /\ n \in Nat /\ p < n
  BY BlockFacts
<1>3. l \in B /\ (l # End => ~ m[l].used) /\ \A q \in B : ~ m[q].used => l <= q
  BY DEF Lowest
<1> HIDE DEF c, n
<1>4. l <= p
  BY <1>3
<1>5. B \subseteq 0 .. End /\ End \in Nat
  BY HeapSizesAre DEF BlockChain
<1>6. l \in Int /\ l # n
  BY <1>2, <1>3, <1>4, <1>5
<1>7. Lowest(c, D, l)
  BY <1>1, <1>3, <1>6 DEF Lowest
<1>8. ~ m[n].used /\ n # End
  BY DEF n
<1>9. UsedIn(c, D) = UsedIn(m, B)
  <2>1. ASSUME NEW q PROVE q \in UsedIn(c, D) <=> q \in UsedIn(m, B)
    <3>1. CASE q \in D
      BY <1>1, <3>1 DEF UsedIn
    <3>2. CASE q = n
      BY <1>8, <3>2 DEF UsedIn
    <3>3. CASE q \notin D /\ q # n
      BY <3>3 DEF UsedIn
    <3> QED BY <3>1, <3>2, <3>3
  <2> QED BY <2>1
<1>10. \A q \in UsedIn(m, B) : c[q].next = m[q].next
  <2> TAKE q \in UsedIn(m, B)
  <2>1. q \in B /\ q # n /\ q # p
    BY <1>8 DEF UsedIn
  <2> QED BY <1>1, <2>1
<1> QED BY <1>6, <1>7, <1>9, <1>10 DEF c, n

(* plug_holes after a block became free.                                   *)
LEMMA PluggedFacts ==
  ASSUME NEW m, NEW B, BlockChain(m, B), NEW p \in B \ {End}, ~ m[p].used,
         NEW l, Lowest(m, B, l), ApartBut(m, B, {p})
  PROVE  \E D \in SUBSET B :
           /\ BlockChain(Plugged(m, l, p).mem, D)
           /\ Lowest(Plugged(m, l, p).mem, D, Plugged(m, l, p).lfree)
           /\ ApartBut(Plugged(m, l, p).mem, D, {})
           /\ UsedIn(Plugged(m, l, p).mem, D) = UsedIn(m, B)
           /\ \A q \in UsedIn(m, B) : Plugged(m, l, p).mem[q].next = m[q].next
           /\ \A q \in 0 .. End : q \notin B => Plugged(m, l, p).mem[q] = m[q]
<1> DEFINE n == m[p].next
           forward == n # p /\ ~ m[n].used /\ n # End
           fwd == IF forward THEN Joined(m, p) ELSE m
           D1 == IF forward THEN B \ {n} ELSE B
           b == fwd[p].prev
           backward == b # p /\ ~ fwd[b].used
           bwd == IF backward THEN Joined(fwd, b) ELSE fwd
           D2 == IF backward THEN D1 \ {p} ELSE D1
<1>1. /\ p \in Nat /\ p < End /\ n \in B /\ n \in Nat /\ n <= End /\ p < n
  BY BlockFacts
<1>2. /\ BlockChain(fwd, D1) /\ Lowest(fwd, D1, l) /\ UsedIn(fwd, D1) = UsedIn(m, B)
      /\ \A q \in UsedIn(m, B) : fwd[q].next = m[q].next
      /\ \A q \in 0 .. End : q \notin B => fwd[q] = m[q]
      /\ forward => l # n
      /\ p \in D1 \ {End} /\ ~ fwd[p].used
      /\ ApartBut(fwd, D1, {}) \/ ApartBut(fwd, D1, {p})
      /\ \A q \in D1 \ {End} :
           ~ fwd[q].used /\ fwd[q].next # End /\ fwd[q].next # p => fwd[fwd[q].next].used
  <2>1. CASE forward
    <3>1. fwd = Joined(m, p) /\ D1 = B \ {n} /\ n # End /\ ~ m[n].used
      BY <2>1
    <3> HIDE DEF fwd, D1
    <3>2. /\ BlockChain(fwd, D1) /\ fwd[p].next = m[n].next
          /\ \A q \in D1 : fwd[q].used = m[q].used /\ (q # p => fwd[q].next = m[q].next)
          /\ \A q \in 0 .. End : q \notin B => fwd[q] = m[q]
      BY <3>1, JoinChain
    <3>3. /\ l # n /\ Lowest(fwd, D1, l) /\ UsedIn(fwd, D1) = UsedIn(m, B)
          /\ \A q \in UsedIn(m, B) : fwd[q].next = m[q].next
      BY <3>1, JoinFree
    <3>4. p \in D1 \ {End} /\ ~ fwd[p].used
      BY <1>1, <3>1, <3>2
    <3>5. ASSUME NEW q \in D1 \ {End}, ~ fwd[q].used, fwd[q].next # End, fwd[q].next # p
          PROVE  fwd[fwd[q].next].used
      <4>1. fwd[q].next \in D1 /\ q \in B \ {End} /\ ~ m[q].used
        BY <3>1, <3>2, <3>5, BlockFacts
      <4>2. CASE q = p
        <5>1. fwd[q].next = m[n].next /\ n \in B \ {End}
          BY <1>1, <3>1, <3>2, <4>2
        <5>2. n < m[n].next /\ m[n].next \in Nat
          BY <5>1, BlockFacts
        <5>3. m[n].next \notin {p} /\ n \notin {p}
          BY <1>1, <5>2
        <5>4. m[m[n].next].used
          BY <3>1, <3>5, <5>1, <5>3 DEF ApartBut
        <5> QED BY <3>2, <4>1, <5>1, <5>4
      <4>3. CASE q # p
        <5>1. fwd[q].next = m[q].next
          BY <3>2, <4>3
        <5>2. m[m[q].next].used
          BY <3>5, <4>1, <4>3, <5>1 DEF ApartBut
        <5> QED BY <3>2, <4>1, <5>1, <5>2
      <4> QED BY <4>2, <4>3
    <3>6. ApartBut(fwd, D1, {p})
      BY <3>5 DEF ApartBut
    <3> QED BY <3>2, <3>3, <3>4, <3>5, <3>6
  <2>2. CASE ~ forward
    <3>1. fwd = m /\ D1 = B /\ (n = End \/ m[n].used)
      BY <1>1, <2>2
    <3> HIDE DEF fwd, D1
    <3>2. ASSUME NEW q \in B \ {End}, ~ m[q].used, m[q].next # End, m[q].next # p
          PROVE  m[m[q].next].used
      <4>1. CASE q = p
        BY <3>1, <3>2, <4>1
      <4>2. CASE q # p
        BY <3>2, <4>2 DEF ApartBut
      <4> QED BY <4>1, <4>2
    <3> QED BY <2>2, <3>1, <3>2
  <2> QED BY <2>1, <2>2
<1>3. Plugged(m, l, p).mem = bwd /\ Plugged(m, l, p).lfree = l
  <2>1. l <= p /\ l \in Nat
    <3>1. l \in B /\ l <= p
      BY DEF Lowest
    <3> QED BY <3>1, HeapSizesAre DEF BlockChain
  <2>2. ~ (forward /\ l = n)
    BY <1>2
  <2>3. ~ (backward /\ l = p)
    <3> SUFFICES ASSUME b # p, ~ fwd[b].used PROVE l # p
      OBVIOUS
    <3> HIDE DEF fwd, D1, b
    <3>1. p # 0
      BY <1>2 DEF BlockChain, b
    <3>2. b \in D1 \ {End} /\ fwd[b].next = p
      BY <1>2, <3>1 DEF BlockChain, PrevAgrees, b
    <3>3. b < p /\ b \in Nat
      BY <1>2, <3>2, BlockFacts
    <3>4. l <= b
      BY <1>2, <3>2 DEF Lowest
    <3> QED BY <1>1, <2>1, <3>3, <3>4
  <2> DEFINE l1 == IF forward /\ l = n THEN p ELSE l
  <2>4. l1 = l
    BY <2>2
  <2>5. Plugged(m, l, p) =
          [mem |-> IF backward
                     THEN [fwd EXCEPT ![b].next = fwd[p].next, ![fwd[p].next].prev = b] ELSE fwd,
           lfree |-> IF backward /\ l1 = p THEN b ELSE l1]
    BY DEF Plugged, Joined
  <2>6. backward => fwd[b].next = p
    <3> SUFFICES ASSUME b # p PROVE fwd[b].next = p
      OBVIOUS
    <3> HIDE DEF fwd, D1, b
    <3>1. p # 0
      BY <1>2 DEF BlockChain, b
    <3> QED BY <1>2, <3>1 DEF BlockChain, PrevAgrees, b
  <2> HIDE DEF l1, fwd, b
  <2>7. backward => Joined(fwd, b) = [fwd EXCEPT ![b].next = fwd[p].next, ![fwd[p].next].prev = b]
    BY <2>6 DEF Joined
  <2> QED BY <2>3, <2>4, <2>5, <2>7
<1> HIDE DEF fwd, D1
<1>4. CASE backward
  <2>1. bwd = Joined(fwd, b) /\ D2 = D1 \ {p} /\ b # p /\ ~ fwd[b].used
    BY <1>4
  <2>2. p # 0
    BY <1>2, <2>1 DEF BlockChain
  <2>3. b \in D1 \ {End} /\ fwd[b].next = p /\ p # End
    BY <1>2, <2>2 DEF BlockChain, PrevAgrees
  <2> HIDE DEF bwd, D2, b
  <2>4. /\ BlockChain(bwd, D2) /\ bwd[b].next = fwd[p].next
        /\ \A q \in D2 : bwd[q].used = fwd[q].used /\ (q # b => bwd[q].next = fwd[q].next)
        /\ \A q \in 0 .. End : q \notin D1 => bwd[q] = fwd[q]
    BY <1>2, <2>1, <2>3, JoinChain
  <2>5. /\ Lowest(bwd, D2, l) /\ UsedIn(bwd, D2) = UsedIn(fwd, D1)
        /\ \A q \in UsedIn(fwd, D1) : bwd[q].next = fwd[q].next
    <3>1. BlockChain(fwd, D1) /\ Lowest(fwd, D1, l)
      BY <1>2
    <3>2. fwd[b].next # End /\ ~ fwd[b].used /\ ~ fwd[fwd[b].next].used
      BY <1>2, <2>1, <2>3
    <3>3. /\ Lowest(Joined(fwd, b), D1 \ {fwd[b].next}, l)
          /\ UsedIn(Joined(fwd, b), D1 \ {fwd[b].next}) = UsedIn(fwd, D1)
          /\ \A q \in UsedIn(fwd, D1) : Joined(fwd, b)[q].next = fwd[q].next
      BY <2>3, <3>1, <3>2, JoinFree
    <3> QED BY <2>1, <2>3, <3>3
  <2>6. D2 \subseteq B
    BY <2>1 DEF D1
  <2>7. \A q \in 0 .. End : q \notin B => bwd[q] = m[q]
    BY <1>2, <2>4 DEF D1
  <2>8. ApartBut(bwd, D2, {})
    <3> SUFFICES ASSUME NEW q \in D2 \ {End}, ~ bwd[q].used, bwd[q].next # End
                 PROVE  bwd[bwd[q].next].used
      BY DEF ApartBut
    <3>1. bwd[q].next \in D2 /\ q \in D1 \ {End} /\ ~ fwd[q].used
      BY <2>1, <2>4, BlockFacts
    <3>2. CASE q = b
      <4>1. bwd[q].next = fwd[p].next
        BY <2>4, <3>2
      <4>2. p < fwd[p].next
        BY <1>2, BlockFacts
      <4>3. fwd[fwd[p].next].used
        BY <1>1, <1>2, <4>1, <4>2
      <4> QED BY <2>4, <3>1, <4>1, <4>3
    <3>3. CASE q # b
      <4>1. bwd[q].next = fwd[q].next /\ fwd[q].next # p
        BY <2>1, <2>4, <3>1, <3>3
      <4>2. fwd[fwd[q].next].used
        BY <1>2, <3>1, <4>1
      <4> QED BY <2>4, <3>1, <4>1, <4>2
    <3> QED BY <3>2, <3>3
  <2>9. \A q \in UsedIn(m, B) : bwd[q].next = m[q].next
    BY <1>2, <2>5
  <2>10. D2 \in SUBSET B
    BY <2>6
  <2> QED BY <1>2, <1>3, <2>4, <2>5, <2>7, <2>8, <2>9, <2>10
<1>5. CASE ~ backward
  <2>1. bwd = fwd /\ D2 = D1 /\ (b = p \/ fwd[b].used)
    BY <1>5
  <2>2. ApartBut(fwd, D1, {})
    <3> SUFFICES ASSUME NEW q \in D1 \ {End}, ~ fwd[q].used, fwd[q].next # End
                 PROVE  fwd[fwd[q].next].used
      BY DEF ApartBut
    <3>1. CASE fwd[q].next # p
      BY <1>2, <3>1
    <3>2. CASE fwd[q].next = p
      <4>1. q < p /\ q \in Nat
        BY <1>2, <3>2, BlockFacts
      <4>2. p \in D1 \ {0, End}
        BY <1>2, <4>1
      <4>3. b \in D1 \ {End} /\ fwd[b].next = p
        BY <1>2, <4>2 DEF BlockChain, PrevAgrees
      <4>4. b = q
        BY <1>2, <3>2, <4>3, Successor
      <4> QED BY <2>1, <4>1, <4>4
    <3> QED BY <3>1, <3>2
  <2>3. D1 \in SUBSET B
    BY DEF D1
  <2> QED BY <1>2, <1>3, <2>1, <2>2, <2>3
<1> QED BY <1>4, <1>5

(* The room of a set of blocks, and what one more block adds to it.        *)
RoomOf(m, U) == UNION {p .. m[p].next - 1 : p \in U}

LEMMA RoomFinite ==
  ASSUME NEW m, NEW B, BlockChain(m, B), NEW U \in SUBSET (B \ {End})
  PROVE  IsFiniteSet(RoomOf(m, U)) /\ Cardinality(RoomOf(m, U)) \in Nat
<1>1. RoomOf(m, U) \subseteq 0 .. End
  <2> SUFFICES ASSUME NEW p \in U, NEW q \in p .. m[p].next - 1 PROVE q \in 0 .. End
    BY DEF RoomOf
  <2>1. p \in Nat /\ m[p].next \in Nat /\ m[p].next <= End
    BY BlockFacts
  <2> QED BY <2>1, HeapSizesAre
<1>2. IsFiniteSet(0 .. End)
  BY HeapSizesAre, FS_Interval
<1> QED BY <1>1, <1>2, FS_Subset, FS_CardinalityType

LEMMA RoomAdd ==
  ASSUME NEW m, NEW B, BlockChain(m, B), NEW U \in SUBSET (B \ {End}), NEW p \in B \ {End}, p \notin U
  PROVE  Cardinality(RoomOf(m, U \union {p})) = Cardinality(RoomOf(m, U)) + (m[p].next - p)
<1> DEFINE I == p .. m[p].next - 1
<1>1. RoomOf(m, U \union {p}) = RoomOf(m, U) \union I
  BY DEF RoomOf
<1>2. p \in Nat /\ m[p].next \in Nat /\ p < m[p].next
  BY BlockFacts
<1>3. IsFiniteSet(I) /\ Cardinality(I) = m[p].next - p
  <2>1. PICK b \in Int : b = m[p].next - 1 /\ p <= b
    BY <1>2
  <2>2. IsFiniteSet(p .. b) /\ Cardinality(p .. b) = b - p + 1
    <3>1. p \in Int /\ ~ (p > b)
      BY <1>2, <2>1
    <3> QED BY <3>1, FS_Interval
  <2>3. I = p .. b
    BY <2>1
  <2> HIDE DEF I
  <2> QED BY <1>2, <2>1, <2>2, <2>3
<1>4. RoomOf(m, U) \intersect I = {}
  <2> SUFFICES ASSUME NEW q \in U, NEW x \in q .. m[q].next - 1, x \in I PROVE FALSE
    BY DEF RoomOf
  <2>1. m[p].next <= q \/ m[q].next <= p
    BY Disjoint
  <2>2. q \in Nat /\ m[q].next \in Nat
    BY BlockFacts
  <2> QED BY <1>2, <2>1, <2>2
<1>5. IsFiniteSet(RoomOf(m, U)) /\ Cardinality(RoomOf(m, U)) \in Nat
  BY RoomFinite
<1> HIDE DEF I
<1>6. Cardinality(RoomOf(m, U) \union I) = Cardinality(RoomOf(m, U)) + Cardinality(I)
  <2>1. Cardinality(RoomOf(m, U) \union I)
          = Cardinality(RoomOf(m, U)) + Cardinality(I) - Cardinality(RoomOf(m, U) \intersect I)
    BY <1>3, <1>5, FS_Union
  <2>2. Cardinality(RoomOf(m, U) \intersect I) = 0
    BY <1>4, FS_EmptySet
  <2> QED BY <1>2, <1>3, <1>5, <2>1, <2>2
<1> QED BY <1>1, <1>3, <1>6

LEMMA RoomSame ==
  ASSUME NEW m, NEW n, NEW U, \A q \in U : n[q].next = m[q].next
  PROVE  RoomOf(n, U) = RoomOf(m, U)
BY DEF RoomOf

(* What the next call finds.                                               *)
Sound(m, B, l) == BlockChain(m, B) /\ Lowest(m, B, l) /\ ApartBut(m, B, {})

(* The lowest free block, found by walking.                                *)
LEMMA MinFacts ==
  ASSUME NEW S \in SUBSET Nat, S # {}
  PROVE  Min(S) \in S /\ \A x \in S : Min(S) <= x
<1>1. \E x \in S : \A y \in S : x <= y
  BY LeastNatural
<1> QED BY <1>1 DEF Min

LEMMA LowestFreeFacts ==
  ASSUME NEW m, NEW B, BlockChain(m, B), NEW p \in B, \A q \in B : ~ m[q].used => p <= q
  PROVE  Lowest(m, B, LowestFree(m, p))
<1> DEFINE S == {q \in Reach(m, p) : ~ m[q].used} \union {End}
<1>1. Reach(m, p) = {q \in B : p <= q}
  BY ReachFacts
<1>2. B \subseteq 0 .. End /\ End \in Nat /\ End \in B
  BY HeapSizesAre DEF BlockChain
<1>3. S \in SUBSET Nat /\ S # {}
  <2>1. S \subseteq B
    BY <1>1, <1>2
  <2>2. \A q \in B : q \in Nat
    BY <1>2
  <2> QED BY <2>1, <2>2
<1> HIDE DEF S
<1>4. Min(S) \in S /\ \A x \in S : Min(S) <= x
  BY <1>3, MinFacts
<1>5. LowestFree(m, p) = Min(S)
  BY DEF LowestFree, S
<1>6. Min(S) \in B /\ (Min(S) # End => ~ m[Min(S)].used)
  BY <1>1, <1>2, <1>4 DEF S
<1>7. ASSUME NEW q \in B, ~ m[q].used PROVE Min(S) <= q
  <2>1. q \in S
    BY <1>1, <1>7 DEF S
  <2> QED BY <1>4, <2>1
<1> QED BY <1>5, <1>6, <1>7 DEF Lowest

(* A block marked used, or free.                                           *)
Marked(m, p, v) == [m EXCEPT ![p].used = v]

LEMMA MarkFacts ==
  ASSUME NEW m, NEW B, BlockChain(m, B), NEW p \in B \ {End}, NEW v \in BOOLEAN
  PROVE  /\ BlockChain(Marked(m, p, v), B)
         /\ Marked(m, p, v)[p].used = v
         /\ \A q \in B : /\ Marked(m, p, v)[q].next = m[q].next
                         /\ q # p => Marked(m, p, v)[q].used = m[q].used
         /\ \A q \in 0 .. End : q # p => Marked(m, p, v)[q] = m[q]
<1> DEFINE c == Marked(m, p, v)
<1>1. m = [q \in 0 .. End |-> m[q]] /\ B \subseteq 0 .. End /\ End \in B
        /\ m[End].used /\ \A q \in B : m[q] \in Node
  BY DEF BlockChain
<1>2. p \in 0 .. End
  BY <1>1
<1>3. /\ c = [q \in 0 .. End |-> c[q]]
      /\ c[p] = [m[p] EXCEPT !.used = v]
      /\ \A q \in 0 .. End : q # p => c[q] = m[q]
  BY <1>1, <1>2 DEF Marked
<1> HIDE DEF c
<1>4. m[p] \in Node
  BY <1>1
<1>5. c[p] \in Node /\ c[p].next = m[p].next /\ c[p].prev = m[p].prev
  BY <1>3, <1>4 DEF Node
<1>6. c[p].used = v
  BY <1>3, <1>4 DEF Node
<1>7. \A q \in B : c[q] \in Node /\ c[q].next = m[q].next /\ c[q].prev = m[q].prev
  <2> TAKE q \in B
  <2>1. CASE q = p
    BY <1>5, <2>1
  <2>2. CASE q # p
    <3>1. c[q] = m[q]
      BY <1>1, <1>3, <2>2
    <3> QED BY <1>1, <3>1
  <2> QED BY <2>1, <2>2
<1>8. c[End].used
  <2>1. c[End] = m[End]
    BY <1>1, <1>3
  <2> QED BY <1>1, <2>1
<1>9. BlockChain(c, B)
  <2>1. c = [q \in 0 .. End |-> c[q]]
    BY <1>3
  <2> QED BY <1>7, <1>8, <2>1, SameLinks
<1>10. \A q \in B : q # p => c[q].used = m[q].used
  BY <1>1, <1>3
<1> QED BY <1>3, <1>6, <1>7, <1>9, <1>10 DEF c
----------------------------------------------------------------------------
(* rt_malloc takes the block at p: it is in use, what was cut off is free, *)
(* and all other blocks are as before.                                     *)
LEMMA TakenFacts ==
  ASSUME NEW B, Sound(mem, B, lfree), NEW p \in B \ {End}, ~ mem[p].used,
         NEW len \in Nat \ {0}, DataSize(mem, p) >= len
  PROVE  \E D : /\ B \subseteq D
                /\ BlockChain(Taken(p, len), D)
                /\ ApartBut(Taken(p, len), D, {})
                /\ \A q \in D : ~ Taken(p, len)[q].used => q \in B \/ p < q
                /\ lfree # p => Lowest(Taken(p, len), D, lfree)
                /\ lfree = p => \A q \in D : ~ Taken(p, len)[q].used => p <= q
                /\ UsedIn(Taken(p, len), D) = UsedIn(mem, B) \union {p}
                /\ DataSize(Taken(p, len), p) >= len
                /\ \A q \in UsedIn(mem, B) : Taken(p, len)[q].next = mem[q].next
                /\ \A q \in 0 .. End : q \notin B /\ ~ (p < q /\ q < mem[p].next)
                                         => Taken(p, len)[q] = mem[q]
<1> DEFINE n == mem[p].next
           r == p + Header + len
           c == IF Splits(p, len) THEN CutAt(mem, p, r) ELSE mem
           D == IF Splits(p, len) THEN B \union {r} ELSE B
<1>1. BlockChain(mem, B) /\ Lowest(mem, B, lfree) /\ ApartBut(mem, B, {})
  BY DEF Sound
<1>2. /\ p \in Nat /\ p < End /\ n \in B /\ n \in Nat /\ n <= End /\ p < n
  BY <1>1, BlockFacts
<1>3. /\ Header \in Nat \ {0} /\ MinSize \in Nat \ {0} /\ End \in Nat /\ B \subseteq 0 .. End
      /\ End \in B /\ mem[End].used
  BY <1>1, HeapSizesAre DEF BlockChain
<1>4. r \in Nat /\ p + Header < r /\ p < r
  BY <1>2, <1>3
<1>5. n - (p + Header) >= len
  BY DEF DataSize
<1>6. Splits(p, len) => r + Header < n
  <2>1. Splits(p, len) => n - (p + Header) >= len + Header + MinSize
    BY DEF Splits, DataSize
  <2> HIDE DEF n
  <2> QED BY <1>2, <1>3, <2>1
<1>7. /\ BlockChain(c, D) /\ p \in D \ {End} /\ B \subseteq D
      /\ c[p].next \in Nat /\ p + Header + len <= c[p].next
      /\ \A q \in B : c[q].used = mem[q].used /\ (q # p => c[q].next = mem[q].next)
      /\ \A q \in 0 .. End : q \notin B /\ ~ (p < q /\ q < n) => c[q] = mem[q]
      /\ \A q \in D : q \in B \/ (q = r /\ p < q /\ ~ c[q].used /\ c[q].next = n)
      /\ c[p].next \in B => c[p].next = n
      /\ c[p].next \notin B => c[p].next = r
  <2>1. CASE Splits(p, len)
    <3>1. c = CutAt(mem, p, r) /\ D = B \union {r}
      BY <2>1
    <3>2. r + Header < mem[p].next /\ r \in Int
      BY <1>4, <1>6, <2>1
    <3> HIDE DEF c, D, r
    <3>3. IsCut(CutAt(mem, p, r), mem, B, p, r)
      BY <1>1, <1>4, <3>2, CutChain
    <3>4. IsCut(c, mem, B, p, r)
      BY <3>1, <3>3
    <3>5. \A q \in 0 .. End : q \notin B /\ ~ (p < q /\ q < n) => c[q] = mem[q]
      BY <1>2, <3>4 DEF IsCut
    <3>6. p + Header + len <= r
      BY <1>4 DEF r
    <3> QED BY <1>3, <1>4, <3>1, <3>4, <3>5, <3>6 DEF IsCut
  <2>2. CASE ~ Splits(p, len)
    <3>1. c = mem /\ D = B
      BY <2>2
    <3> HIDE DEF c, D, r
    <3>2. p + Header + len <= n
      BY <1>2, <1>3, <1>5
    <3> QED BY <1>1, <1>2, <3>1, <3>2
  <2> QED BY <2>1, <2>2
<1> DEFINE t == Marked(c, p, TRUE)
<1>8. Taken(p, len) = t
  BY DEF Taken, Marked
<1> HIDE DEF c, D
<1>9. /\ BlockChain(t, D)
      /\ t[p].used = TRUE
      /\ \A q \in D : t[q].next = c[q].next /\ (q # p => t[q].used = c[q].used)
      /\ \A q \in 0 .. End : q # p => t[q] = c[q]
  <2>1. TRUE \in BOOLEAN
    OBVIOUS
  <2>2. BlockChain(c, D) /\ p \in D \ {End}
    BY <1>7
  <2>3. /\ BlockChain(Marked(c, p, TRUE), D)
        /\ Marked(c, p, TRUE)[p].used = TRUE
        /\ \A q \in D : /\ Marked(c, p, TRUE)[q].next = c[q].next
                        /\ q # p => Marked(c, p, TRUE)[q].used = c[q].used
        /\ \A q \in 0 .. End : q # p => Marked(c, p, TRUE)[q] = c[q]
    BY <2>1, <2>2, MarkFacts
  <2> QED BY <2>3
<1> HIDE DEF t
<1>10. \A q \in UsedIn(mem, B) : t[q].next = mem[q].next
  <2> TAKE q \in UsedIn(mem, B)
  <2>1. q \in B /\ q # p
    BY DEF UsedIn
  <2> QED BY <1>7, <1>9, <2>1
<1>11. UsedIn(t, D) = UsedIn(mem, B) \union {p}
  <2> SUFFICES ASSUME NEW q PROVE q \in UsedIn(t, D) <=> q \in UsedIn(mem, B) \union {p}
    OBVIOUS
  <2>1. CASE q = p
    BY <1>7, <1>9, <2>1 DEF UsedIn
  <2>2. CASE q # p /\ q \in B
    BY <1>7, <1>9, <2>2 DEF UsedIn
  <2>3. CASE q # p /\ q \notin B
    BY <1>7, <1>9, <2>3 DEF UsedIn
  <2> QED BY <2>1, <2>2, <2>3
<1>12. ApartBut(t, D, {})
  <2> SUFFICES ASSUME NEW q \in D \ {End}, ~ t[q].used, t[q].next # End
               PROVE  t[t[q].next].used
    BY DEF ApartBut
  <2>1. q # p /\ ~ c[q].used /\ t[q].next = c[q].next /\ t[q].next \in D
    BY <1>9, BlockFacts
  <2>2. CASE q \in B
    <3>1. ~ mem[q].used /\ c[q].next = mem[q].next /\ mem[q].next \in B
      BY <1>1, <1>7, <2>1, <2>2, BlockFacts
    <3>2. mem[mem[q].next].used
      BY <1>1, <2>1, <2>2, <3>1 DEF ApartBut
    <3> QED BY <1>7, <1>9, <2>1, <3>1, <3>2
  <2>3. CASE q \notin B
    <3>1. c[q].next = n
      BY <1>7, <2>3
    <3>2. mem[n].used
      <4>1. n # End
        BY <2>1, <3>1
      <4> QED BY <1>1, <4>1 DEF ApartBut
    <3> QED BY <1>2, <1>7, <1>9, <2>1, <3>1, <3>2
  <2> QED BY <2>2, <2>3
<1>13. \A q \in D : ~ t[q].used => q \in B \/ p < q
  BY <1>7
<1>14. \A q \in B : ~ t[q].used => ~ mem[q].used
  BY <1>7, <1>9
<1>15. lfree \in B /\ (lfree # End => ~ mem[lfree].used) /\ \A q \in B : ~ mem[q].used => lfree <= q
  BY <1>1 DEF Lowest
<1>16. lfree \in Nat /\ lfree <= p
  BY <1>3, <1>15
<1>17. ASSUME NEW q \in D, ~ t[q].used PROVE lfree <= q
  <2>1. CASE q \in B
    BY <1>14, <1>15, <1>17, <2>1
  <2>2. CASE q \notin B
    BY <1>2, <1>4, <1>7, <1>16, <2>2
  <2> QED BY <2>1, <2>2
<1>18. lfree # p => Lowest(t, D, lfree)
  <2> SUFFICES ASSUME lfree # p PROVE Lowest(t, D, lfree)
    OBVIOUS
  <2>1. lfree \in D /\ (lfree # End => ~ t[lfree].used)
    BY <1>7, <1>9, <1>15
  <2> QED BY <1>17, <2>1 DEF Lowest
<1>19. DataSize(t, p) >= len
  <2>1. t[p].next = c[p].next
    BY <1>7, <1>9
  <2> QED BY <1>2, <1>3, <1>7, <2>1 DEF DataSize
<1>20. \A q \in 0 .. End : q \notin B /\ ~ (p < q /\ q < n) => t[q] = mem[q]
  BY <1>7, <1>9
<1> QED BY <1>7, <1>8, <1>9, <1>10, <1>11, <1>12, <1>13, <1>17, <1>18, <1>19, <1>20

(* rt_free of the block at p, on a chain m.                                *)
LEMMA FreedFacts ==
  ASSUME NEW m, NEW B, Sound(m, B, lfree), NEW p \in UsedIn(m, B)
  PROVE  \E D \in SUBSET B :
           /\ Sound(FreedAt(m, p + Header).mem, D, FreedAt(m, p + Header).lfree)
           /\ UsedIn(FreedAt(m, p + Header).mem, D) = UsedIn(m, B) \ {p}
           /\ \A q \in UsedIn(m, B) \ {p} : FreedAt(m, p + Header).mem[q].next = m[q].next
           /\ \A q \in 0 .. End : q \notin B => FreedAt(m, p + Header).mem[q] = m[q]
<1> DEFINE c == Marked(m, p, FALSE)
           l == IF p < lfree THEN p ELSE lfree
<1>1. BlockChain(m, B) /\ Lowest(m, B, lfree) /\ ApartBut(m, B, {}) /\ p \in B \ {End} /\ m[p].used
  BY DEF Sound, UsedIn
<1>2. B \subseteq 0 .. End /\ End \in Nat /\ p \in Nat /\ p < End
  BY <1>1, BlockFacts, HeapSizesAre DEF BlockChain
<1>3. /\ BlockChain(Marked(m, p, FALSE), B)
      /\ Marked(m, p, FALSE)[p].used = FALSE
      /\ \A q \in B : /\ Marked(m, p, FALSE)[q].next = m[q].next
                      /\ q # p => Marked(m, p, FALSE)[q].used = m[q].used
      /\ \A q \in 0 .. End : q # p => Marked(m, p, FALSE)[q] = m[q]
  <2>1. FALSE \in BOOLEAN
    OBVIOUS
  <2> QED BY <1>1, <2>1, MarkFacts
<1>4. FreedAt(m, p + Header) = Plugged(c, l, p)
  <2>1. (p + Header) - Header = p
    BY <1>2, HeapSizesAre
  <2> QED BY <2>1 DEF FreedAt, Marked
<1>5. lfree \in B /\ (lfree # End => ~ m[lfree].used) /\ \A q \in B : ~ m[q].used => lfree <= q
  BY <1>1 DEF Lowest
<1> HIDE DEF c
<1>6. /\ BlockChain(c, B) /\ ~ c[p].used
      /\ \A q \in B : c[q].next = m[q].next /\ (q # p => c[q].used = m[q].used)
      /\ \A q \in 0 .. End : q # p => c[q] = m[q]
  BY <1>3 DEF c
<1>7. Lowest(c, B, l)
  <2>1. l \in B /\ (l # End => ~ c[l].used)
    BY <1>1, <1>5, <1>6
  <2>2. ASSUME NEW q \in B, ~ c[q].used PROVE l <= q
    BY <1>2, <1>5, <1>6, <2>2
  <2> HIDE DEF l
  <2> QED BY <2>1, <2>2 DEF Lowest
<1>8. ApartBut(c, B, {p})
  <2> SUFFICES ASSUME NEW q \in B \ {End}, ~ c[q].used, c[q].next # End, q # p, c[q].next # p
               PROVE  c[c[q].next].used
    BY DEF ApartBut
  <2>1. c[q].next = m[q].next /\ ~ m[q].used /\ m[q].next \in B
    BY <1>1, <1>6, BlockFacts
  <2>2. m[m[q].next].used
    BY <1>1, <2>1 DEF ApartBut
  <2> QED BY <1>6, <2>1, <2>2
<1> HIDE DEF l
<1>9. PICK D \in SUBSET B :
           /\ BlockChain(Plugged(c, l, p).mem, D)
           /\ Lowest(Plugged(c, l, p).mem, D, Plugged(c, l, p).lfree)
           /\ ApartBut(Plugged(c, l, p).mem, D, {})
           /\ UsedIn(Plugged(c, l, p).mem, D) = UsedIn(c, B)
           /\ \A q \in UsedIn(c, B) : Plugged(c, l, p).mem[q].next = c[q].next
           /\ \A q \in 0 .. End : q \notin B => Plugged(c, l, p).mem[q] = c[q]
  BY <1>1, <1>6, <1>7, <1>8, PluggedFacts
<1>10. UsedIn(c, B) = UsedIn(m, B) \ {p}
  BY <1>6 DEF UsedIn
<1>11. \A q \in UsedIn(m, B) \ {p} : Plugged(c, l, p).mem[q].next = m[q].next
  <2> TAKE q \in UsedIn(m, B) \ {p}
  <2>1. q \in UsedIn(c, B) /\ q \in B
    BY <1>10 DEF UsedIn
  <2> QED BY <1>6, <1>9, <2>1
<1>12. \A q \in 0 .. End : q \notin B => Plugged(c, l, p).mem[q] = m[q]
  BY <1>1, <1>6, <1>9
<1> QED BY <1>4, <1>9, <1>10, <1>11, <1>12 DEF Sound

(* rt_realloc that cuts the end of a block off.                            *)
LEMMA ShrunkFacts ==
  ASSUME NEW B, Sound(mem, B, lfree), NEW p \in B \ {End}, mem[p].used,
         NEW r \in Int, p + Header < r, r + Header < mem[p].next, NEW l, l = IF r < lfree THEN r ELSE lfree
  PROVE  \E D :
           /\ Sound(Plugged(CutAt(mem, p, r), l, r).mem, D, Plugged(CutAt(mem, p, r), l, r).lfree)
           /\ UsedIn(Plugged(CutAt(mem, p, r), l, r).mem, D) = UsedIn(mem, B)
           /\ Plugged(CutAt(mem, p, r), l, r).mem[p].next = r
           /\ \A q \in UsedIn(mem, B) \ {p} :
                Plugged(CutAt(mem, p, r), l, r).mem[q].next = mem[q].next
           /\ \A q \in 0 .. End : q \notin B /\ q # r =>
                Plugged(CutAt(mem, p, r), l, r).mem[q] = mem[q]
           /\ r < mem[p].next
<1> DEFINE c == CutAt(mem, p, r)
           o == mem[p].next
           D == B \union {r}
<1>1. BlockChain(mem, B) /\ Lowest(mem, B, lfree) /\ ApartBut(mem, B, {}) /\ p \in B \ {End} /\ mem[p].used
  BY DEF Sound, UsedIn
<1>2. /\ p \in Nat /\ p < End /\ o \in B /\ o \in Nat /\ o <= End /\ p < o
      /\ Header \in Nat \ {0} /\ MinSize \in Nat \ {0} /\ End \in Nat /\ B \subseteq 0 .. End
  BY <1>1, BlockFacts, HeapSizesAre DEF BlockChain
<1>3. r \in Nat /\ p < r /\ r < o
  <2> HIDE DEF o
  <2>1. r + Header < o
    BY DEF o
  <2> QED BY <1>2, <2>1
<1> HIDE DEF o, D, c
<1>4. /\ BlockChain(c, D) /\ c[p].next = r /\ c[r].next = o /\ ~ c[r].used
      /\ \A q \in B : c[q].used = mem[q].used /\ (q # p => c[q].next = mem[q].next)
      /\ r \in 0 .. End /\ r \notin B
      /\ \A q \in 0 .. End : q \notin B /\ q # r => c[q] = mem[q]
  <2>1. IsCut(CutAt(mem, p, r), mem, B, p, r)
    BY <1>1, CutChain
  <2> QED BY <2>1 DEF c, D, o, IsCut
<1>6. lfree \in B /\ (lfree # End => ~ mem[lfree].used) /\ \A q \in B : ~ mem[q].used => lfree <= q
  BY <1>1 DEF Lowest
<1>7. Lowest(c, D, l)
  <2>1. l \in D /\ (l # End => ~ c[l].used)
    BY <1>4, <1>6 DEF D
  <2>2. ASSUME NEW q \in D, ~ c[q].used PROVE l <= q
    <3>1. lfree \in Nat
      <4>1. lfree \in 0 .. End
        BY <1>2, <1>6
      <4> QED BY <4>1
    <3>2. CASE q = r
      BY <1>3, <3>1, <3>2
    <3>3. CASE q \in B
      <4>1. lfree <= q /\ q \in Nat
        BY <1>2, <1>4, <1>6, <2>2, <3>3
      <4> QED BY <1>3, <3>1, <4>1
    <3> QED BY <3>2, <3>3 DEF D
  <2> QED BY <2>1, <2>2 DEF Lowest
<1>8. ApartBut(c, D, {r})
  <2> SUFFICES ASSUME NEW q \in D \ {End}, ~ c[q].used, c[q].next # End, q # r, c[q].next # r
               PROVE  c[c[q].next].used
    BY DEF ApartBut
  <2>1. q \in B \ {End} /\ q # p /\ ~ mem[q].used /\ c[q].next = mem[q].next
    BY <1>1, <1>4 DEF D
  <2>2. mem[mem[q].next].used /\ mem[q].next \in B
    BY <1>1, <2>1, BlockFacts DEF ApartBut
  <2> QED BY <1>4, <2>1, <2>2
<1>9. PICK E \in SUBSET D :
           /\ BlockChain(Plugged(c, l, r).mem, E)
           /\ Lowest(Plugged(c, l, r).mem, E, Plugged(c, l, r).lfree)
           /\ ApartBut(Plugged(c, l, r).mem, E, {})
           /\ UsedIn(Plugged(c, l, r).mem, E) = UsedIn(c, D)
           /\ \A q \in UsedIn(c, D) : Plugged(c, l, r).mem[q].next = c[q].next
           /\ \A q \in 0 .. End : q \notin D => Plugged(c, l, r).mem[q] = c[q]
  <2>1. r \in D \ {End}
    BY <1>2, <1>3 DEF D
  <2>2. BlockChain(c, D) /\ ~ c[r].used
    BY <1>4
  <2> HIDE DEF D
  <2> QED BY <1>7, <1>8, <2>1, <2>2, PluggedFacts
<1>10. UsedIn(c, D) = UsedIn(mem, B)
  BY <1>4 DEF UsedIn, D
<1>11. \A q \in UsedIn(mem, B) \ {p} : Plugged(c, l, r).mem[q].next = mem[q].next
  <2> TAKE q \in UsedIn(mem, B) \ {p}
  <2>1. q \in UsedIn(c, D) /\ q \in B /\ q # p
    BY <1>10 DEF UsedIn
  <2> QED BY <1>4, <1>9, <2>1
<1>12. Plugged(c, l, r).mem[p].next = r
  <2>1. p \in UsedIn(c, D)
    BY <1>1, <1>10 DEF UsedIn
  <2> QED BY <1>4, <1>9, <2>1
<1>13. \A q \in 0 .. End : q \notin B /\ q # r => Plugged(c, l, r).mem[q] = mem[q]
  BY <1>4, <1>9 DEF D
<1> QED BY <1>3, <1>9, <1>10, <1>11, <1>12, <1>13 DEF Sound, c, o

(* The words of a block are no headers.                                    *)
LEMMA WrittenFacts ==
  ASSUME NEW m, NEW B, NEW l, Sound(m, B, l), NEW p \in UsedIn(m, B),
         NEW a \in Nat, NEW len \in Int, p + Header <= a, a + len <= m[p].next, NEW u
  PROVE  /\ Sound(Written(m, a, len, u), B, l)
         /\ UsedIn(Written(m, a, len, u), B) = UsedIn(m, B)
         /\ \A q \in B : Written(m, a, len, u)[q] = m[q]
         /\ \A q \in 0 .. End : Written(m, a, len, u)[q]
              = IF q \in a .. a + len - 1 THEN u ELSE m[q]
<1> DEFINE c == Written(m, a, len, u)
<1>1. BlockChain(m, B) /\ Lowest(m, B, l) /\ ApartBut(m, B, {}) /\ p \in B \ {End}
  BY DEF Sound, UsedIn
<1>2. /\ p \in Nat /\ m[p].next \in Nat /\ Header \in Nat \ {0}
      /\ \A q \in B : q <= p \/ m[p].next <= q
      /\ B \subseteq 0 .. End /\ End \in B
  BY <1>1, BlockFacts, HeapSizesAre DEF BlockChain
<1>3. /\ \A q \in 0 .. End : c[q] = IF q \in a .. a + len - 1 THEN u ELSE m[q]
      /\ c = [q \in 0 .. End |-> c[q]]
  BY DEF Written
<1> HIDE DEF c
<1>4. \A q \in B : c[q] = m[q]
  <2> TAKE q \in B
  <2>1. q \in 0 .. End /\ (q <= p \/ m[p].next <= q)
    BY <1>2
  <2>2. q \notin a .. a + len - 1
    BY <1>2, <2>1
  <2> QED BY <1>3, <2>1, <2>2
<1>5. BlockChain(c, B)
  <2>1. \A q \in B : c[q] \in Node /\ c[q].next = m[q].next /\ c[q].prev = m[q].prev
    BY <1>1, <1>4 DEF BlockChain
  <2>2. c[End].used
    BY <1>1, <1>4 DEF BlockChain
  <2>3. c = [q \in 0 .. End |-> c[q]]
    BY <1>3
  <2> QED BY <1>1, <2>1, <2>2, <2>3, SameLinks
<1>6. Lowest(c, B, l)
  BY <1>1, <1>4 DEF Lowest
<1>7. ApartBut(c, B, {})
  <2> SUFFICES ASSUME NEW q \in B \ {End}, ~ c[q].used, c[q].next # End
               PROVE  c[c[q].next].used
    BY DEF ApartBut
  <2>1. c[q] = m[q] /\ m[q].next \in B
    BY <1>1, <1>4, BlockFacts
  <2>2. m[m[q].next].used
    BY <1>1, <2>1 DEF ApartBut
  <2> QED BY <1>4, <2>1, <2>2
<1>8. UsedIn(c, B) = UsedIn(m, B)
  BY <1>4 DEF UsedIn
<1> QED BY <1>3, <1>4, <1>5, <1>6, <1>7, <1>8 DEF Sound, c
----------------------------------------------------------------------------
(* Who has which block: the ones handed out, and those a growing           *)
(* rt_realloc has allocated and not yet returned.                          *)
HeapBlock == [at : Nat, size : Nat \ {0}]
Possession == [user : HeapUser, block : HeapBlock, kind : {"held", "new"}]
Held(u, b) == [user |-> u, block |-> b, kind |-> "held"]
Fresh(u, b) == [user |-> u, block |-> b, kind |-> "new"]
NewBlock(u) == [at |-> growing[u].at, size |-> growing[u].size]

Own ==
  (UNION {{Held(u, b) : b \in held[u]} : u \in HeapUser})
    \union {Fresh(u, NewBlock(u)) : u \in {v \in HeapUser : growing[v].step = "copy"}}

(* Each block in use has one owner, who has no more than its data, and     *)
(* finds in it what it wrote.                                              *)
Words(x) == x.block.at .. x.block.at + x.block.size - 1

Owned(O, m, B) ==
  /\ O \subseteq Possession
  /\ \A x, y \in O : x.block.at = y.block.at => x = y
  /\ \A x \in O : /\ x.block.at - Header \in UsedIn(m, B)
                  /\ x.block.size <= DataSize(m, x.block.at - Header)
  /\ \A p \in UsedIn(m, B) : \E x \in O : x.block.at - Header = p
  /\ \A x \in O : x.kind = "held" => \A q \in Words(x) : m[q] = x.user

(* A word of a block lies in no other block, and is no header.             *)
LEMMA WordFacts ==
  ASSUME NEW O, NEW m, NEW B, BlockChain(m, B), Owned(O, m, B), NEW x \in O, NEW q \in Words(x)
  PROVE  /\ x.block.at - Header \in B \ {End} /\ x.block.at \in Nat
         /\ q \in 0 .. End /\ q \notin B
         /\ x.block.at - Header < q /\ q < m[x.block.at - Header].next
         /\ \A p \in B \ {End} : p < q /\ q < m[p].next => p = x.block.at - Header
<1>1. x \in Possession /\ x.block.at - Header \in UsedIn(m, B)
        /\ x.block.size <= DataSize(m, x.block.at - Header)
  BY DEF Owned
<1>2. PICK a \in Nat, s \in Nat : a = x.block.at /\ s = x.block.size
  BY <1>1 DEF Possession, HeapBlock
<1>3. PICK p : p = a - Header
  OBVIOUS
<1>4. p \in B \ {End} /\ s <= DataSize(m, p)
  BY <1>1, <1>2, <1>3 DEF UsedIn
<1>5. /\ p \in Nat /\ p < End /\ m[p].next \in Nat /\ m[p].next <= End
      /\ \A b \in B : b <= p \/ m[p].next <= b
  BY <1>4, BlockFacts
<1>6. Header \in Nat \ {0} /\ End \in Nat /\ B \subseteq 0 .. End
  BY HeapSizesAre DEF BlockChain
<1>7. s <= m[p].next - (p + Header)
  BY <1>4 DEF DataSize
<1>8. q \in a .. a + s - 1
  BY <1>2 DEF Words
<1>9. q \in Nat /\ p < q /\ q < m[p].next
  BY <1>2, <1>3, <1>5, <1>6, <1>7, <1>8
<1>10. q \in 0 .. End
  BY <1>5, <1>6, <1>9
<1>11. q \notin B
  BY <1>5, <1>6, <1>9
<1>12. ASSUME NEW r \in B \ {End}, r < q, q < m[r].next PROVE r = p
  <2>1. r \in Nat /\ m[r].next \in Nat
    BY BlockFacts
  <2>2. r # p => m[r].next <= p \/ m[p].next <= r
    BY <1>4, Disjoint
  <2> QED BY <1>5, <1>9, <1>12, <2>1, <2>2
<1> QED BY <1>2, <1>3, <1>4, <1>9, <1>10, <1>11, <1>12

(* They stay clear of a block that is not theirs.                          *)
LEMMA OtherWords ==
  ASSUME NEW O, NEW m, NEW B, BlockChain(m, B), Owned(O, m, B), NEW x \in O, NEW q \in Words(x),
         NEW n, NEW D, BlockChain(n, D), UsedIn(m, B) \subseteq UsedIn(n, D),
         n[x.block.at - Header].next = m[x.block.at - Header].next,
         NEW p \in D \ {End}, p # x.block.at - Header
  PROVE  q \in 0 .. End /\ (q < p \/ n[p].next <= q)
<1> DEFINE r == x.block.at - Header
<1>1. q \in 0 .. End /\ r < q /\ q < m[r].next
  BY WordFacts
<1>2. r \in UsedIn(n, D)
  BY DEF Owned
<1>3. r \in D \ {End}
  BY <1>2 DEF UsedIn
<1>4. n[r].next <= p \/ n[p].next <= r
  BY <1>3, Disjoint
<1>5. r \in Nat /\ n[r].next \in Nat /\ p \in Nat /\ n[p].next \in Nat
  BY <1>3, BlockFacts
<1>6. n[r].next = m[r].next
  OBVIOUS
<1> HIDE DEF r
<1> QED BY <1>1, <1>4, <1>5, <1>6, HeapSizesAre

(* One more owner of one more block.                                       *)
LEMMA OwnAdd ==
  ASSUME NEW O, NEW m, NEW B, Owned(O, m, B), NEW n, NEW D,
         NEW p \in Nat, p \notin UsedIn(m, B), UsedIn(n, D) = UsedIn(m, B) \union {p},
         \A q \in UsedIn(m, B) : n[q].next = m[q].next,
         \A x \in O : \A q \in Words(x) : n[q] = m[q],
         NEW y \in Possession, y.block.at = p + Header, y.block.size <= DataSize(n, p),
         y.kind = "held" => \A q \in Words(y) : n[q] = y.user
  PROVE  Owned(O \union {y}, n, D)
<1>1. Header \in Nat
  BY HeapSizesAre
<1>2. y.block.at - Header = p
  BY <1>1
<1>3. ASSUME NEW x \in O
      PROVE  /\ x.block.at # y.block.at
             /\ x.block.at - Header \in UsedIn(n, D)
             /\ x.block.size <= DataSize(n, x.block.at - Header)
  <2>1. x.block.at - Header \in UsedIn(m, B) /\ x.block.size <= DataSize(m, x.block.at - Header)
    BY DEF Owned
  <2> QED BY <1>2, <2>1 DEF DataSize
<1>4. O \union {y} \subseteq Possession
  BY DEF Owned
<1>5. \A x, z \in O \union {y} : x.block.at = z.block.at => x = z
  BY <1>3 DEF Owned
<1>6. \A x \in O \union {y} : /\ x.block.at - Header \in UsedIn(n, D)
                              /\ x.block.size <= DataSize(n, x.block.at - Header)
  BY <1>2, <1>3
<1>7. \A q \in UsedIn(n, D) : \E x \in O \union {y} : x.block.at - Header = q
  <2> TAKE q \in UsedIn(n, D)
  <2>1. CASE q = p
    BY <1>2, <2>1
  <2>2. CASE q # p
    <3>1. \E x \in O : x.block.at - Header = q
      BY <2>2 DEF Owned
    <3> QED BY <3>1
  <2> QED BY <2>1, <2>2
<1>8. \A x \in O \union {y} : x.kind = "held" => \A q \in Words(x) : n[q] = x.user
  BY DEF Owned
<1> QED BY <1>4, <1>5, <1>6, <1>7, <1>8 DEF Owned

(* One owner less.                                                         *)
LEMMA OwnRemove ==
  ASSUME NEW O, NEW m, NEW B, Owned(O, m, B), NEW n, NEW D, NEW y \in O,
         UsedIn(n, D) = UsedIn(m, B) \ {y.block.at - Header},
         \A q \in UsedIn(m, B) \ {y.block.at - Header} : n[q].next = m[q].next,
         \A x \in O : \A q \in Words(x) : n[q] = m[q]
  PROVE  Owned(O \ {y}, n, D)
<1>1. Header \in Nat
  BY HeapSizesAre
<1>2. ASSUME NEW x \in O \ {y}
      PROVE  /\ x.block.at - Header \in UsedIn(n, D)
             /\ x.block.size <= DataSize(n, x.block.at - Header)
  <2>1. x.block.at - Header \in UsedIn(m, B) /\ x.block.size <= DataSize(m, x.block.at - Header)
    BY DEF Owned
  <2>2. x.block.at # y.block.at /\ x.block.at \in Nat /\ y.block.at \in Nat
    <3>1. x \in Possession /\ y \in Possession
      BY DEF Owned
    <3> QED BY <3>1 DEF Owned, Possession, HeapBlock
  <2>3. x.block.at - Header # y.block.at - Header
    BY <1>1, <2>2
  <2> QED BY <2>1, <2>3 DEF DataSize
<1>3. O \ {y} \subseteq Possession /\ \A x, z \in O \ {y} : x.block.at = z.block.at => x = z
  BY DEF Owned
<1>4. \A q \in UsedIn(n, D) : \E x \in O \ {y} : x.block.at - Header = q
  <2> TAKE q \in UsedIn(n, D)
  <2>1. PICK x \in O : x.block.at - Header = q
    BY DEF Owned
  <2>2. x # y
    BY <2>1
  <2> QED BY <2>1, <2>2
<1>5. \A x \in O \ {y} : x.kind = "held" => \A q \in Words(x) : n[q] = x.user
  BY DEF Owned
<1> QED BY <1>2, <1>3, <1>4, <1>5 DEF Owned

(* An owner of a block that is now another, or has less of it.             *)
LEMMA OwnReplace ==
  ASSUME NEW O, NEW m, NEW B, Owned(O, m, B), NEW n, NEW D, NEW y \in O, NEW z \in Possession,
         z.block.at = y.block.at, UsedIn(n, D) = UsedIn(m, B),
         z.block.size <= DataSize(n, z.block.at - Header),
         \A q \in UsedIn(m, B) \ {y.block.at - Header} : n[q].next = m[q].next,
         \A x \in O \ {y} : \A q \in Words(x) : n[q] = m[q],
         z.kind = "held" => \A q \in Words(z) : n[q] = z.user
  PROVE  Owned((O \ {y}) \union {z}, n, D)
<1> DEFINE P == (O \ {y}) \union {z}
<1>1. Header \in Nat
  BY HeapSizesAre
<1>2. ASSUME NEW x \in O \ {y}
      PROVE  /\ x.block.at # z.block.at
             /\ x.block.at - Header \in UsedIn(n, D)
             /\ x.block.size <= DataSize(n, x.block.at - Header)
  <2>1. x.block.at - Header \in UsedIn(m, B) /\ x.block.size <= DataSize(m, x.block.at - Header)
    BY DEF Owned
  <2>2. x.block.at # y.block.at /\ x.block.at \in Nat /\ y.block.at \in Nat
    <3>1. x \in Possession /\ y \in Possession
      BY DEF Owned
    <3> QED BY <3>1 DEF Owned, Possession, HeapBlock
  <2>3. x.block.at - Header # y.block.at - Header
    BY <1>1, <2>2
  <2> QED BY <2>1, <2>2, <2>3 DEF DataSize
<1>3. z.block.at - Header \in UsedIn(n, D)
  BY DEF Owned
<1>4. P \subseteq Possession
  BY DEF Owned
<1>5. \A x, w \in P : x.block.at = w.block.at => x = w
  BY <1>2 DEF Owned
<1>6. \A x \in P : x.block.at - Header \in UsedIn(n, D) /\ x.block.size <= DataSize(n, x.block.at - Header)
  BY <1>2, <1>3
<1>7. \A q \in UsedIn(n, D) : \E x \in P : x.block.at - Header = q
  <2> TAKE q \in UsedIn(n, D)
  <2>1. PICK x \in O : x.block.at - Header = q
    BY DEF Owned
  <2>2. CASE x = y
    BY <2>1, <2>2
  <2>3. CASE x # y
    BY <2>1, <2>3
  <2> QED BY <2>2, <2>3
<1>8. \A x \in P : x.kind = "held" => \A q \in Words(x) : n[q] = x.user
  BY DEF Owned
<1> QED BY <1>4, <1>5, <1>6, <1>7, <1>8 DEF Owned
----------------------------------------------------------------------------
(* The inductive invariant of the heap.                                    *)
Growth ==
  {NotGrowing}
    \union [step : {"malloc"}, old : HeapBlock, size : HeapSizes]
    \union [step : {"copy"}, old : HeapBlock, size : HeapSizes, at : Nat]

HeapTypes ==
  /\ held \in [HeapUser -> SUBSET HeapBlock]
  /\ growing \in [HeapUser -> Growth]
  /\ \A u \in HeapUser : growing[u].step # "none" => growing[u].old \in held[u]

HeapInv ==
  /\ HeapTypes
  /\ Sound(mem, Blocks, lfree)
  /\ usedMem = Cardinality(RoomOf(mem, UsedIn(mem, Blocks)))
  /\ Owned(Own, mem, Blocks)

LEMMA GrowthFacts ==
  ASSUME NEW g \in Growth
  PROVE  \/ g = NotGrowing /\ g.step = "none"
         \/ g.step = "malloc" /\ g.old \in HeapBlock /\ g.size \in HeapSizes
         \/ g.step = "copy" /\ g.old \in HeapBlock /\ g.size \in HeapSizes /\ g.at \in Nat
BY DEF Growth, NotGrowing

LEMMA OwnNow ==
  \A x : x \in Own <=> \/ \E u \in HeapUser : \E b \in held[u] : x = Held(u, b)
                       \/ \E u \in HeapUser : growing[u].step = "copy" /\ x = Fresh(u, NewBlock(u))
BY DEF Own

LEMMA OwnNext ==
  \A x : x \in Own' <=> \/ \E u \in HeapUser : \E b \in held'[u] : x = Held(u, b)
                        \/ \E u \in HeapUser :
                             growing'[u].step = "copy" /\ x = Fresh(u, NewBlock(u)')
BY DEF Own

LEMMA KindsDiffer ==
  ASSUME NEW u, NEW b, NEW v, NEW c
  PROVE  /\ Held(u, b).user = u /\ Held(u, b).block = b /\ Held(u, b).kind = "held"
         /\ Fresh(u, b).user = u /\ Fresh(u, b).block = b /\ Fresh(u, b).kind = "new"
         /\ Held(u, b) # Fresh(v, c)
         /\ Held(u, b) = Held(v, c) => u = v /\ b = c
         /\ Fresh(u, b) = Fresh(v, c) => u = v /\ b = c
BY DEF Held, Fresh

LEMMA HeapInvNext ==
  ASSUME NEW D, Sound(mem', D, lfree'), HeapTypes', Owned(Own', mem', D),
         usedMem' = Cardinality(RoomOf(mem', UsedIn(mem', D)))
  PROVE  HeapInv'
<1>1. BlockChain(mem', D) /\ 0 \in D /\ D \subseteq 0 .. End
  BY DEF Sound, BlockChain
<1>2. Reach(mem', 0) = {q \in D : 0 <= q}
  BY <1>1, ReachFacts
<1>3. Blocks' = D
  <2>1. \A q \in D : 0 <= q
    BY <1>1
  <2>2. Blocks' = Reach(mem', 0)
    BY DEF Blocks
  <2> QED BY <1>2, <2>1, <2>2
<1> QED BY <1>3 DEF HeapInv

LEMMA HeapInitInv == HeapInit => HeapInv
<1> SUFFICES ASSUME HeapInit PROVE HeapInv
  OBVIOUS
<1>1. Header \in Nat \ {0} /\ HeapSize \in Nat \ {0} /\ End \in Nat /\ 0 < End /\ Header < End
  BY HeapSizesAre DEF End
<1> DEFINE B == {0, End}
<1>2. /\ mem = [q \in 0 .. End |-> mem[q]]
      /\ mem[0] = [next |-> End, prev |-> 0, used |-> FALSE]
      /\ mem[End] = [next |-> End, prev |-> End, used |-> TRUE]
  BY <1>1 DEF HeapInit
<1>3. mem[0].next = End /\ mem[0].prev = 0 /\ mem[0].used = FALSE
        /\ mem[End].next = End /\ mem[End].used = TRUE
  BY <1>2
<1>4. mem[0] \in Node /\ mem[End] \in Node
  <2>1. 0 \in 0 .. End /\ End \in 0 .. End
    BY <1>1
  <2>2. [next |-> End, prev |-> 0, used |-> FALSE] \in Node
    BY <2>1 DEF Node
  <2>3. [next |-> End, prev |-> End, used |-> TRUE] \in Node
    BY <2>1 DEF Node
  <2> QED BY <1>2, <2>2, <2>3
<1>5. BlockChain(mem, B)
  <2>1. NextRises(mem, B)
    BY <1>1, <1>3 DEF NextRises
  <2>2. PrevAgrees(mem, B)
    BY DEF PrevAgrees
  <2> QED BY <1>1, <1>2, <1>3, <1>4, <2>1, <2>2 DEF BlockChain
<1>6. Lowest(mem, B, lfree) /\ ApartBut(mem, B, {})
  BY <1>1, <1>3 DEF Lowest, ApartBut, HeapInit
<1>7. Blocks = B
  BY <1>1, <1>5, ReachFacts DEF Blocks
<1>8. UsedIn(mem, B) = {}
  BY <1>3 DEF UsedIn
<1>9. Own = {}
  BY OwnNow DEF HeapInit, NotGrowing
<1>10. Owned(Own, mem, B)
  BY <1>8, <1>9 DEF Owned
<1>11. usedMem = Cardinality(RoomOf(mem, UsedIn(mem, B)))
  <2>1. RoomOf(mem, {}) = {}
    BY DEF RoomOf
  <2> QED BY <1>8, <2>1, FS_EmptySet DEF HeapInit
<1>12. HeapTypes
  BY DEF HeapInit, HeapTypes, Growth, NotGrowing
<1> QED BY <1>5, <1>6, <1>7, <1>10, <1>11, <1>12 DEF HeapInv, Sound

(* The walk of rt_malloc finds a free block that is large enough.          *)
LEMMA FitFacts ==
  ASSUME HeapInv, NEW len \in Nat, Fitting(len) # {}
  PROVE  /\ Min(Fitting(len)) \in Blocks \ {End} /\ ~ mem[Min(Fitting(len))].used
         /\ DataSize(mem, Min(Fitting(len))) >= len
<1>1. BlockChain(mem, Blocks) /\ lfree \in Blocks /\ Blocks \subseteq 0 .. End /\ mem[End].used
  BY DEF HeapInv, Sound, Lowest, BlockChain
<1>2. Fitting(len) \subseteq Blocks
  BY <1>1, ReachFacts DEF Fitting
<1>3. Fitting(len) \in SUBSET Nat
  <2>1. \A q \in Blocks : q \in Nat
    BY <1>1, HeapSizesAre
  <2> QED BY <1>2, <2>1
<1>4. Min(Fitting(len)) \in Fitting(len)
  BY <1>3, MinFacts
<1>5. Fits(Min(Fitting(len)), len)
  BY <1>4 DEF Fitting
<1> QED BY <1>1, <1>2, <1>4, <1>5 DEF Fits

AllocatedIn(t, D, p, len) ==
  /\ Sound(t, D, lfree')
  /\ p \notin UsedIn(mem, Blocks) /\ UsedIn(t, D) = UsedIn(mem, Blocks) \union {p}
  /\ DataSize(t, p) >= len
  /\ usedMem' = Cardinality(RoomOf(t, UsedIn(t, D)))
  /\ \A q \in UsedIn(mem, Blocks) : t[q].next = mem[q].next
  /\ \A x \in Own : \A q \in Words(x) : t[q] = mem[q]

LEMMA AllocateFacts ==
  ASSUME HeapInv, NEW p \in Blocks \ {End}, ~ mem[p].used, NEW len \in Nat \ {0},
         DataSize(mem, p) >= len, AllocateAt(p, len)
  PROVE  \E D : AllocatedIn(Taken(p, len), D, p, len)
<1> DEFINE t == Taken(p, len)
           B == Blocks
           U == UsedIn(mem, B)
<1>1. Sound(mem, B, lfree) /\ BlockChain(mem, B) /\ Owned(Own, mem, B)
        /\ usedMem = Cardinality(RoomOf(mem, U))
  BY DEF HeapInv, Sound
<1>2. PICK D :  /\ B \subseteq D
                /\ BlockChain(Taken(p, len), D)
                /\ ApartBut(Taken(p, len), D, {})
                /\ \A q \in D : ~ Taken(p, len)[q].used => q \in B \/ p < q
                /\ lfree # p => Lowest(Taken(p, len), D, lfree)
                /\ lfree = p => \A q \in D : ~ Taken(p, len)[q].used => p <= q
                /\ UsedIn(Taken(p, len), D) = UsedIn(mem, B) \union {p}
                /\ DataSize(Taken(p, len), p) >= len
                /\ \A q \in UsedIn(mem, B) : Taken(p, len)[q].next = mem[q].next
                /\ \A q \in 0 .. End : q \notin B /\ ~ (p < q /\ q < mem[p].next)
                                         => Taken(p, len)[q] = mem[q]
  <2> HIDE DEF B
  <2> QED BY <1>1, TakenFacts DEF B
<1>3. lfree' = (IF p = lfree THEN LowestFree(t, p) ELSE lfree) /\ usedMem' = usedMem + (t[p].next - p)
  BY DEF AllocateAt
<1> HIDE DEF t, B
<1>4. p \in B \ {End} /\ p \in D \ {End}
  BY <1>2 DEF B
<1>5. Lowest(t, D, lfree')
  <2>1. CASE lfree = p
    <3>1. Lowest(t, D, LowestFree(t, p))
      BY <1>2, <1>4, <2>1, LowestFreeFacts DEF t
    <3> QED BY <1>3, <2>1, <3>1
  <2>2. CASE lfree # p
    BY <1>2, <1>3, <2>2 DEF t
  <2> QED BY <2>1, <2>2
<1>6. p \notin U
  BY DEF UsedIn
<1>7. usedMem' = Cardinality(RoomOf(t, UsedIn(t, D)))
  <2>1. U \in SUBSET (D \ {End})
    BY <1>2 DEF UsedIn
  <2>2. BlockChain(t, D)
    BY <1>2 DEF t
  <2> HIDE DEF U
  <2>3. Cardinality(RoomOf(t, U \union {p})) = Cardinality(RoomOf(t, U)) + (t[p].next - p)
    BY <1>4, <1>6, <2>1, <2>2, RoomAdd
  <2>4. RoomOf(t, U) = RoomOf(mem, U)
    BY <1>2, RoomSame DEF t, U
  <2>5. UsedIn(t, D) = U \union {p}
    BY <1>2 DEF t, U
  <2> QED BY <1>1, <1>3, <2>3, <2>4, <2>5
<1>8. ASSUME NEW x \in Own, NEW q \in Words(x) PROVE t[q] = mem[q]
  <2>1. /\ q \in 0 .. End /\ q \notin B
        /\ \A r \in B \ {End} : r < q /\ q < mem[r].next => r = x.block.at - Header
    BY <1>1, WordFacts
  <2>2. x.block.at - Header # p
    BY <1>1, <1>6 DEF Owned
  <2> QED BY <1>2, <1>4, <2>1, <2>2 DEF t
<1> QED BY <1>2, <1>5, <1>6, <1>7, <1>8 DEF AllocatedIn, Sound, t, B
----------------------------------------------------------------------------
(* Each operation keeps the invariant.                                     *)
LEMMA SizeFacts ==
  ASSUME NEW n \in HeapSizes
  PROVE  n \in Nat \ {0} /\ Larger(n) \in Nat \ {0} /\ n <= Larger(n)
BY HeapSizesAre DEF Larger

LEMMA MallocInv == ASSUME HeapInv, NEW u \in HeapUser, NEW n \in HeapSizes, Malloc(u, n) PROVE HeapInv'
<1>1. n \in Nat \ {0} /\ Larger(n) \in Nat \ {0} /\ n <= Larger(n)
  BY SizeFacts
<1> DEFINE p == Min(Fitting(Larger(n)))
           t == Taken(p, Larger(n))
           b == [at |-> p + Header, size |-> n]
<1>2. /\ growing[u] = NotGrowing
      /\ Fitting(Larger(n)) # {}
      /\ AllocateAt(p, Larger(n))
      /\ mem' = Written(t, p + Header, n, u)
      /\ held' = [held EXCEPT ![u] = @ \union {b}]
      /\ growing' = growing
  BY DEF Malloc
<1>3. p \in Blocks \ {End} /\ ~ mem[p].used /\ DataSize(mem, p) >= Larger(n)
  BY <1>1, <1>2, FitFacts
<1> HIDE DEF p
<1>4. PICK D : AllocatedIn(Taken(p, Larger(n)), D, p, Larger(n))
  BY <1>1, <1>2, <1>3, AllocateFacts
<1> HIDE DEF t
<1>5. /\ Sound(t, D, lfree')
      /\ p \notin UsedIn(mem, Blocks) /\ UsedIn(t, D) = UsedIn(mem, Blocks) \union {p}
      /\ DataSize(t, p) >= Larger(n)
      /\ usedMem' = Cardinality(RoomOf(t, UsedIn(t, D)))
      /\ \A q \in UsedIn(mem, Blocks) : t[q].next = mem[q].next
      /\ \A x \in Own : \A q \in Words(x) : t[q] = mem[q]
  BY <1>4 DEF AllocatedIn, t
<1>6. /\ p \in UsedIn(t, D) /\ p \in Nat /\ t[p].next \in Nat /\ Header \in Nat \ {0}
      /\ BlockChain(t, D)
  <2>1. BlockChain(t, D)
    BY <1>5 DEF Sound
  <2>2. p \in UsedIn(t, D) /\ p \in D \ {End}
    BY <1>5 DEF UsedIn
  <2> QED BY <2>1, <2>2, BlockFacts, HeapSizesAre
<1>7. n \in Nat /\ n <= DataSize(t, p) /\ DataSize(t, p) \in Int
  <2>1. DataSize(t, p) \in Int
    BY <1>6 DEF DataSize
  <2> QED BY <1>1, <1>5, <2>1
<1>8. /\ Sound(mem', D, lfree')
      /\ UsedIn(mem', D) = UsedIn(t, D)
      /\ \A q \in D : mem'[q] = t[q]
      /\ \A q \in 0 .. End : mem'[q] = IF q \in p + Header .. p + Header + n - 1 THEN u ELSE t[q]
  <2>1. /\ Sound(Written(t, p + Header, n, u), D, lfree')
        /\ UsedIn(Written(t, p + Header, n, u), D) = UsedIn(t, D)
        /\ \A q \in D : Written(t, p + Header, n, u)[q] = t[q]
        /\ \A q \in 0 .. End : Written(t, p + Header, n, u)[q]
             = IF q \in p + Header .. p + Header + n - 1 THEN u ELSE t[q]
    <3>1. p + Header + n <= t[p].next /\ p + Header \in Nat /\ p + Header <= p + Header
      BY <1>1, <1>6, <1>7 DEF DataSize
    <3> QED BY <1>5, <1>6, <1>7, <3>1, WrittenFacts
  <2> QED BY <1>2, <2>1
<1>9. b \in HeapBlock
  BY <1>1, <1>6 DEF HeapBlock
<1>10. Held(u, b) \in Possession
  BY <1>9 DEF Held, Possession
<1> HIDE DEF b
<1>11. b.at = p + Header /\ b.size = n
  BY DEF b
<1>12. HeapTypes'
  <2>1. held' \in [HeapUser -> SUBSET HeapBlock] /\ growing' \in [HeapUser -> Growth]
    BY <1>2, <1>9 DEF HeapInv, HeapTypes
  <2>2. ASSUME NEW v \in HeapUser, growing'[v].step # "none" PROVE growing'[v].old \in held'[v]
    <3>1. growing[v].old \in held[v]
      BY <1>2, <2>2 DEF HeapInv, HeapTypes
    <3>2. held[v] \subseteq held'[v]
      BY <1>2 DEF HeapInv, HeapTypes
    <3> QED BY <1>2, <3>1, <3>2
  <2> QED BY <2>1, <2>2 DEF HeapTypes
<1>13. Own' = Own \union {Held(u, b)}
  <2>1. held'[u] = held[u] \union {b} /\ \A v \in HeapUser : v # u => held'[v] = held[v]
    BY <1>2 DEF HeapInv, HeapTypes
  <2>2. \A v \in HeapUser : NewBlock(v)' = NewBlock(v)
    BY <1>2 DEF NewBlock
  <2>3. ASSUME NEW x PROVE x \in Own' <=> x \in Own \union {Held(u, b)}
    BY <1>2, <2>1, <2>2, OwnNow, OwnNext
  <2> QED BY <2>3
<1>14. UsedIn(mem', D) = UsedIn(mem, Blocks) \union {p}
  BY <1>5, <1>8
<1>15. \A q \in UsedIn(t, D) : mem'[q].next = t[q].next
  BY <1>8 DEF UsedIn
<1>16. \A q \in UsedIn(mem, Blocks) : mem'[q].next = mem[q].next
  BY <1>5, <1>15
<1>17. ASSUME NEW x \in Own, NEW q \in Words(x) PROVE mem'[q] = mem[q]
  <2>1. BlockChain(mem, Blocks) /\ Owned(Own, mem, Blocks)
    BY DEF HeapInv, Sound
  <2>2. x.block.at - Header \in UsedIn(mem, Blocks)
    BY <2>1 DEF Owned
  <2>3. x.block.at - Header # p /\ t[x.block.at - Header].next = mem[x.block.at - Header].next
    BY <1>5, <2>2
  <2>4. UsedIn(mem, Blocks) \subseteq UsedIn(t, D) /\ p \in D \ {End}
    BY <1>5, <1>6 DEF UsedIn
  <2>5. q \in 0 .. End /\ (q < p \/ t[p].next <= q)
    BY <1>6, <2>1, <2>3, <2>4, OtherWords
  <2>6. q \notin p + Header .. p + Header + n - 1
    <3>1. p + Header + n <= t[p].next
      BY <1>6, <1>7 DEF DataSize
    <3> QED BY <1>1, <1>6, <2>5, <3>1
  <2> QED BY <1>5, <1>8, <2>5, <2>6
<1>18. n <= DataSize(mem', p)
  <2>1. mem'[p].next = t[p].next
    BY <1>6, <1>15
  <2> QED BY <1>7, <2>1 DEF DataSize
<1>19. \A q \in Words(Held(u, b)) : mem'[q] = u
  <2> TAKE q \in Words(Held(u, b))
  <2>1. q \in p + Header .. p + Header + n - 1
    BY <1>11, KindsDiffer DEF Words
  <2>2. p + Header + n <= t[p].next /\ t[p].next <= End
    <3>1. p \in D \ {End}
      BY <1>6 DEF UsedIn
    <3> QED BY <1>6, <1>7, <3>1, BlockFacts DEF DataSize
  <2>3. q \in 0 .. End
    BY <1>1, <1>6, <2>1, <2>2, HeapSizesAre
  <2> QED BY <1>8, <2>1, <2>3
<1>20. Owned(Own \union {Held(u, b)}, mem', D)
  <2>1. Owned(Own, mem, Blocks)
    BY DEF HeapInv
  <2>2. Held(u, b).block.at = p + Header /\ Held(u, b).block.size <= DataSize(mem', p)
    BY <1>11, <1>18, KindsDiffer
  <2>3. \A q \in Words(Held(u, b)) : mem'[q] = Held(u, b).user
    BY <1>19, KindsDiffer
  <2> QED BY <1>5, <1>6, <1>10, <1>14, <1>16, <1>17, <2>1, <2>2, <2>3, OwnAdd
<1>21. usedMem' = Cardinality(RoomOf(mem', UsedIn(mem', D)))
  <2>1. RoomOf(mem', UsedIn(t, D)) = RoomOf(t, UsedIn(t, D))
    BY <1>15, RoomSame
  <2> QED BY <1>5, <1>8, <2>1
<1> QED BY <1>8, <1>12, <1>13, <1>20, <1>21, HeapInvNext

(* rt_free: an owner gives its block back.                                 *)
LEMMA ReleaseFacts ==
  ASSUME NEW O, NEW m, NEW B, Sound(m, B, lfree), Owned(O, m, B), NEW y \in O,
         usedMem = Cardinality(RoomOf(m, UsedIn(m, B))),
         mem' = FreedAt(m, y.block.at).mem, lfree' = FreedAt(m, y.block.at).lfree,
         usedMem' = usedMem - (m[y.block.at - Header].next - (y.block.at - Header))
  PROVE  \E D : /\ Sound(mem', D, lfree')
                /\ Owned(O \ {y}, mem', D)
                /\ usedMem' = Cardinality(RoomOf(mem', UsedIn(mem', D)))
<1> DEFINE p == y.block.at - Header
           U == UsedIn(m, B) \ {p}
<1>1. y \in Possession /\ p \in UsedIn(m, B)
  BY DEF Owned
<1>2. y.block.at \in Nat /\ Header \in Nat
  BY <1>1, HeapSizesAre DEF Possession, HeapBlock
<1>3. y.block.at = p + Header
  BY <1>2
<1>4. usedMem' = usedMem - (m[p].next - p)
  OBVIOUS
<1>5. mem' = FreedAt(m, p + Header).mem /\ lfree' = FreedAt(m, p + Header).lfree
  BY <1>3
<1> HIDE DEF p
<1>6. PICK D \in SUBSET B :
           /\ Sound(FreedAt(m, p + Header).mem, D, FreedAt(m, p + Header).lfree)
           /\ UsedIn(FreedAt(m, p + Header).mem, D) = UsedIn(m, B) \ {p}
           /\ \A q \in UsedIn(m, B) \ {p} : FreedAt(m, p + Header).mem[q].next = m[q].next
           /\ \A q \in 0 .. End : q \notin B => FreedAt(m, p + Header).mem[q] = m[q]
  BY <1>1, FreedFacts
<1>7. /\ Sound(mem', D, lfree')
      /\ UsedIn(mem', D) = U
      /\ \A q \in U : mem'[q].next = m[q].next
      /\ \A q \in 0 .. End : q \notin B => mem'[q] = m[q]
  BY <1>5, <1>6
<1>8. BlockChain(m, B)
  BY DEF Sound
<1>9. \A x \in O : \A q \in Words(x) : mem'[q] = m[q]
  BY <1>7, <1>8, WordFacts
<1>10. Owned(O \ {y}, mem', D)
  <2>1. UsedIn(mem', D) = UsedIn(m, B) \ {y.block.at - Header}
    BY <1>7 DEF p
  <2>2. \A q \in UsedIn(m, B) \ {y.block.at - Header} : mem'[q].next = m[q].next
    BY <1>7 DEF p
  <2> QED BY <1>9, <2>1, <2>2, OwnRemove
<1>11. p \in B \ {End} /\ U \in SUBSET (B \ {End}) /\ p \notin U
  BY <1>1 DEF UsedIn
<1>12. UsedIn(m, B) = U \union {p}
  BY <1>1
<1> HIDE DEF U
<1>13. Cardinality(RoomOf(m, U \union {p})) = Cardinality(RoomOf(m, U)) + (m[p].next - p)
  BY <1>8, <1>11, RoomAdd
<1>14. RoomOf(mem', U) = RoomOf(m, U)
  BY <1>7, RoomSame
<1>15. Cardinality(RoomOf(m, U)) \in Nat /\ m[p].next \in Nat /\ p \in Nat
  BY <1>8, <1>11, RoomFinite, BlockFacts
<1>16. usedMem' = Cardinality(RoomOf(mem', U))
  BY <1>4, <1>12, <1>13, <1>14, <1>15
<1> QED BY <1>7, <1>10, <1>16

LEMMA HeapFreeInv ==
  ASSUME HeapInv, NEW u \in HeapUser, NEW b \in held[u], HeapFree(u, b)
  PROVE  HeapInv'
<1>1. /\ growing[u] = NotGrowing
      /\ mem' = FreedAt(mem, b.at).mem /\ lfree' = FreedAt(mem, b.at).lfree
      /\ usedMem' = usedMem - (mem[b.at - Header].next - (b.at - Header))
      /\ held' = [held EXCEPT ![u] = @ \ {b}]
      /\ growing' = growing
  BY DEF HeapFree
<1>2. /\ Sound(mem, Blocks, lfree) /\ Owned(Own, mem, Blocks)
      /\ usedMem = Cardinality(RoomOf(mem, UsedIn(mem, Blocks)))
  BY DEF HeapInv
<1>3. Held(u, b) \in Own
  BY OwnNow
<1>4. Held(u, b).block.at = b.at
  BY KindsDiffer
<1>5. PICK D : /\ Sound(mem', D, lfree')
               /\ Owned(Own \ {Held(u, b)}, mem', D)
               /\ usedMem' = Cardinality(RoomOf(mem', UsedIn(mem', D)))
  <2>1. /\ mem' = FreedAt(mem, Held(u, b).block.at).mem
        /\ lfree' = FreedAt(mem, Held(u, b).block.at).lfree
        /\ usedMem' = usedMem - (mem[Held(u, b).block.at - Header].next - (Held(u, b).block.at - Header))
    BY <1>1, <1>4
  <2> QED BY <1>2, <1>3, <2>1, ReleaseFacts
<1>6. held'[u] = held[u] \ {b} /\ \A v \in HeapUser : v # u => held'[v] = held[v]
  BY <1>1 DEF HeapInv, HeapTypes
<1>7. HeapTypes'
  <2>1. held' \in [HeapUser -> SUBSET HeapBlock] /\ growing' \in [HeapUser -> Growth]
    BY <1>1 DEF HeapInv, HeapTypes
  <2>2. ASSUME NEW v \in HeapUser, growing'[v].step # "none" PROVE growing'[v].old \in held'[v]
    <3>1. v # u
      BY <1>1, <2>2 DEF NotGrowing
    <3> QED BY <1>1, <1>6, <2>2, <3>1 DEF HeapInv, HeapTypes
  <2> QED BY <2>1, <2>2 DEF HeapTypes
<1>8. Own' = Own \ {Held(u, b)}
  <2>1. \A v \in HeapUser : NewBlock(v)' = NewBlock(v)
    BY <1>1 DEF NewBlock
  <2>2. ASSUME NEW x PROVE x \in Own' <=> x \in Own \ {Held(u, b)}
    <3>1. ASSUME x \in Own' PROVE x \in Own \ {Held(u, b)}
      <4>1. CASE \E v \in HeapUser : \E c \in held'[v] : x = Held(v, c)
        <5>1. PICK v \in HeapUser : \E c \in held'[v] : x = Held(v, c)
          BY <4>1
        <5>2. PICK c \in held'[v] : x = Held(v, c)
          BY <5>1
        <5>3. c \in held[v] /\ (v = u => c # b)
          BY <1>6
        <5> QED BY <5>2, <5>3, OwnNow, KindsDiffer
      <4>2. CASE \E v \in HeapUser : growing'[v].step = "copy" /\ x = Fresh(v, NewBlock(v)')
        BY <1>1, <2>1, <4>2, OwnNow, KindsDiffer
      <4> QED BY <3>1, <4>1, <4>2, OwnNext
    <3>2. ASSUME x \in Own, x # Held(u, b) PROVE x \in Own'
      <4>1. CASE \E v \in HeapUser : \E c \in held[v] : x = Held(v, c)
        <5>1. PICK v \in HeapUser : \E c \in held[v] : x = Held(v, c)
          BY <4>1
        <5>2. PICK c \in held[v] : x = Held(v, c)
          BY <5>1
        <5>3. c \in held'[v]
          BY <1>6, <3>2, <5>2
        <5> QED BY <5>2, <5>3, OwnNext
      <4>2. CASE \E v \in HeapUser : growing[v].step = "copy" /\ x = Fresh(v, NewBlock(v))
        BY <1>1, <2>1, <4>2, OwnNext
      <4> QED BY <3>2, <4>1, <4>2, OwnNow
    <3> QED BY <3>1, <3>2
  <2> QED BY <2>2
<1> QED BY <1>5, <1>7, <1>8, HeapInvNext

(* A user's block is now of size n, in place, and the user fills the rest. *)
Resized(t, D, u, b, n) ==
  /\ growing[u] = NotGrowing /\ growing' = growing
  /\ held' = [held EXCEPT ![u] = (@ \ {b}) \union {[at |-> b.at, size |-> n]}]
  /\ Sound(t, D, lfree') /\ UsedIn(t, D) = UsedIn(mem, Blocks)
  /\ n <= DataSize(t, b.at - Header)
  /\ \A q \in UsedIn(mem, Blocks) \ {b.at - Header} : t[q].next = mem[q].next
  /\ \A x \in Own : \A q \in Words(x) : (x = Held(u, b) => q < b.at + n) => t[q] = mem[q]
  /\ mem' = Written(t, b.at + b.size, n - b.size, u)
  /\ usedMem' = Cardinality(RoomOf(t, UsedIn(t, D)))

LEMMA ResizedInv ==
  ASSUME HeapInv, NEW u \in HeapUser, NEW b \in held[u], NEW n \in HeapSizes,
         NEW t, NEW D, Resized(t, D, u, b, n)
  PROVE  HeapInv'
<1>0. /\ growing[u] = NotGrowing /\ growing' = growing
      /\ held' = [held EXCEPT ![u] = (@ \ {b}) \union {[at |-> b.at, size |-> n]}]
      /\ Sound(t, D, lfree') /\ UsedIn(t, D) = UsedIn(mem, Blocks)
      /\ n <= DataSize(t, b.at - Header)
      /\ \A q \in UsedIn(mem, Blocks) \ {b.at - Header} : t[q].next = mem[q].next
      /\ \A x \in Own : \A q \in Words(x) : (x = Held(u, b) => q < b.at + n) => t[q] = mem[q]
      /\ mem' = Written(t, b.at + b.size, n - b.size, u)
      /\ usedMem' = Cardinality(RoomOf(t, UsedIn(t, D)))
  BY DEF Resized
<1> DEFINE p == b.at - Header
           c == [at |-> b.at, size |-> n]
<1>1. /\ n \in Nat \ {0} /\ b \in HeapBlock /\ b.at \in Nat /\ b.size \in Nat \ {0}
      /\ Header \in Nat \ {0}
  BY SizeFacts, HeapSizesAre DEF HeapInv, HeapTypes, HeapBlock
<1>2. BlockChain(mem, Blocks) /\ Owned(Own, mem, Blocks) /\ BlockChain(t, D)
  BY <1>0 DEF HeapInv, Sound
<1>3. Held(u, b) \in Own /\ Held(u, b).block = b /\ Held(u, b).user = u /\ Held(u, b).kind = "held"
  BY OwnNow, KindsDiffer
<1>4. p \in UsedIn(t, D) /\ p \in D \ {End}
  BY <1>0, <1>2, <1>3 DEF Owned, UsedIn
<1>5. p + Header = b.at /\ b.at + n <= t[p].next /\ p \in Nat /\ t[p].next \in Nat /\ t[p].next <= End
  <2>1. p + Header = b.at
    BY <1>1
  <2>2. p \in Nat /\ t[p].next \in Nat /\ t[p].next <= End
    BY <1>2, <1>4, BlockFacts
  <2>3. n <= t[p].next - (p + Header)
    BY <1>0 DEF DataSize
  <2> HIDE DEF p
  <2> QED BY <1>1, <2>1, <2>2, <2>3
<1> HIDE DEF p
<1>6. /\ Sound(mem', D, lfree')
      /\ UsedIn(mem', D) = UsedIn(t, D)
      /\ \A q \in D : mem'[q] = t[q]
      /\ \A q \in 0 .. End : mem'[q]
           = IF q \in b.at + b.size .. b.at + b.size + (n - b.size) - 1 THEN u ELSE t[q]
  <2>1. /\ b.at + b.size \in Nat /\ n - b.size \in Int /\ p + Header <= b.at + b.size
        /\ b.at + b.size + (n - b.size) <= t[p].next
    BY <1>1, <1>5
  <2>2. /\ Sound(Written(t, b.at + b.size, n - b.size, u), D, lfree')
        /\ UsedIn(Written(t, b.at + b.size, n - b.size, u), D) = UsedIn(t, D)
        /\ \A q \in D : Written(t, b.at + b.size, n - b.size, u)[q] = t[q]
        /\ \A q \in 0 .. End : Written(t, b.at + b.size, n - b.size, u)[q]
             = IF q \in b.at + b.size .. b.at + b.size + (n - b.size) - 1 THEN u ELSE t[q]
    BY <1>0, <1>4, <2>1, WrittenFacts
  <2> QED BY <1>0, <2>2
<1>7. /\ \A q \in D : mem'[q] = t[q]
      /\ \A q \in 0 .. End : mem'[q] = IF b.at + b.size <= q /\ q < b.at + n THEN u ELSE t[q]
  BY <1>1, <1>6, HeapSizesAre
<1>8. c \in HeapBlock /\ Held(u, c) \in Possession
  BY <1>1 DEF HeapBlock, Held, Possession
<1> HIDE DEF c
<1>9. c.at = b.at /\ c.size = n
  BY DEF c
<1>10. held'[u] = (held[u] \ {b}) \union {c} /\ \A v \in HeapUser : v # u => held'[v] = held[v]
  BY <1>0 DEF HeapInv, HeapTypes, c
<1>11. HeapTypes'
  <2>1. held' \in [HeapUser -> SUBSET HeapBlock] /\ growing' \in [HeapUser -> Growth]
    BY <1>0, <1>8 DEF HeapInv, HeapTypes, c
  <2>2. ASSUME NEW v \in HeapUser, growing'[v].step # "none" PROVE growing'[v].old \in held'[v]
    <3>1. v # u
      BY <1>0, <2>2 DEF NotGrowing
    <3> QED BY <1>0, <1>10, <2>2, <3>1 DEF HeapInv, HeapTypes
  <2> QED BY <2>1, <2>2 DEF HeapTypes
<1>12. Own' = (Own \ {Held(u, b)}) \union {Held(u, c)}
  <2>1. \A v \in HeapUser : NewBlock(v)' = NewBlock(v)
    BY <1>0 DEF NewBlock
  <2>2. ASSUME NEW x, x \in Own' PROVE x \in (Own \ {Held(u, b)}) \union {Held(u, c)}
    <3>1. CASE \E v \in HeapUser : \E d \in held'[v] : x = Held(v, d)
      <4>1. PICK v \in HeapUser : \E d \in held'[v] : x = Held(v, d)
        BY <3>1
      <4>2. PICK d \in held'[v] : x = Held(v, d)
        BY <4>1
      <4>3. (d \in held[v] /\ (v = u => d # b)) \/ (v = u /\ d = c)
        BY <1>10
      <4> QED BY <4>2, <4>3, OwnNow, KindsDiffer
    <3>2. CASE \E v \in HeapUser : growing'[v].step = "copy" /\ x = Fresh(v, NewBlock(v)')
      BY <1>0, <2>1, <3>2, OwnNow, KindsDiffer
    <3> QED BY <2>2, <3>1, <3>2, OwnNext
  <2>3. ASSUME NEW x \in Own, x # Held(u, b) PROVE x \in Own'
    <3>1. CASE \E v \in HeapUser : \E d \in held[v] : x = Held(v, d)
      <4>1. PICK v \in HeapUser : \E d \in held[v] : x = Held(v, d)
        BY <3>1
      <4>2. PICK d \in held[v] : x = Held(v, d)
        BY <4>1
      <4>3. d \in held'[v]
        BY <1>10, <2>3, <4>2
      <4> QED BY <4>2, <4>3, OwnNext
    <3>2. CASE \E v \in HeapUser : growing[v].step = "copy" /\ x = Fresh(v, NewBlock(v))
      BY <1>0, <2>1, <3>2, OwnNext
    <3> QED BY <3>1, <3>2, OwnNow
  <2>4. Held(u, c) \in Own'
    BY <1>10, OwnNext
  <2> QED BY <2>2, <2>3, <2>4
<1>13. ASSUME NEW x \in Own \ {Held(u, b)}, NEW q \in Words(x) PROVE mem'[q] = mem[q]
  <2>1. x.block.at - Header \in UsedIn(mem, Blocks) /\ x.block.at - Header # p
    <3>1. x \in Possession /\ Held(u, b) \in Possession /\ x.block.at # b.at
      BY <1>2, <1>3 DEF Owned
    <3>2. x.block.at \in Nat
      BY <3>1 DEF Possession, HeapBlock
    <3> QED BY <1>1, <1>2, <1>5, <3>1, <3>2 DEF Owned
  <2>2. t[x.block.at - Header].next = mem[x.block.at - Header].next
    BY <1>0, <2>1 DEF p
  <2>3. q \in 0 .. End /\ (q < p \/ t[p].next <= q)
    <3>1. UsedIn(mem, Blocks) \subseteq UsedIn(t, D) /\ x \in Own
      BY <1>0
    <3> QED BY <1>2, <1>4, <2>1, <2>2, <3>1, OtherWords
  <2>4. ~ (b.at + b.size <= q /\ q < b.at + n)
    BY <1>1, <1>5, <2>3, HeapSizesAre
  <2>5. t[q] = mem[q]
    BY <1>0
  <2> QED BY <1>7, <2>3, <2>4, <2>5
<1>14. ASSUME NEW q \in Words(Held(u, c)) PROVE mem'[q] = u
  <2>1. q \in b.at .. b.at + n - 1
    BY <1>9, KindsDiffer DEF Words
  <2>2. q \in 0 .. End /\ q < b.at + n /\ b.at <= q
    BY <1>1, <1>5, <2>1, HeapSizesAre
  <2>3. CASE q < b.at + b.size
    <3>1. q \in Words(Held(u, b))
      BY <1>1, <1>3, <2>2, <2>3 DEF Words
    <3>2. mem[q] = u
      BY <1>2, <1>3, <3>1 DEF Owned
    <3>3. t[q] = mem[q]
      BY <1>0, <1>3, <2>2, <3>1
    <3> QED BY <1>1, <1>7, <2>2, <2>3, <3>2, <3>3
  <2>4. CASE ~ q < b.at + b.size
    BY <1>1, <1>7, <2>2, <2>4
  <2> QED BY <2>3, <2>4
<1>15. Owned(Own', mem', D)
  <2>1. Held(u, c).block.at = Held(u, b).block.at /\ Held(u, b).block.at - Header = p
    BY <1>3, <1>9, KindsDiffer DEF p
  <2>2. UsedIn(mem', D) = UsedIn(mem, Blocks)
    BY <1>0, <1>6
  <2>3. Held(u, c).block.size <= DataSize(mem', Held(u, c).block.at - Header)
    BY <1>0, <1>4, <1>7, <1>9, <2>1, KindsDiffer DEF DataSize, p
  <2>4. \A q \in UsedIn(mem, Blocks) \ {Held(u, b).block.at - Header} : mem'[q].next = mem[q].next
    <3>1. UsedIn(mem, Blocks) \subseteq D
      BY <1>0 DEF UsedIn
    <3> QED BY <1>0, <1>7, <2>1, <3>1 DEF p
  <2>5. \A q \in Words(Held(u, c)) : mem'[q] = Held(u, c).user
    BY <1>14, KindsDiffer
  <2> QED BY <1>2, <1>3, <1>8, <1>12, <1>13, <2>1, <2>2, <2>3, <2>4, <2>5, OwnReplace
<1>16. usedMem' = Cardinality(RoomOf(mem', UsedIn(mem', D)))
  <2>1. \A q \in UsedIn(t, D) : mem'[q].next = t[q].next
    BY <1>7 DEF UsedIn
  <2>2. RoomOf(mem', UsedIn(t, D)) = RoomOf(t, UsedIn(t, D))
    BY <2>1, RoomSame
  <2> QED BY <1>0, <1>6, <2>2
<1> QED BY <1>6, <1>11, <1>15, <1>16, HeapInvNext

LEMMA HeldBlock ==
  ASSUME HeapInv, NEW u \in HeapUser, NEW b \in held[u]
  PROVE  /\ b.at \in Nat /\ b.size \in Nat \ {0} /\ b.at = (b.at - Header) + Header
         /\ b.at - Header \in Blocks \ {End} /\ mem[b.at - Header].used
         /\ b.at - Header \in UsedIn(mem, Blocks)
         /\ mem[b.at - Header].next \in Nat /\ b.at - Header \in Nat
         /\ b.size <= DataSize(mem, b.at - Header)
         /\ DataSize(mem, b.at - Header) = mem[b.at - Header].next - b.at
<1>1. b.at \in Nat /\ b.size \in Nat \ {0} /\ Header \in Nat
  BY HeapSizesAre DEF HeapInv, HeapTypes, HeapBlock
<1>2. b.at = (b.at - Header) + Header
  BY <1>1
<1>3. Held(u, b) \in Own /\ Held(u, b).block = b
  BY OwnNow, KindsDiffer
<1>4. b.at - Header \in UsedIn(mem, Blocks) /\ b.size <= DataSize(mem, b.at - Header)
  BY <1>3 DEF HeapInv, Owned
<1>5. b.at - Header \in Blocks \ {End} /\ mem[b.at - Header].used
  BY <1>4 DEF UsedIn
<1>6. mem[b.at - Header].next \in Nat /\ b.at - Header \in Nat
  BY <1>5, BlockFacts DEF HeapInv, Sound
<1> QED BY <1>1, <1>2, <1>4, <1>5, <1>6 DEF DataSize

LEMMA ShrinkInv ==
  ASSUME HeapInv, NEW u \in HeapUser, NEW b \in held[u], NEW n \in HeapSizes, Shrink(u, b, n)
  PROVE  HeapInv'
<1> DEFINE p == b.at - Header
           r == b.at + n
           l == IF r < lfree THEN r ELSE lfree
           f == Plugged(CutAt(mem, p, r), l, r)
           U == UsedIn(mem, Blocks)
<1>1. /\ growing[u] = NotGrowing
      /\ n + Header + MinSize < DataSize(mem, p)
      /\ usedMem' = usedMem - (DataSize(mem, p) - n)
      /\ mem' = Written(f.mem, b.at + b.size, n - b.size, u)
      /\ lfree' = f.lfree
      /\ held' = [held EXCEPT ![u] = (@ \ {b}) \union {[at |-> b.at, size |-> n]}]
      /\ growing' = growing
  BY DEF Shrink, CutOff
<1>2. /\ b.at \in Nat /\ b.size \in Nat \ {0} /\ b.at = p + Header
      /\ p \in Blocks \ {End} /\ mem[p].used
      /\ p \in U
      /\ mem[p].next \in Nat /\ p \in Nat
      /\ b.size <= DataSize(mem, p)
      /\ DataSize(mem, p) = mem[p].next - b.at
  BY HeldBlock
<1>3. n \in Nat \ {0} /\ Header \in Nat \ {0} /\ MinSize \in Nat \ {0}
  BY SizeFacts, HeapSizesAre
<1>4. Sound(mem, Blocks, lfree) /\ BlockChain(mem, Blocks) /\ Owned(Own, mem, Blocks)
        /\ usedMem = Cardinality(RoomOf(mem, U))
  BY DEF HeapInv, Sound
<1> HIDE DEF p, U
<1>5. r \in Int /\ p + Header < r /\ r + Header < mem[p].next
  BY <1>1, <1>2, <1>3
<1> HIDE DEF r
<1>6. l = IF r < lfree THEN r ELSE lfree
  OBVIOUS
<1> HIDE DEF l
<1>7. PICK D : /\ Sound(Plugged(CutAt(mem, p, r), l, r).mem, D, Plugged(CutAt(mem, p, r), l, r).lfree)
               /\ UsedIn(Plugged(CutAt(mem, p, r), l, r).mem, D) = UsedIn(mem, Blocks)
               /\ Plugged(CutAt(mem, p, r), l, r).mem[p].next = r
               /\ \A q \in UsedIn(mem, Blocks) \ {p} :
                    Plugged(CutAt(mem, p, r), l, r).mem[q].next = mem[q].next
               /\ \A q \in 0 .. End : q \notin Blocks /\ q # r =>
                    Plugged(CutAt(mem, p, r), l, r).mem[q] = mem[q]
               /\ r < mem[p].next
  BY <1>2, <1>4, <1>5, <1>6, ShrunkFacts
<1>8. /\ Sound(f.mem, D, lfree') /\ UsedIn(f.mem, D) = U /\ f.mem[p].next = r
      /\ \A q \in U \ {p} : f.mem[q].next = mem[q].next
      /\ \A q \in 0 .. End : q \notin Blocks /\ q # r => f.mem[q] = mem[q]
  BY <1>1, <1>7 DEF U
<1> HIDE DEF f
<1>9. n <= DataSize(f.mem, p)
  BY <1>2, <1>3, <1>8 DEF DataSize, r
<1>10. ASSUME NEW x \in Own, NEW q \in Words(x), x = Held(u, b) => q < b.at + n
       PROVE  f.mem[q] = mem[q]
  <2>1. /\ q \in 0 .. End /\ q \notin Blocks
        /\ \A k \in Blocks \ {End} : k < q /\ q < mem[k].next => k = x.block.at - Header
    BY <1>4, WordFacts
  <2>2. q # r
    <3> SUFFICES ASSUME q = r PROVE FALSE
      OBVIOUS
    <3>1. p < q
      BY <1>2, <1>3, <1>5
    <3>2. p = x.block.at - Header
      BY <1>2, <1>5, <1>7, <2>1, <3>1
    <3>3. x \in Possession
      BY <1>4 DEF Owned
    <3>4. x.block.at = b.at
      BY <1>2, <1>3, <3>2, <3>3 DEF Possession, HeapBlock, p
    <3>5. x = Held(u, b)
      BY <1>4, <3>4, OwnNow, KindsDiffer DEF Owned
    <3> QED BY <1>2, <1>3, <1>10, <3>5 DEF r
  <2> QED BY <1>8, <2>1, <2>2
<1>11. usedMem' = Cardinality(RoomOf(f.mem, U))
  <2> DEFINE V == U \ {p}
  <2>1. U = V \union {p} /\ p \notin V
    BY <1>2
  <2>2. V \in SUBSET (Blocks \ {End}) /\ V \in SUBSET (D \ {End}) /\ p \in D \ {End}
    BY <1>2, <1>8 DEF UsedIn, U
  <2>3. RoomOf(f.mem, V) = RoomOf(mem, V)
    BY <1>8, RoomSame
  <2>4. BlockChain(f.mem, D)
    BY <1>8 DEF Sound
  <2> HIDE DEF V
  <2>5. Cardinality(RoomOf(mem, V \union {p})) = Cardinality(RoomOf(mem, V)) + (mem[p].next - p)
    <3>1. p \in Blocks \ {End}
      BY <1>2
    <3> QED BY <1>4, <2>1, <2>2, <3>1, RoomAdd
  <2>6. Cardinality(RoomOf(f.mem, V \union {p})) = Cardinality(RoomOf(f.mem, V)) + (f.mem[p].next - p)
    BY <2>1, <2>2, <2>4, RoomAdd
  <2>7. Cardinality(RoomOf(mem, V)) \in Nat
    BY <1>4, <2>2, RoomFinite
  <2>8. usedMem' = usedMem - ((mem[p].next - b.at) - n)
    BY <1>1, <1>2
  <2>9. r = b.at + n
    BY DEF r
  <2> DEFINE w == Cardinality(RoomOf(mem, V))
  <2>10. usedMem = w + (mem[p].next - p)
    BY <1>4, <2>1, <2>5
  <2>11. Cardinality(RoomOf(f.mem, U)) = w + (r - p)
    BY <1>8, <2>1, <2>3, <2>6
  <2>12. w \in Nat
    BY <2>7
  <2> HIDE DEF w
  <2>13. usedMem' = w + (r - p)
    BY <1>2, <1>3, <2>8, <2>9, <2>10, <2>12
  <2> QED BY <2>11, <2>13
<1>12. \A x \in Own : \A q \in Words(x) : (x = Held(u, b) => q < b.at + n) => f.mem[q] = mem[q]
  BY <1>10
<1>13. /\ n <= DataSize(f.mem, b.at - Header) /\ UsedIn(f.mem, D) = UsedIn(mem, Blocks)
       /\ \A q \in UsedIn(mem, Blocks) \ {b.at - Header} : f.mem[q].next = mem[q].next
       /\ usedMem' = Cardinality(RoomOf(f.mem, UsedIn(f.mem, D)))
  BY <1>8, <1>9, <1>11 DEF p, U
<1>14. Resized(f.mem, D, u, b, n)
  BY <1>1, <1>8, <1>12, <1>13 DEF Resized
<1> QED BY <1>14, ResizedInv

LEMMA SameSizeInv ==
  ASSUME HeapInv, NEW u \in HeapUser, NEW b \in held[u], NEW n \in HeapSizes, SameSize(u, b, n)
  PROVE  HeapInv'
<1>1. /\ growing[u] = NotGrowing
      /\ DataSize(mem, b.at - Header) = n
      /\ mem' = Written(mem, b.at + b.size, n - b.size, u)
      /\ held' = [held EXCEPT ![u] = (@ \ {b}) \union {[at |-> b.at, size |-> n]}]
      /\ lfree' = lfree /\ usedMem' = usedMem /\ growing' = growing
  BY DEF SameSize
<1>2. /\ Sound(mem, Blocks, lfree') /\ usedMem' = Cardinality(RoomOf(mem, UsedIn(mem, Blocks)))
  BY <1>1 DEF HeapInv
<1>3. n <= DataSize(mem, b.at - Header)
  BY <1>1, SizeFacts
<1>4. \A x \in Own : \A q \in Words(x) : (x = Held(u, b) => q < b.at + n) => mem[q] = mem[q]
  OBVIOUS
<1>5. Resized(mem, Blocks, u, b, n)
  BY <1>1, <1>2, <1>3, <1>4 DEF Resized
<1> QED BY <1>5, ResizedInv

(* A growing rt_realloc moves: only `growing' changes.                     *)
LEMMA GrowInv ==
  ASSUME HeapInv, NEW u \in HeapUser, NEW b \in held[u], NEW n \in HeapSizes, Grow(u, b, n)
  PROVE  HeapInv'
<1>1. /\ growing[u] = NotGrowing
      /\ growing' = [growing EXCEPT ![u] = [step |-> "malloc", old |-> b, size |-> n]]
      /\ mem' = mem /\ lfree' = lfree /\ usedMem' = usedMem /\ held' = held
  BY DEF Grow
<1>2. b \in HeapBlock /\ growing \in [HeapUser -> Growth]
  BY DEF HeapInv, HeapTypes
<1>3. [step |-> "malloc", old |-> b, size |-> n] \in Growth
  BY <1>2 DEF Growth
<1>4. growing' \in [HeapUser -> Growth]
  BY <1>1, <1>2, <1>3
<1>5. /\ growing'[u].step = "malloc" /\ growing'[u].old = b
      /\ \A v \in HeapUser : v # u => growing'[v] = growing[v]
  BY <1>1, <1>2
<1>6. HeapTypes'
  BY <1>1, <1>4, <1>5 DEF HeapInv, HeapTypes
<1>7. Own' = Own
  <2>1. growing[u].step # "copy"
    BY <1>1 DEF NotGrowing
  <2>2. \A v \in HeapUser : v # u => NewBlock(v)' = NewBlock(v)
    BY <1>5 DEF NewBlock
  <2>3. ASSUME NEW x PROVE x \in Own' <=> x \in Own
    BY <1>1, <1>5, <2>1, <2>2, OwnNow, OwnNext
  <2> QED BY <2>3
<1>8. Sound(mem', Blocks, lfree') /\ Owned(Own', mem', Blocks)
        /\ usedMem' = Cardinality(RoomOf(mem', UsedIn(mem', Blocks)))
  BY <1>1, <1>7 DEF HeapInv
<1> QED BY <1>6, <1>8, HeapInvNext

LEMMA GrowMallocInv ==
  ASSUME HeapInv, NEW u \in HeapUser, GrowMalloc(u)
  PROVE  HeapInv'
<1> DEFINE g == growing[u]
           p == Min(Fitting(Larger(g.size)))
           t == Taken(p, Larger(g.size))
           b == [at |-> p + Header, size |-> g.size]
<1>1. /\ g.step = "malloc"
      /\ growing \in [HeapUser -> Growth] /\ held \in [HeapUser -> SUBSET HeapBlock]
      /\ g.old \in held[u]
  BY DEF GrowMalloc, HeapInv, HeapTypes
<1>2. g \in Growth /\ g.old \in HeapBlock /\ g.size \in HeapSizes
  <2>1. g \in Growth
    BY <1>1
  <2> HIDE DEF g
  <2> QED BY <1>1, <2>1, GrowthFacts
<1>3. CASE Fitting(Larger(g.size)) = {}
  <2>1. /\ growing' = [growing EXCEPT ![u] = NotGrowing]
        /\ mem' = mem /\ lfree' = lfree /\ usedMem' = usedMem /\ held' = held
    BY <1>3 DEF GrowMalloc
  <2>2. /\ growing'[u] = NotGrowing /\ \A v \in HeapUser : v # u => growing'[v] = growing[v]
        /\ growing' \in [HeapUser -> Growth]
    BY <1>1, <2>1 DEF Growth
  <2>3. HeapTypes'
    BY <2>1, <2>2 DEF HeapInv, HeapTypes, NotGrowing
  <2>4. Own' = Own
    <3>1. \A v \in HeapUser : v # u => NewBlock(v)' = NewBlock(v)
      BY <2>2 DEF NewBlock
    <3>2. growing'[u].step # "copy" /\ growing[u].step # "copy"
      BY <1>1, <2>2 DEF NotGrowing
    <3>3. ASSUME NEW x PROVE x \in Own' <=> x \in Own
      BY <2>1, <2>2, <3>1, <3>2, OwnNow, OwnNext
    <3> QED BY <3>3
  <2>5. Sound(mem', Blocks, lfree') /\ Owned(Own', mem', Blocks)
          /\ usedMem' = Cardinality(RoomOf(mem', UsedIn(mem', Blocks)))
    BY <2>1, <2>4 DEF HeapInv
  <2> QED BY <2>3, <2>5, HeapInvNext
<1>4. CASE Fitting(Larger(g.size)) # {}
  <2>1. /\ AllocateAt(p, Larger(g.size))
        /\ mem' = t
        /\ growing' = [growing EXCEPT ![u] = [step |-> "copy", old |-> growing[u].old,
                                              size |-> growing[u].size, at |-> p + Header]]
        /\ held' = held
    BY <1>4 DEF GrowMalloc
  <2>2. g.size \in Nat \ {0} /\ Larger(g.size) \in Nat \ {0} /\ g.size <= Larger(g.size)
    BY <1>2, SizeFacts
  <2>3. p \in Blocks \ {End} /\ ~ mem[p].used /\ DataSize(mem, p) >= Larger(g.size)
    BY <1>4, <2>2, FitFacts
  <2> HIDE DEF p
  <2>4. PICK D : AllocatedIn(Taken(p, Larger(g.size)), D, p, Larger(g.size))
    BY <2>1, <2>2, <2>3, AllocateFacts
  <2> HIDE DEF t
  <2>5. /\ Sound(t, D, lfree')
        /\ p \notin UsedIn(mem, Blocks) /\ UsedIn(t, D) = UsedIn(mem, Blocks) \union {p}
        /\ DataSize(t, p) >= Larger(g.size)
        /\ usedMem' = Cardinality(RoomOf(t, UsedIn(t, D)))
        /\ \A q \in UsedIn(mem, Blocks) : t[q].next = mem[q].next
        /\ \A x \in Own : \A q \in Words(x) : t[q] = mem[q]
    BY <2>4 DEF AllocatedIn, t
  <2>6. p \in Nat /\ t[p].next \in Nat /\ Header \in Nat \ {0}
    <3>1. BlockChain(t, D)
      BY <2>5 DEF Sound
    <3>2. p \in D \ {End}
      BY <2>5 DEF UsedIn
    <3> QED BY <3>1, <3>2, BlockFacts, HeapSizesAre
  <2>7. g.size <= DataSize(t, p)
    <3>1. DataSize(t, p) \in Int
      BY <2>6 DEF DataSize
    <3> HIDE DEF g
    <3> QED BY <2>2, <2>5, <3>1
  <2>8. b \in HeapBlock
    BY <2>2, <2>6 DEF HeapBlock
  <2>9. Fresh(u, b) \in Possession
    BY <2>8 DEF Fresh, Possession
  <2>10. growing' = [growing EXCEPT ![u] = [step |-> "copy", old |-> g.old, size |-> g.size,
                                            at |-> p + Header]]
    BY <2>1
  <2> DEFINE h == [step |-> "copy", old |-> g.old, size |-> g.size, at |-> p + Header]
  <2>11. h \in Growth
    <3>1. p + Header \in Nat
      BY <2>6
    <3>2. h \in [step : {"copy"}, old : HeapBlock, size : HeapSizes, at : Nat]
      BY <1>2, <3>1
    <3> HIDE DEF h
    <3> QED BY <3>2 DEF Growth
  <2>12. h.step = "copy" /\ h.old = g.old /\ h.size = g.size /\ h.at = p + Header
    OBVIOUS
  <2> HIDE DEF h
  <2>13. /\ growing'[u] = h /\ \A v \in HeapUser : v # u => growing'[v] = growing[v]
         /\ growing' \in [HeapUser -> Growth]
    BY <1>1, <2>10, <2>11 DEF h
  <2>14. HeapTypes'
    BY <1>1, <2>1, <2>12, <2>13 DEF HeapInv, HeapTypes
  <2>15. Own' = Own \union {Fresh(u, b)}
    <3>1. \A v \in HeapUser : v # u => NewBlock(v)' = NewBlock(v)
      BY <2>13 DEF NewBlock
    <3>2. NewBlock(u)' = b
      BY <2>12, <2>13 DEF NewBlock
    <3>3. growing'[u].step = "copy" /\ growing[u].step # "copy"
      BY <1>1, <2>12, <2>13
    <3> HIDE DEF b
    <3>4. ASSUME NEW x PROVE x \in Own' <=> x \in Own \union {Fresh(u, b)}
      BY <2>1, <2>13, <3>1, <3>2, <3>3, OwnNow, OwnNext
    <3> QED BY <3>4
  <2> HIDE DEF b
  <2>16. b.at = p + Header /\ b.size = g.size
    BY DEF b
  <2>17. Owned(Own \union {Fresh(u, b)}, t, D)
    <3>1. Owned(Own, mem, Blocks)
      BY DEF HeapInv
    <3>2. Fresh(u, b).block.at = p + Header /\ Fresh(u, b).block.size <= DataSize(t, p)
            /\ Fresh(u, b).kind # "held"
      BY <2>7, <2>16, KindsDiffer
    <3> QED BY <2>5, <2>6, <2>9, <3>1, <3>2, OwnAdd
  <2>18. Sound(mem', D, lfree') /\ Owned(Own', mem', D)
           /\ usedMem' = Cardinality(RoomOf(mem', UsedIn(mem', D)))
    BY <2>1, <2>5, <2>15, <2>17
  <2> QED BY <2>14, <2>18, HeapInvNext
<1> QED BY <1>3, <1>4

(* The copy, after which the old block goes.                               *)
CopiedTo(u, g) ==
  LET n == IF g.old.size < g.size THEN g.old.size ELSE g.size IN
  [q \in 0 .. End |->
     IF q \in g.at .. g.at + n - 1 THEN mem[g.old.at + (q - g.at)]
     ELSE IF q \in g.at + n .. g.at + g.size - 1 THEN u ELSE mem[q]]

LEMMA CopyWrites ==
  ASSUME HeapInv, NEW u \in HeapUser, NEW g \in Growth, g.step = "copy", g.old \in held[u]
  PROVE  CopiedTo(u, g) = Written(mem, g.at, g.size, u)
<1>1. g.at \in Nat /\ g.size \in Nat \ {0} /\ g.old \in HeapBlock
  <2>1. g.old \in HeapBlock /\ g.size \in HeapSizes /\ g.at \in Nat
    BY GrowthFacts DEF NotGrowing
  <2> QED BY <2>1, SizeFacts
<1>2. g.old.at \in Nat /\ g.old.size \in Nat \ {0}
  BY <1>1 DEF HeapBlock
<1>3. \A q \in g.old.at .. g.old.at + g.old.size - 1 : mem[q] = u
  <2>1. Held(u, g.old) \in Own
    BY OwnNow
  <2> QED BY <2>1, KindsDiffer DEF HeapInv, Owned, Words
<1> DEFINE n == IF g.old.size < g.size THEN g.old.size ELSE g.size
<1>4. n \in Nat /\ n <= g.size /\ n <= g.old.size
  BY <1>1, <1>2
<1>5. CopiedTo(u, g) = [q \in 0 .. End |->
                          IF q \in g.at .. g.at + n - 1 THEN mem[g.old.at + (q - g.at)]
                          ELSE IF q \in g.at + n .. g.at + g.size - 1 THEN u ELSE mem[q]]
  BY DEF CopiedTo
<1> HIDE DEF n
<1>6. ASSUME NEW q \in 0 .. End
      PROVE  (IF q \in g.at .. g.at + n - 1 THEN mem[g.old.at + (q - g.at)]
              ELSE IF q \in g.at + n .. g.at + g.size - 1 THEN u ELSE mem[q])
               = IF q \in g.at .. g.at + g.size - 1 THEN u ELSE mem[q]
  <2>1. CASE q \in g.at .. g.at + n - 1
    <3>1. g.old.at + (q - g.at) \in g.old.at .. g.old.at + g.old.size - 1
      BY <1>1, <1>2, <1>4, <2>1
    <3>2. mem[g.old.at + (q - g.at)] = u
      BY <1>3, <3>1
    <3>3. q \in g.at .. g.at + g.size - 1
      BY <1>1, <1>4, <2>1
    <3> QED BY <2>1, <3>2, <3>3
  <2>2. CASE q \notin g.at .. g.at + n - 1
    <3>1. q \in g.at .. g.at + g.size - 1 <=> q \in g.at + n .. g.at + g.size - 1
      BY <1>1, <1>4, <2>2, HeapSizesAre
    <3> QED BY <2>2, <3>1
  <2> QED BY <2>1, <2>2
<1> QED BY <1>5, <1>6 DEF Written

LEMMA GrowCopyInv ==
  ASSUME HeapInv, NEW u \in HeapUser, GrowCopy(u)
  PROVE  HeapInv'
<1> DEFINE g == growing[u]
           a == g.old
           c == NewBlock(u)
           t == Written(mem, g.at, g.size, u)
           O == (Own \ {Fresh(u, c)}) \union {Held(u, c)}
<1>1. /\ g.step = "copy"
      /\ mem' = FreedAt(CopiedTo(u, g), a.at).mem /\ lfree' = FreedAt(CopiedTo(u, g), a.at).lfree
      /\ usedMem' = usedMem - (mem[a.at - Header].next - (a.at - Header))
      /\ held' = [held EXCEPT ![u] = (@ \ {a}) \union {c}]
      /\ growing' = [growing EXCEPT ![u] = NotGrowing]
  BY DEF GrowCopy, CopiedTo, NewBlock
<1>2. /\ growing \in [HeapUser -> Growth] /\ held \in [HeapUser -> SUBSET HeapBlock]
      /\ g \in Growth /\ a \in held[u]
  BY <1>1 DEF HeapInv, HeapTypes
<1>3. CopiedTo(u, g) = t
  <2> HIDE DEF g
  <2>1. g.old \in held[u]
    BY <1>2
  <2> QED BY <1>1, <1>2, <2>1, CopyWrites
<1>4. a \in HeapBlock /\ g.size \in HeapSizes /\ g.at \in Nat
  <2> HIDE DEF g
  <2> QED BY <1>1, <1>2, GrowthFacts DEF NotGrowing
<1>5. c.at = g.at /\ c.size = g.size /\ c \in HeapBlock /\ g.size \in Nat \ {0} /\ Header \in Nat \ {0}
  BY <1>4, SizeFacts, HeapSizesAre DEF NewBlock, HeapBlock
<1>6. Fresh(u, c) \in Own /\ Held(u, a) \in Own /\ Held(u, c) \in Possession
  BY <1>1, <1>2, <1>5, OwnNow DEF Held, Possession
<1>7. \A v \in HeapUser : v # u => NewBlock(v)' = NewBlock(v)
  BY <1>1, <1>2 DEF NewBlock
<1> HIDE DEF g, c
<1>8. /\ Sound(mem, Blocks, lfree) /\ BlockChain(mem, Blocks) /\ Owned(Own, mem, Blocks)
      /\ usedMem = Cardinality(RoomOf(mem, UsedIn(mem, Blocks)))
  BY DEF HeapInv, Sound
<1> DEFINE p == c.at - Header
<1>9. p \in UsedIn(mem, Blocks) /\ p \in Blocks \ {End} /\ c.size <= DataSize(mem, p)
  BY <1>6, <1>8, KindsDiffer DEF Owned, UsedIn
<1>10. p + Header = c.at /\ p \in Nat /\ mem[p].next \in Nat /\ c.at + c.size <= mem[p].next
         /\ mem[p].next <= End
  <2>1. p + Header = c.at
    BY <1>4, <1>5
  <2>2. p \in Nat /\ mem[p].next \in Nat /\ mem[p].next <= End
    BY <1>8, <1>9, BlockFacts
  <2>3. c.size <= mem[p].next - (p + Header)
    BY <1>9 DEF DataSize
  <2> HIDE DEF p
  <2> QED BY <1>4, <1>5, <2>1, <2>2, <2>3
<1> HIDE DEF p
<1>11. /\ Sound(t, Blocks, lfree)
       /\ UsedIn(t, Blocks) = UsedIn(mem, Blocks)
       /\ \A q \in Blocks : t[q] = mem[q]
       /\ \A q \in 0 .. End : t[q] = IF q \in g.at .. g.at + g.size - 1 THEN u ELSE mem[q]
  <2>1. g.at \in Nat /\ g.size \in Int /\ p + Header <= g.at /\ g.at + g.size <= mem[p].next
    BY <1>4, <1>5, <1>10
  <2>2. /\ Sound(Written(mem, g.at, g.size, u), Blocks, lfree)
        /\ UsedIn(Written(mem, g.at, g.size, u), Blocks) = UsedIn(mem, Blocks)
        /\ \A q \in Blocks : Written(mem, g.at, g.size, u)[q] = mem[q]
        /\ \A q \in 0 .. End : Written(mem, g.at, g.size, u)[q]
             = IF q \in g.at .. g.at + g.size - 1 THEN u ELSE mem[q]
    BY <1>8, <1>9, <2>1, WrittenFacts
  <2> QED BY <2>2
<1>12. mem' = FreedAt(t, a.at).mem /\ lfree' = FreedAt(t, a.at).lfree
  BY <1>1, <1>3
<1> HIDE DEF t
<1>13. BlockChain(t, Blocks)
  BY <1>11 DEF Sound
<1>14. ASSUME NEW x \in Own \ {Fresh(u, c)}, NEW q \in Words(x) PROVE t[q] = mem[q]
  <2>1. x.block.at - Header \in UsedIn(mem, Blocks) /\ x.block.at - Header # p
    <3>1. x \in Possession /\ x.block.at # c.at
      BY <1>6, <1>8, KindsDiffer DEF Owned
    <3>2. x.block.at \in Nat
      BY <3>1 DEF Possession, HeapBlock
    <3> QED BY <1>4, <1>5, <1>8, <1>10, <3>1, <3>2 DEF Owned
  <2>2. t[x.block.at - Header].next = mem[x.block.at - Header].next /\ t[p].next = mem[p].next
    BY <1>9, <1>11, <2>1 DEF UsedIn
  <2>3. q \in 0 .. End /\ (q < p \/ t[p].next <= q)
    <3>1. UsedIn(mem, Blocks) \subseteq UsedIn(t, Blocks) /\ x \in Own
      BY <1>11
    <3> QED BY <1>8, <1>9, <1>13, <2>1, <2>2, <3>1, OtherWords
  <2>4. q \notin g.at .. g.at + g.size - 1
    BY <1>4, <1>5, <1>10, <2>2, <2>3, HeapSizesAre
  <2> QED BY <1>11, <2>3, <2>4
<1>15. ASSUME NEW q \in Words(Held(u, c)) PROVE t[q] = u
  <2>1. q \in g.at .. g.at + g.size - 1
    BY <1>5, KindsDiffer DEF Words
  <2>2. q \in 0 .. End
    BY <1>4, <1>5, <1>10, <2>1, HeapSizesAre
  <2> QED BY <1>11, <2>1, <2>2
<1>16. Owned(O, t, Blocks)
  <2>1. /\ Held(u, c).block.at = Fresh(u, c).block.at /\ Fresh(u, c).block.at - Header = p
        /\ Held(u, c).block.at - Header = p
    BY KindsDiffer DEF p
  <2>2. Held(u, c).block.size <= DataSize(t, Held(u, c).block.at - Header)
    <3>1. t[p].next = mem[p].next
      BY <1>9, <1>11
    <3> QED BY <1>9, <2>1, <3>1, KindsDiffer DEF DataSize
  <2>3. \A q \in UsedIn(mem, Blocks) \ {Fresh(u, c).block.at - Header} : t[q].next = mem[q].next
    BY <1>11 DEF UsedIn
  <2>4. \A q \in Words(Held(u, c)) : t[q] = Held(u, c).user
    BY <1>15, KindsDiffer
  <2>5. UsedIn(t, Blocks) = UsedIn(mem, Blocks)
    BY <1>11
  <2> QED BY <1>6, <1>8, <1>14, <2>1, <2>2, <2>3, <2>4, <2>5, OwnReplace
<1>17. Held(u, a) \in O /\ Held(u, a) # Held(u, c)
  <2>1. a.at # c.at
    BY <1>6, <1>8, KindsDiffer DEF Owned
  <2>2. Held(u, a) # Fresh(u, c) /\ Held(u, a) # Held(u, c)
    BY <2>1, KindsDiffer
  <2> QED BY <1>6, <2>2
<1>18. usedMem = Cardinality(RoomOf(t, UsedIn(t, Blocks)))
  <2>1. \A q \in UsedIn(mem, Blocks) : t[q].next = mem[q].next
    BY <1>11 DEF UsedIn
  <2>2. RoomOf(t, UsedIn(mem, Blocks)) = RoomOf(mem, UsedIn(mem, Blocks))
    BY <2>1, RoomSame
  <2> QED BY <1>8, <1>11, <2>2
<1> HIDE DEF O
<1>19. PICK D : /\ Sound(mem', D, lfree')
                /\ Owned(O \ {Held(u, a)}, mem', D)
                /\ usedMem' = Cardinality(RoomOf(mem', UsedIn(mem', D)))
  <2>1. Held(u, a).block.at = a.at
    BY KindsDiffer
  <2>2. a.at - Header \in Blocks
    BY <1>6, <1>8, <2>1 DEF Owned, UsedIn
  <2>3. /\ mem' = FreedAt(t, Held(u, a).block.at).mem
        /\ lfree' = FreedAt(t, Held(u, a).block.at).lfree
        /\ usedMem' = usedMem - (t[Held(u, a).block.at - Header].next - (Held(u, a).block.at - Header))
    BY <1>1, <1>11, <1>12, <2>1, <2>2
  <2>4. Sound(t, Blocks, lfree)
    BY <1>11
  <2> QED BY <1>16, <1>17, <1>18, <2>3, <2>4, ReleaseFacts
<1>20. held'[u] = (held[u] \ {a}) \union {c} /\ \A v \in HeapUser : v # u => held'[v] = held[v]
  BY <1>1, <1>2
<1>21. growing'[u] = NotGrowing /\ \A v \in HeapUser : v # u => growing'[v] = growing[v]
  BY <1>1, <1>2
<1>22. HeapTypes'
  <2>1. held' \in [HeapUser -> SUBSET HeapBlock]
    BY <1>1, <1>2, <1>5
  <2>2. growing' \in [HeapUser -> Growth]
    BY <1>1, <1>2 DEF Growth
  <2>3. ASSUME NEW v \in HeapUser, growing'[v].step # "none" PROVE growing'[v].old \in held'[v]
    <3>1. v # u
      BY <1>21, <2>3 DEF NotGrowing
    <3> QED BY <1>20, <1>21, <2>3, <3>1 DEF HeapInv, HeapTypes
  <2> QED BY <2>1, <2>2, <2>3 DEF HeapTypes
<1>23. Own' = O \ {Held(u, a)}
  <2>1. ASSUME NEW x, x \in Own' PROVE x \in O \ {Held(u, a)}
    <3>1. CASE \E v \in HeapUser : \E d \in held'[v] : x = Held(v, d)
      <4>1. PICK v \in HeapUser : \E d \in held'[v] : x = Held(v, d)
        BY <3>1
      <4>2. PICK d \in held'[v] : x = Held(v, d)
        BY <4>1
      <4>3. (d \in held[v] /\ (v = u => d # a)) \/ (v = u /\ d = c)
        BY <1>20
      <4> QED BY <1>17, <4>2, <4>3, OwnNow, KindsDiffer DEF O
    <3>2. CASE \E v \in HeapUser : growing'[v].step = "copy" /\ x = Fresh(v, NewBlock(v)')
      <4>1. PICK v \in HeapUser : growing'[v].step = "copy" /\ x = Fresh(v, NewBlock(v)')
        BY <3>2
      <4>2. v # u
        BY <1>21, <4>1 DEF NotGrowing
      <4>3. growing[v].step = "copy" /\ x = Fresh(v, NewBlock(v))
        BY <1>7, <1>21, <4>1, <4>2
      <4> QED BY <4>2, <4>3, OwnNow, KindsDiffer DEF O
    <3> QED BY <2>1, <3>1, <3>2, OwnNext
  <2>2. ASSUME NEW x, x \in O, x # Held(u, a) PROVE x \in Own'
    <3>1. CASE x = Held(u, c)
      BY <1>20, <3>1, OwnNext
    <3>2. CASE x \in Own /\ x # Fresh(u, c)
      <4>1. CASE \E v \in HeapUser : \E d \in held[v] : x = Held(v, d)
        <5>1. PICK v \in HeapUser : \E d \in held[v] : x = Held(v, d)
          BY <4>1
        <5>2. PICK d \in held[v] : x = Held(v, d)
          BY <5>1
        <5>3. d \in held'[v]
          BY <1>20, <2>2, <5>2
        <5> QED BY <5>2, <5>3, OwnNext
      <4>2. CASE \E v \in HeapUser : growing[v].step = "copy" /\ x = Fresh(v, NewBlock(v))
        <5>1. PICK v \in HeapUser : growing[v].step = "copy" /\ x = Fresh(v, NewBlock(v))
          BY <4>2
        <5>2. v # u
          BY <3>2, <5>1 DEF c
        <5>3. growing'[v].step = "copy" /\ x = Fresh(v, NewBlock(v)')
          BY <1>7, <1>21, <5>1, <5>2
        <5> QED BY <5>3, OwnNext
      <4> QED BY <3>2, <4>1, <4>2, OwnNow
    <3> QED BY <2>2, <3>1, <3>2 DEF O
  <2> QED BY <2>1, <2>2
<1> QED BY <1>19, <1>22, <1>23, HeapInvNext

LEMMA HeapNextInv == HeapInv /\ [HeapNext]_heapVars => HeapInv'
<1> SUFFICES ASSUME HeapInv, [HeapNext]_heapVars PROVE HeapInv'
  OBVIOUS
<1>1. CASE UNCHANGED heapVars
  <2>1. mem' = mem /\ lfree' = lfree /\ usedMem' = usedMem /\ held' = held /\ growing' = growing
    BY <1>1 DEF heapVars
  <2>2. Own' = Own /\ HeapTypes'
    BY <2>1 DEF Own, NewBlock, HeapInv, HeapTypes
  <2> QED BY <2>1, <2>2, HeapInvNext DEF HeapInv
<1>2. CASE HeapNext
  <2>1. PICK u \in HeapUser :
          \/ GrowMalloc(u) \/ GrowCopy(u)
          \/ \E n \in HeapSizes : Malloc(u, n)
          \/ \E b \in held[u] :
               \/ HeapFree(u, b)
               \/ \E n \in HeapSizes : Shrink(u, b, n) \/ SameSize(u, b, n) \/ Grow(u, b, n)
    BY <1>2 DEF HeapNext
  <2>2. CASE GrowMalloc(u)
    BY <2>2, GrowMallocInv
  <2>3. CASE GrowCopy(u)
    BY <2>3, GrowCopyInv
  <2>4. CASE \E n \in HeapSizes : Malloc(u, n)
    BY <2>4, MallocInv
  <2>5. CASE \E b \in held[u] : HeapFree(u, b)
    BY <2>5, HeapFreeInv
  <2>6. ASSUME NEW b \in held[u], NEW n \in HeapSizes,
               Shrink(u, b, n) \/ SameSize(u, b, n) \/ Grow(u, b, n)
        PROVE  HeapInv'
    BY <2>6, ShrinkInv, SameSizeInv, GrowInv
  <2> QED BY <2>1, <2>2, <2>3, <2>4, <2>5, <2>6
<1> QED BY <1>1, <1>2

LEMMA HeapInvHolds == HeapSpec => []HeapInv
BY HeapInitInv, HeapNextInv, PTL DEF HeapSpec

LEMMA WellFormedFromInv == HeapInv => HeapWellFormed
<1> SUFFICES ASSUME HeapInv PROVE HeapWellFormed
  OBVIOUS
<1>1. /\ BlockChain(mem, Blocks) /\ Lowest(mem, Blocks, lfree) /\ ApartBut(mem, Blocks, {})
      /\ usedMem = Cardinality(RoomOf(mem, UsedIn(mem, Blocks)))
  BY DEF HeapInv, Sound
<1>2. End \in Blocks /\ 0 \in Blocks /\ Blocks \subseteq 0 .. End /\ mem[End].used
  BY <1>1 DEF BlockChain
<1>3. ASSUME NEW p \in Blocks \ {End}
      PROVE  /\ mem[p].next > p + Header
             /\ mem[p].next # End => mem[mem[p].next].prev = p
             /\ ~ (mem[p].next # End /\ ~ mem[p].used /\ ~ mem[mem[p].next].used)
  <2>1. p \in Nat /\ mem[p].next \in Nat /\ p + Header < mem[p].next /\ mem[p].next \in Blocks
          /\ p < mem[p].next
    BY <1>1, BlockFacts
  <2>2. mem[p].next > p + Header
    BY <2>1, HeapSizesAre
  <2>3. ASSUME mem[p].next # End PROVE mem[mem[p].next].prev = p
    <3>1. mem[p].next \in Blocks \ {0, End}
      BY <2>1, <2>3
    <3>2. mem[mem[p].next].prev \in Blocks \ {End} /\ mem[mem[mem[p].next].prev].next = mem[p].next
      BY <1>1, <3>1 DEF BlockChain, PrevAgrees
    <3> QED BY <1>1, <3>2, Successor
  <2>4. ~ (mem[p].next # End /\ ~ mem[p].used /\ ~ mem[mem[p].next].used)
    BY <1>1 DEF ApartBut
  <2> QED BY <2>2, <2>3, <2>4
<1>4. lfree = Min({p \in Blocks : ~ mem[p].used} \union {End})
  <2> DEFINE S == {p \in Blocks : ~ mem[p].used} \union {End}
  <2>1. S \in SUBSET Nat /\ S # {}
    <3>1. End \in Nat /\ \A q \in Blocks : q \in Nat
      BY <1>2, HeapSizesAre
    <3> QED BY <3>1
  <2>2. lfree \in S /\ \A q \in S : lfree <= q
    <3>1. lfree \in Blocks /\ (lfree # End => ~ mem[lfree].used)
            /\ \A q \in Blocks : ~ mem[q].used => lfree <= q
      BY <1>1 DEF Lowest
    <3>2. lfree <= End
      BY <1>2, <3>1, HeapSizesAre
    <3> QED BY <3>1, <3>2
  <2> HIDE DEF S
  <2>3. Min(S) \in S /\ \A q \in S : Min(S) <= q
    BY <2>1, MinFacts
  <2>4. lfree = Min(S)
    <3>1. Min(S) <= lfree /\ lfree <= Min(S)
      BY <2>2, <2>3
    <3>2. Min(S) \in Nat /\ lfree \in Nat
      BY <2>1, <2>2, <2>3
    <3> QED BY <3>1, <3>2
  <2> QED BY <2>4 DEF S
<1>5. usedMem = Cardinality(UNION {p .. mem[p].next - 1 : p \in InUse})
  BY <1>1 DEF RoomOf, UsedIn, InUse
<1> QED BY <1>2, <1>3, <1>4, <1>5 DEF HeapWellFormed, InUse

LEMMA IntactFromInv == HeapInv => HeldStaysIntact
<1> SUFFICES ASSUME HeapInv PROVE HeldStaysIntact
  OBVIOUS
<1>1. Owned(Own, mem, Blocks)
  BY DEF HeapInv
<1>2. ASSUME NEW u \in HeapUser, NEW b \in held[u], NEW q \in b.at .. b.at + b.size - 1
      PROVE  mem[q] = u
  <2>1. Held(u, b) \in Own
    BY OwnNow
  <2> QED BY <1>1, <2>1, KindsDiffer DEF Owned, Words
<1>3. \A x \in Own : x.block \in Given
  <2> TAKE x \in Own
  <2>1. CASE \E u \in HeapUser : \E b \in held[u] : x = Held(u, b)
    BY <2>1, KindsDiffer DEF Given
  <2>2. CASE \E u \in HeapUser : growing[u].step = "copy" /\ x = Fresh(u, NewBlock(u))
    BY <2>2, KindsDiffer DEF Given, NewBlock
  <2> QED BY <2>1, <2>2, OwnNow
<1>4. \A b \in Given : \E x \in Own : x.block = b
  <2> TAKE b \in Given
  <2>1. CASE \E u \in HeapUser : b \in held[u]
    <3>1. PICK u \in HeapUser : b \in held[u]
      BY <2>1
    <3>2. Held(u, b) \in Own
      BY <3>1, OwnNow
    <3> QED BY <3>2, KindsDiffer
  <2>2. CASE \E u \in HeapUser : growing[u].step = "copy" /\ b = NewBlock(u)
    <3>1. PICK u \in HeapUser : growing[u].step = "copy" /\ b = NewBlock(u)
      BY <2>2
    <3>2. Fresh(u, NewBlock(u)) \in Own
      BY <3>1, OwnNow
    <3> QED BY <3>1, <3>2, KindsDiffer
  <2> QED BY <2>1, <2>2 DEF Given, NewBlock
<1>5. InUse = {b.at - Header : b \in Given}
  <2>1. InUse = UsedIn(mem, Blocks)
    BY DEF InUse, UsedIn
  <2>2. \A p \in UsedIn(mem, Blocks) : p \in {b.at - Header : b \in Given}
    <3> TAKE p \in UsedIn(mem, Blocks)
    <3>1. PICK x \in Own : x.block.at - Header = p
      BY <1>1 DEF Owned
    <3> QED BY <1>3, <3>1
  <2>3. \A b \in Given : b.at - Header \in UsedIn(mem, Blocks)
    BY <1>1, <1>4 DEF Owned
  <2> QED BY <2>1, <2>2, <2>3
<1>6. \A b \in Given : b.size <= DataSize(mem, b.at - Header)
  BY <1>1, <1>4 DEF Owned
<1> QED BY <1>2, <1>5, <1>6 DEF HeldStaysIntact

(* Whatever is asked of it, in whatever order, and with growing reallocs   *)
(* of other threads halfway, the chain of headers rt_malloc, plug_holes    *)
(* and rt_realloc leave is one the next call can walk: it rises to         *)
(* heap_end, goes back the way it came, has no two free neighbours, starts *)
(* its search at the lowest free block and counts what is in use.          *)
THEOREM HeapStaysWellFormed == HeapSpec => []HeapWellFormed
BY HeapInvHolds, WellFormedFromInv, PTL

(* What a thread wrote in a block it was given stays there, through the    *)
(* splits, the merges and the moves of other blocks, and the blocks in use *)
(* are those given out: none leaks, none is given twice.                   *)
THEOREM HeapKeepsWhatIsHeld == HeapSpec => []HeldStaysIntact
BY HeapInvHolds, IntactFromInv, PTL
----------------------------------------------------------------------------
(***************************************************************************)
(* The shell edits its line as LineEditor says, for any line size, any     *)
(* keys and any commands, whatever polls find nothing and whatever bytes   *)
(* are lost.                                                               *)
(*                                                                         *)
(* LineInv is inductive.  Its last part says what may lie behind the line: *)
(* NULs, and then what is left of a line given up, up to the end of the    *)
(* buffer.  TAB needs it, because as long as the buffer has a NUL          *)
(* rt_strlen of it is line_position, and ENTER, because then an argument   *)
(* runs on either nowhere or into all that is left.                        *)
(***************************************************************************)
Chars == UNION {{Bytes(k)[i] : i \in 1 .. Len(Bytes(k))} : k \in Keys}

NulsFirst(l, n) == \A i, j \in n .. LineSize - 1 : i <= j /\ l[i] # Nul => l[j] # Nul

LineOK(l, n, c) ==
  /\ l = [i \in 0 .. LineSize - 1 |-> l[i]]
  /\ n \in 0 .. LineSize - 1 /\ c \in 0 .. n
  /\ \A i \in 0 .. n - 1 : l[i] # Nul
  /\ NulsFirst(l, n)

LineInv == LineOK(line, position, curpos) /\ wire \in Seq(Chars)

LEMMA LineSizeIs == LineSize \in Nat /\ LineSize >= 2
BY ShellAssumption

(* The text of a line.                                                     *)
LEMMA TextFacts ==
  ASSUME NEW l, NEW n \in Nat, NEW S, \A i \in 0 .. n - 1 : l[i] \in S
  PROVE  /\ AsText(l, n) \in Seq(S) /\ Len(AsText(l, n)) = n
         /\ \A i \in 1 .. n : AsText(l, n)[i] = l[i - 1]
<1>1. \A i \in 1 .. n : l[i - 1] \in S
  <2> TAKE i \in 1 .. n
  <2>1. i - 1 \in 0 .. n - 1
    OBVIOUS
  <2> QED BY <2>1
<1>2. \A i \in 1 .. n : AsText(l, n)[i] = l[i - 1]
  BY DEF AsText
<1>3. AsText(l, n) \in Seq(S)
  BY <1>1, IsASeq DEF AsText
<1>4. Len(AsText(l, n)) = n
  <2>1. DOMAIN AsText(l, n) = 1 .. n
    BY DEF AsText
  <2> QED BY <1>3, <2>1, LenProperties
<1> QED BY <1>2, <1>3, <1>4

LEMMA InsertedText ==
  ASSUME NEW S, NEW s \in Seq(S), NEW k \in 1 .. Len(s) + 1, NEW e \in S, NEW t \in Seq(S),
         Len(t) = Len(s) + 1,
         \A i \in 1 .. Len(t) : t[i] = IF i < k THEN s[i] ELSE IF i = k THEN e ELSE s[i - 1]
  PROVE  t = InsertAt(s, k, e)
<1> DEFINE a == SubSeq(s, 1, k - 1)
           b == SubSeq(s, k, Len(s))
<1>1. Len(s) \in Nat
  BY LenProperties
<1>2. /\ a \in Seq(S) /\ Len(a) = k - 1
      /\ \A i \in 1 .. k - 1 : a[i] = s[i]
  <2>1. \A i \in 1 .. k - 1 : s[i] \in S
    BY <1>1, ElementOfSeq
  <2> QED BY <1>1, <2>1, SubSeqProperties
<1>3. /\ b \in Seq(S) /\ Len(b) = Len(s) - k + 1
      /\ \A i \in 1 .. Len(s) - k + 1 : b[i] = s[k + i - 1]
  <2>1. \A i \in k .. Len(s) : s[i] \in S
    BY <1>1, ElementOfSeq
  <2> QED BY <1>1, <2>1, SubSeqProperties
<1> HIDE DEF a, b
<1>4. PICK c \in Seq(S) : c = a \o <<e>>
  <2>1. <<e>> \in Seq(S)
    OBVIOUS
  <2>2. a \o <<e>> \in Seq(S)
    BY <1>2, <2>1, ConcatProperties
  <2> QED BY <2>2
<1>5. /\ Len(c) = k
      /\ \A i \in 1 .. k : c[i] = IF i < k THEN s[i] ELSE e
  <2>1. /\ <<e>> \in Seq(S) /\ Len(<<e>>) = 1 /\ <<e>>[1] = e
    OBVIOUS
  <2>2. /\ Len(c) = Len(a) + 1
        /\ \A i \in 1 .. Len(a) + 1 : c[i] = IF i <= Len(a) THEN a[i] ELSE <<e>>[i - Len(a)]
    BY <1>2, <1>4, <2>1, ConcatProperties
  <2>3. \A i \in 1 .. k : c[i] = IF i < k THEN s[i] ELSE e
    <3> TAKE i \in 1 .. k
    <3>1. CASE i < k
      BY <1>1, <1>2, <2>2, <3>1
    <3>2. CASE i = k
      BY <1>1, <1>2, <2>1, <2>2, <3>2
    <3> QED BY <1>1, <3>1, <3>2
  <2> QED BY <1>1, <1>2, <2>2, <2>3
<1>6. PICK d \in Seq(S) : d = c \o b
  <2>1. c \o b \in Seq(S)
    BY <1>3, ConcatProperties
  <2> QED BY <2>1
<1>7. /\ Len(d) = Len(s) + 1
      /\ \A i \in 1 .. Len(s) + 1 : d[i] = IF i <= k THEN c[i] ELSE b[i - k]
  <2>1. /\ Len(d) = Len(c) + Len(b)
        /\ \A i \in 1 .. Len(c) + Len(b) : d[i] = IF i <= Len(c) THEN c[i] ELSE b[i - Len(c)]
    BY <1>3, <1>6, ConcatProperties
  <2>2. Len(c) + Len(b) = Len(s) + 1
    BY <1>1, <1>3, <1>5
  <2> QED BY <1>5, <2>1, <2>2
<1>8. \A i \in 1 .. Len(s) + 1 : d[i] = t[i]
  <2> TAKE i \in 1 .. Len(s) + 1
  <2>1. t[i] = IF i < k THEN s[i] ELSE IF i = k THEN e ELSE s[i - 1]
    OBVIOUS
  <2>2. CASE i <= k
    BY <1>1, <1>5, <1>7, <2>1, <2>2
  <2>3. CASE i > k
    <3>1. i - k \in 1 .. Len(s) - k + 1 /\ k + (i - k) - 1 = i - 1
      BY <1>1, <2>3
    <3>2. b[i - k] = s[i - 1]
      BY <1>3, <3>1
    <3> QED BY <1>1, <1>7, <2>1, <2>3, <3>2
  <2> QED BY <1>1, <2>2, <2>3
<1>9. d = t
  BY <1>7, <1>8, SeqEqual
<1> QED BY <1>4, <1>6, <1>9 DEF InsertAt, a, b

LEMMA RemovedText ==
  ASSUME NEW S, NEW s \in Seq(S), NEW k \in 1 .. Len(s), NEW t \in Seq(S),
         Len(t) = Len(s) - 1,
         \A i \in 1 .. Len(t) : t[i] = IF i < k THEN s[i] ELSE s[i + 1]
  PROVE  t = RemoveAt(s, k)
<1> DEFINE a == SubSeq(s, 1, k - 1)
           b == SubSeq(s, k + 1, Len(s))
<1>1. Len(s) \in Nat
  BY LenProperties
<1>2. /\ a \in Seq(S) /\ Len(a) = k - 1
      /\ \A i \in 1 .. k - 1 : a[i] = s[i]
  <2>1. \A i \in 1 .. k - 1 : s[i] \in S
    BY <1>1, ElementOfSeq
  <2> QED BY <1>1, <2>1, SubSeqProperties
<1>3. /\ b \in Seq(S) /\ Len(b) = Len(s) - k
      /\ \A i \in 1 .. Len(s) - k : b[i] = s[k + i]
  <2>1. \A i \in k + 1 .. Len(s) : s[i] \in S
    BY <1>1, ElementOfSeq
  <2> QED BY <1>1, <2>1, SubSeqProperties
<1> HIDE DEF a, b
<1>4. PICK d \in Seq(S) : d = a \o b
  <2>1. a \o b \in Seq(S)
    BY <1>2, <1>3, ConcatProperties
  <2> QED BY <2>1
<1>5. /\ Len(d) = Len(s) - 1
      /\ \A i \in 1 .. Len(s) - 1 : d[i] = IF i < k THEN a[i] ELSE b[i - (k - 1)]
  <2>1. /\ Len(d) = Len(a) + Len(b)
        /\ \A i \in 1 .. Len(a) + Len(b) : d[i] = IF i <= Len(a) THEN a[i] ELSE b[i - Len(a)]
    BY <1>2, <1>3, <1>4, ConcatProperties
  <2>2. Len(a) + Len(b) = Len(s) - 1 /\ Len(a) = k - 1
    BY <1>1, <1>2, <1>3
  <2>3. \A i \in Int : i <= k - 1 <=> i < k
    BY <1>1
  <2> QED BY <2>1, <2>2, <2>3
<1>6. \A i \in 1 .. Len(s) - 1 : d[i] = t[i]
  <2> TAKE i \in 1 .. Len(s) - 1
  <2>1. t[i] = IF i < k THEN s[i] ELSE s[i + 1]
    OBVIOUS
  <2>2. CASE i < k
    BY <1>1, <1>2, <1>5, <2>1, <2>2
  <2>3. CASE ~ i < k
    <3>1. i - (k - 1) \in 1 .. Len(s) - k /\ k + (i - (k - 1)) = i + 1
      BY <1>1, <2>3
    <3>2. b[i - (k - 1)] = s[i + 1]
      BY <1>3, <3>1
    <3> QED BY <1>1, <1>5, <2>1, <2>3, <3>2
  <2> QED BY <1>1, <2>2, <2>3
<1>7. d = t
  BY <1>5, <1>6, SeqEqual
<1> QED BY <1>4, <1>7 DEF RemoveAt, a, b

(* rt_strlen of a buffer whose first NUL is at n.                          *)
LEMMA StrlenFacts ==
  ASSUME NEW l, NEW n \in 0 .. LineSize - 1, l[n] = Nul, \A i \in 0 .. n - 1 : l[i] # Nul
  PROVE  Strlen(l) = n
<1> DEFINE Ends == {i \in 0 .. LineSize - 1 : l[i] = Nul} \union {LineSize}
<1>1. Ends \in SUBSET Nat /\ n \in Ends /\ \A i \in Ends : n <= i
  BY LineSizeIs
<1> HIDE DEF Ends
<1>2. Min(Ends) \in Ends /\ \A i \in Ends : Min(Ends) <= i
  BY <1>1, MinFacts
<1>3. Min(Ends) \in Nat /\ n \in Nat /\ Min(Ends) <= n /\ n <= Min(Ends)
  BY <1>1, <1>2
<1>4. Min(Ends) = n
  BY <1>3
<1> QED BY <1>4 DEF Strlen, Ends

(* Behind a line of n characters the first byte that is not NUL is at k.   *)
LeftAt(l, n, k) ==
  /\ k \in n .. LineSize
  /\ \A i \in n .. k - 1 : l[i] = Nul
  /\ \A i \in k .. LineSize - 1 : l[i] # Nul

FromOn(k, l) == [i \in 1 .. LineSize - k |-> l[k + i - 1]]

SameFrom(k, l, m) == \A i \in k .. LineSize - 1 : m[i] = l[i]

LEMMA BehindIs ==
  ASSUME NEW l, NEW n \in 0 .. LineSize - 1, NEW k, LeftAt(l, n, k)
  PROVE  Behind(l, n) = FromOn(k, l)
<1> DEFINE Marks == {i \in n .. LineSize - 1 : l[i] # Nul} \union {LineSize}
<1>1. k \in Nat /\ k >= n /\ k <= LineSize
  BY LineSizeIs DEF LeftAt
<1>2. Marks \in SUBSET Nat /\ k \in Marks
  <2>1. k < LineSize => k \in k .. LineSize - 1
    BY <1>1, LineSizeIs
  <2> QED BY <1>1, <2>1, LineSizeIs DEF LeftAt
<1>3. \A i \in Marks : k <= i
  BY <1>1, LineSizeIs DEF LeftAt
<1>4. Behind(l, n) = [i \in 1 .. LineSize - Min(Marks) |-> l[Min(Marks) + i - 1]]
  BY DEF Behind
<1> HIDE DEF Marks
<1>5. Min(Marks) \in Marks /\ \A i \in Marks : Min(Marks) <= i
  BY <1>2, MinFacts
<1>6. Min(Marks) \in Nat /\ Min(Marks) <= k /\ k <= Min(Marks)
  BY <1>2, <1>3, <1>5
<1>7. Min(Marks) = k
  BY <1>1, <1>6
<1> QED BY <1>4, <1>7 DEF FromOn

LEMMA LeftFrom ==
  ASSUME NEW l, NEW n \in 0 .. LineSize - 1,
         NulsFirst(l, n)
  PROVE  \E k : LeftAt(l, n, k)
<1> DEFINE Marks == {i \in n .. LineSize - 1 : l[i] # Nul} \union {LineSize}
<1>1. Marks \in SUBSET Nat /\ Marks # {}
  BY LineSizeIs
<1>2. PICK k \in Marks : \A i \in Marks : k <= i
  BY <1>1, LeastNatural
<1>3. k \in n .. LineSize /\ k \in Nat
  BY <1>2, LineSizeIs
<1>4. \A i \in n .. k - 1 : l[i] = Nul
  <2> TAKE i \in n .. k - 1
  <2>1. i \in n .. LineSize - 1 /\ ~ k <= i
    BY <1>3, LineSizeIs
  <2> QED BY <1>2, <2>1
<1>5. k < LineSize => k \in n .. LineSize - 1 /\ l[k] # Nul
  BY <1>2, <1>3, LineSizeIs
<1> HIDE DEF Marks
<1>6. \A i \in k .. LineSize - 1 : l[i] # Nul
  <2> TAKE i \in k .. LineSize - 1
  <2>1. k < LineSize /\ i \in n .. LineSize - 1 /\ k <= i
    BY <1>3, LineSizeIs
  <2> QED BY <1>5, <2>1 DEF NulsFirst
<1> QED BY <1>3, <1>4, <1>6 DEF LeftAt

LEMMA NulsComeFirst ==
  ASSUME NEW l, NEW n \in 0 .. LineSize - 1, NEW k, LeftAt(l, n, k)
  PROVE  NulsFirst(l, n)
<1>1. /\ k \in n .. LineSize
      /\ \A i \in n .. k - 1 : l[i] = Nul
      /\ \A i \in k .. LineSize - 1 : l[i] # Nul
  BY DEF LeftAt
<1> SUFFICES \A i, j \in n .. LineSize - 1 : i <= j /\ l[i] # Nul => l[j] # Nul
  BY DEF NulsFirst
<1> TAKE i, j \in n .. LineSize - 1
<1> HAVE i <= j /\ l[i] # Nul
<1>2. i \notin n .. k - 1
  BY <1>1
<1>3. j \in k .. LineSize - 1
  BY <1>1, <1>2, LineSizeIs
<1> QED BY <1>1, <1>3

(* A step that keeps the bytes from there on keeps what is left.           *)
LEMMA LeftStays ==
  ASSUME NEW l, NEW n \in 0 .. LineSize - 1, NEW m, NEW o \in 0 .. LineSize - 1, NEW k,
         LeftAt(l, n, k), LeftAt(m, o, k), SameFrom(k, l, m)
  PROVE  Behind(m, o) = Behind(l, n) /\ NulsFirst(m, o)
<1>1. k \in Nat /\ k <= LineSize
  BY LineSizeIs DEF LeftAt
<1>2. Behind(m, o) = FromOn(k, m) /\ Behind(l, n) = FromOn(k, l)
  BY BehindIs
<1>3. \A i \in 1 .. LineSize - k : m[k + i - 1] = l[k + i - 1]
  <2> TAKE i \in 1 .. LineSize - k
  <2>1. k + i - 1 \in k .. LineSize - 1
    BY <1>1, LineSizeIs
  <2> QED BY <2>1 DEF SameFrom
<1>4. NulsFirst(m, o)
  BY NulsComeFirst
<1> QED BY <1>2, <1>3, <1>4 DEF FromOn

LEMMA NothingBehind ==
  ASSUME NEW l, l = [i \in 0 .. LineSize - 1 |-> Nul]
  PROVE  LineOK(l, 0, 0) /\ Behind(l, 0) = <<>>
<1>1. 0 \in 0 .. LineSize - 1 /\ LineSize \in 0 .. LineSize
  BY LineSizeIs
<1>2. \A i \in 0 .. LineSize - 1 : l[i] = Nul
  OBVIOUS
<1>3. Behind(l, 0) = [i \in 1 .. LineSize - LineSize |-> l[LineSize + i - 1]]
  <2>1. LeftAt(l, 0, LineSize)
    BY <1>1, <1>2, LineSizeIs DEF LeftAt
  <2>2. Behind(l, 0) = FromOn(LineSize, l)
    BY <1>1, <2>1, BehindIs
  <2> QED BY <2>2 DEF FromOn
<1>4. LineSize - LineSize = 0
  BY LineSizeIs
<1>5. Behind(l, 0) = <<>>
  BY <1>3, <1>4
<1>6. LineOK(l, 0, 0)
  BY <1>1, <1>2 DEF LineOK, NulsFirst
<1> QED BY <1>5, <1>6

(* The longest common prefix of the commands that begin with s.            *)
LEMMA PrefixOf ==
  ASSUME NEW S, NEW s \in Seq(S), NEW T, NEW t \in Seq(T)
  PROVE  IsPrefix(s, t) <=> Len(s) <= Len(t) /\ \A i \in 1 .. Len(s) : s[i] = t[i]
<1>1. Len(s) \in Nat /\ Len(t) \in Nat
  BY LenProperties
<1>2. SubSeq(s, 1, Len(s)) = s
  BY SubSeqFull
<1>3. CASE Len(s) <= Len(t)
  <2> DEFINE u == SubSeq(t, 1, Len(s))
  <2>1. /\ u \in Seq(T) /\ Len(u) = Len(s)
        /\ \A i \in 1 .. Len(s) : u[i] = t[i]
    <3>1. \A i \in 1 .. Len(s) : t[i] \in T
      BY <1>1, <1>3, ElementOfSeq
    <3> QED BY <1>1, <1>3, <3>1, SubSeqProperties
  <2> HIDE DEF u
  <2>2. s = u <=> \A i \in 1 .. Len(s) : s[i] = u[i]
    <3>1. s \in Seq(S \union T) /\ u \in Seq(S \union T)
      BY <2>1, SeqMonotonic
    <3> QED BY <2>1, <3>1, SeqEqual
  <2> QED BY <1>2, <1>3, <2>1, <2>2 DEF IsPrefix, u
<1>4. CASE ~ Len(s) <= Len(t)
  BY <1>4 DEF IsPrefix
<1> QED BY <1>3, <1>4

LEMMA CommandText ==
  ASSUME NEW cmd \in Commands
  PROVE  /\ cmd \in Seq(STRING) /\ Len(cmd) \in Nat /\ Len(cmd) < LineSize
         /\ \A i \in 1 .. Len(cmd) : cmd[i] # Nul
<1>1. /\ cmd \in Seq(STRING) \ {<<>>} /\ Len(cmd) < LineSize
      /\ \A i \in 1 .. Len(cmd) : cmd[i] # "nul"
  BY ShellAssumption, Zenon
<1>2. cmd \in Seq(STRING)
  BY <1>1, Zenon
<1>3. Len(cmd) \in Nat
  BY <1>2, LenProperties, Zenon
<1> QED BY <1>1, <1>2, <1>3, Zenon DEF Nul

(* A prefix of a command, as a sequence.                                   *)
LEMMA PrefixFacts ==
  ASSUME NEW c \in Commands, NEW x \in Prefixes(c)
  PROVE  /\ x \in Seq(STRING) /\ Len(x) \in Nat /\ Len(x) <= Len(c)
         /\ \A i \in 1 .. Len(x) : x[i] = c[i] /\ x[i] # Nul
<1>1. /\ c \in Seq(STRING) /\ Len(c) \in Nat
      /\ \A i \in 1 .. Len(c) : c[i] # Nul
  BY CommandText
<1>2. PICK n \in 0 .. Len(c) : x = SubSeq(c, 1, n)
  BY DEF Prefixes
<1>3. \A i \in 1 .. n : c[i] \in STRING
  BY <1>1, ElementOfSeq
<1>4. /\ x \in Seq(STRING) /\ Len(x) = n
      /\ \A i \in 1 .. n : x[i] = c[i]
  BY <1>1, <1>2, <1>3, SubSeqProperties
<1> QED BY <1>1, <1>4

LEMMA CompletionFacts ==
  ASSUME NEW S, NEW s \in Seq(S), Matching(s) # {}
  PROVE  /\ LongestCommonPrefix(Matching(s)) \in Seq(STRING)
         /\ Len(s) <= Len(LongestCommonPrefix(Matching(s)))
         /\ Len(LongestCommonPrefix(Matching(s))) \in 0 .. LineSize - 1
         /\ \A i \in 1 .. Len(s) : LongestCommonPrefix(Matching(s))[i] = s[i]
         /\ \A i \in 1 .. Len(LongestCommonPrefix(Matching(s))) :
              LongestCommonPrefix(Matching(s))[i] # Nul
<1> DEFINE M == Matching(s)
           P == CommonPrefixes(M)
           g == LongestCommonPrefix(M)
<1>1. PICK c \in Commands : c \in M /\ IsPrefix(s, c)
  BY DEF Matching
<1>2. \A x : x \in P <=> (\E d \in M : x \in Prefixes(d)) /\ \A t \in M : IsPrefix(x, t)
  BY DEF CommonPrefixes
<1>3. \A d \in M : d \in Commands /\ IsPrefix(s, d)
  BY DEF Matching
<1>4. s \in P
  <2>1. c \in Seq(STRING) /\ Len(c) \in Nat /\ Len(s) \in Nat
    BY CommandText, LenProperties
  <2>2. Len(s) <= Len(c) /\ SubSeq(s, 1, Len(s)) = SubSeq(c, 1, Len(s))
    BY <1>1 DEF IsPrefix
  <2>3. s = SubSeq(c, 1, Len(s))
    BY <2>2, SubSeqFull
  <2>4. Len(s) \in 0 .. Len(c)
    BY <2>1, <2>2
  <2>5. s \in Prefixes(c)
    BY <2>3, <2>4, Zenon DEF Prefixes
  <2> QED BY <1>1, <1>2, <1>3, <2>5
<1>5. \A x \in P : Len(x) \in Nat /\ Len(x) <= Len(c)
  <2> TAKE x \in P
  <2>1. PICK d \in M : x \in Prefixes(d)
    BY <1>2
  <2>2. Len(x) \in Nat
    BY <1>3, <2>1, PrefixFacts
  <2>3. Len(x) <= Len(c)
    BY <1>1, <1>2 DEF IsPrefix
  <2> QED BY <2>2, <2>3
<1>6. Len(c) \in Nat /\ Len(c) < LineSize
  BY CommandText
<1> HIDE DEF P, M
<1>7. \E x \in P : \A y \in P : Len(y) <= Len(x)
  <2> DEFINE L == {Len(c) - Len(x) : x \in P}
  <2>1. L \in SUBSET Nat /\ L # {}
    BY <1>4, <1>5, <1>6
  <2>2. \E l \in L : \A k \in L : l <= k
    BY <2>1, LeastNatural
  <2>3. PICK x \in P : \A k \in L : Len(c) - Len(x) <= k
    BY <2>2
  <2>4. \A y \in P : Len(c) - Len(x) <= Len(c) - Len(y)
    BY <2>3
  <2>5. \A y \in P : Len(y) <= Len(x)
    BY <1>5, <1>6, <2>4
  <2> QED BY <2>5
<1>8. g \in P /\ \A y \in P : Len(y) <= Len(g)
  <2>1. g = CHOOSE x \in P : \A y \in P : Len(y) <= Len(x)
    BY DEF LongestCommonPrefix, P
  <2> QED BY <1>7, <2>1
<1> HIDE DEF g
<1>9. PICK d \in M : g \in Prefixes(d)
  BY <1>2, <1>8
<1>10. d \in Commands /\ d \in Seq(STRING) /\ Len(d) \in Nat /\ Len(d) < LineSize
  BY <1>3, <1>9, CommandText
<1>11. /\ g \in Seq(STRING) /\ Len(g) \in Nat /\ Len(g) <= Len(d)
       /\ \A i \in 1 .. Len(g) : g[i] = d[i] /\ g[i] # Nul
  BY <1>9, <1>10, PrefixFacts
<1>12. Len(s) <= Len(g) /\ Len(s) \in Nat
  BY <1>4, <1>8, LenProperties
<1>13. \A i \in 1 .. Len(s) : s[i] = d[i]
  BY <1>3, <1>9, <1>10, PrefixOf
<1>14. \A i \in 1 .. Len(s) : g[i] = s[i]
  BY <1>11, <1>12, <1>13
<1>15. Len(g) \in 0 .. LineSize - 1
  BY <1>10, <1>11, LineSizeIs
<1> QED BY <1>11, <1>12, <1>14, <1>15 DEF g, M

(* A step of the editor, or none.                                          *)
EditorStep ==
  \/ \E c \in Chars : Editor!Type(c)
  \/ Editor!Erase \/ Editor!Move \/ Editor!Complete \/ Editor!Enter
  \/ UNCHANGED <<AsText(line, position), curpos, Behind(line, position), ran>>

Characters(l, m) ==
  {l[i] : i \in 0 .. LineSize - 1} \union {m[i] : i \in 0 .. LineSize - 1}

(* The text of a line, in a set that holds the characters of two lines.    *)
LEMMA TextOf ==
  ASSUME NEW l, NEW m, NEW n \in 0 .. LineSize
  PROVE  /\ AsText(l, n) \in Seq(Characters(l, m)) /\ AsText(l, n) \in Seq(Characters(m, l))
         /\ Len(AsText(l, n)) = n
         /\ \A i \in 1 .. n : AsText(l, n)[i] = l[i - 1]
<1>1. n \in Nat /\ \A i \in 0 .. n - 1 : i \in 0 .. LineSize - 1
  BY LineSizeIs
<1>2. \A i \in 0 .. n - 1 : l[i] \in Characters(l, m) /\ l[i] \in Characters(m, l)
  BY <1>1 DEF Characters
<1> QED BY <1>1, <1>2, TextFacts

(* What lies behind the line, from its first byte left.                    *)
LEMMA LeftOfLine ==
  ASSUME LineInv
  PROVE  \E k : LeftAt(line, position, k)
<1>1. /\ position \in 0 .. LineSize - 1
      /\ NulsFirst(line, position)
  BY DEF LineInv, LineOK
<1> QED BY <1>1, LeftFrom

LEMMA TypedKeeps ==
  ASSUME LineInv, NEW ch \in Chars, Insert(ch)
  PROVE  LineOK(line', position', curpos') /\ EditorStep
<1>1. /\ line = [i \in 0 .. LineSize - 1 |-> line[i]]
      /\ position \in 0 .. LineSize - 1 /\ curpos \in 0 .. position
      /\ \A i \in 0 .. position - 1 : line[i] # Nul
  BY DEF LineInv, LineOK
<1>2. ~ position >= LineSize
  BY <1>1, LineSizeIs
<1>3. /\ ch # Nul /\ UNCHANGED ran
      /\ line' = IF curpos < position
                   THEN [i \in 0 .. LineSize - 1 |->
                           IF i = curpos THEN ch
                           ELSE IF i \in curpos + 1 .. position THEN line[i - 1] ELSE line[i]]
                   ELSE [line EXCEPT ![position] = ch]
      /\ position' = IF position + 1 >= LineSize THEN 0 ELSE position + 1
      /\ curpos' = IF position + 1 >= LineSize THEN 0 ELSE curpos + 1
  BY <1>2 DEF Insert
<1>4. line' = [i \in 0 .. LineSize - 1 |->
                 IF i = curpos THEN ch
                 ELSE IF i \in curpos + 1 .. position THEN line[i - 1] ELSE line[i]]
  <2>1. CASE curpos < position
    BY <1>3, <2>1
  <2>2. CASE ~ curpos < position
    <3>1. curpos = position /\ curpos + 1 .. position = {}
      BY <1>1, <2>2
    <3>2. line' = [line EXCEPT ![position] = ch]
      BY <1>3, <2>2
    <3>3. [line EXCEPT ![position] = ch]
            = [i \in 0 .. LineSize - 1 |-> IF i = position THEN ch ELSE line[i]]
      BY <1>1
    <3> QED BY <3>1, <3>2, <3>3
  <2> QED BY <2>1, <2>2
<1>5. line' = [i \in 0 .. LineSize - 1 |-> line'[i]]
  BY <1>4
<1>6. \A i \in 0 .. position : line'[i] # Nul
  <2> TAKE i \in 0 .. position
  <2>1. i \in 0 .. LineSize - 1
    BY <1>1, LineSizeIs
  <2>2. line'[i] = IF i = curpos THEN ch
                   ELSE IF i \in curpos + 1 .. position THEN line[i - 1] ELSE line[i]
    BY <1>4, <2>1
  <2>3. i = curpos \/ (i \in curpos + 1 .. position /\ i - 1 \in 0 .. position - 1)
          \/ (i < curpos /\ i \in 0 .. position - 1 /\ i \notin curpos + 1 .. position)
    BY <1>1
  <2> QED BY <1>1, <1>3, <2>2, <2>3
<1> DEFINE S == Characters(line, line')
           s == AsText(line, position)
           t == AsText(line', position + 1)
<1>7. /\ s \in Seq(S) /\ Len(s) = position
      /\ \A i \in 1 .. position : s[i] = line[i - 1]
  <2>1. position \in 0 .. LineSize
    BY <1>1, LineSizeIs
  <2> QED BY <2>1, TextOf
<1>8. /\ t \in Seq(S) /\ Len(t) = position + 1
      /\ \A i \in 1 .. position + 1 : t[i] = line'[i - 1]
  <2>1. position + 1 \in 0 .. LineSize
    BY <1>1, LineSizeIs
  <2> QED BY <2>1, TextOf
<1>9. ch \in S
  <2>1. curpos \in 0 .. LineSize - 1
    BY <1>1, LineSizeIs
  <2>2. line'[curpos] = ch
    BY <1>4, <2>1
  <2> QED BY <2>1, <2>2 DEF Characters
<1> HIDE DEF S, s, t
<1>10. \A i \in 1 .. Len(t) : t[i] = IF i < curpos + 1 THEN s[i]
                                    ELSE IF i = curpos + 1 THEN ch ELSE s[i - 1]
  <2> TAKE i \in 1 .. Len(t)
  <2>1. i \in 1 .. position + 1 /\ i - 1 \in 0 .. LineSize - 1
    BY <1>1, <1>8, LineSizeIs
  <2>2. t[i] = IF i - 1 = curpos THEN ch
               ELSE IF i - 1 \in curpos + 1 .. position THEN line[(i - 1) - 1] ELSE line[i - 1]
    BY <1>4, <1>8, <2>1
  <2>3. CASE i < curpos + 1
    <3>1. i - 1 # curpos /\ i - 1 \notin curpos + 1 .. position /\ i \in 1 .. position
      BY <1>1, <2>1, <2>3
    <3> QED BY <1>7, <2>2, <2>3, <3>1
  <2>4. CASE i = curpos + 1
    <3>1. i - 1 = curpos /\ ~ i < curpos + 1
      BY <1>1, <2>4
    <3> QED BY <2>2, <2>4, <3>1
  <2>5. CASE i > curpos + 1
    <3>1. /\ i - 1 # curpos /\ i - 1 \in curpos + 1 .. position
          /\ i - 1 \in 1 .. position /\ ~ i < curpos + 1 /\ i # curpos + 1
      BY <1>1, <2>1, <2>5
    <3> QED BY <1>7, <2>2, <3>1
  <2> QED BY <1>1, <2>1, <2>3, <2>4, <2>5
<1>11. curpos + 1 \in 1 .. Len(s) + 1 /\ Len(t) = Len(s) + 1
  BY <1>1, <1>7, <1>8
<1>12. t = Editor!InsertAt(s, curpos + 1, ch)
  <2>1. t = InsertAt(s, curpos + 1, ch)
    BY <1>7, <1>8, <1>9, <1>10, <1>11, InsertedText
  <2> QED BY <2>1 DEF InsertAt, Editor!InsertAt
<1>13. CASE position + 1 >= LineSize
  <2>1. position' = 0 /\ curpos' = 0 /\ position + 1 = LineSize
    BY <1>1, <1>3, <1>13, LineSizeIs
  <2>2. \A i \in 0 .. LineSize - 1 : line'[i] # Nul
    BY <1>1, <1>6, <2>1
  <2>3. /\ 0 \in 0 .. LineSize - 1 /\ 0 \in 0 .. LineSize /\ 0 < LineSize
        /\ \A i : i \notin 0 .. 0 - 1
    BY LineSizeIs
  <2>4. NulsFirst(line', 0)
    BY <2>2 DEF NulsFirst
  <2>5. LineOK(line', position', curpos')
    <3>1. position' \in 0 .. LineSize - 1 /\ curpos' \in 0 .. position'
      BY <2>1, <2>3
    <3>2. \A i \in 0 .. position' - 1 : line'[i] # Nul
      BY <2>1, <2>3
    <3> QED BY <1>5, <2>1, <2>4, <3>1, <3>2 DEF LineOK
  <2>6. AsText(line, position)' = <<>>
    <3>1. AsText(line, position)' = [i \in 1 .. 0 |-> line'[i - 1]]
      BY <2>1 DEF AsText
    <3> QED BY <3>1
  <2>7. Behind(line, position)' = t
    <3>1. LeftAt(line', 0, 0)
      BY <2>2, <2>3 DEF LeftAt
    <3>2. Behind(line', 0) = [i \in 1 .. LineSize - 0 |-> line'[0 + i - 1]]
      <4>1. Behind(line', 0) = FromOn(0, line')
        BY <2>3, <3>1, BehindIs
      <4> QED BY <4>1 DEF FromOn
    <3>3. t = [i \in 1 .. LineSize |-> line'[i - 1]]
      BY <2>1 DEF AsText, t
    <3>4. LineSize - 0 = LineSize /\ \A i \in 1 .. LineSize : 0 + i - 1 = i - 1
      BY LineSizeIs
    <3>5. Behind(line', 0) = t
      BY <3>2, <3>3, <3>4
    <3> QED BY <2>1, <3>5
  <2>8. Editor!Type(ch)
    <3>1. ~ Len(s) + 1 < LineSize
      BY <1>1, <1>7, <2>1, LineSizeIs
    <3> QED BY <1>3, <1>12, <2>1, <2>6, <2>7, <3>1 DEF Editor!Type, s
  <2> QED BY <2>5, <2>8 DEF EditorStep
<1>14. CASE ~ position + 1 >= LineSize
  <2>1. /\ position' = position + 1 /\ curpos' = curpos + 1
        /\ position + 1 \in 0 .. LineSize - 1
    BY <1>1, <1>3, <1>14, LineSizeIs
  <2>2. PICK k : LeftAt(line, position, k)
    BY LeftOfLine
  <2>3. /\ k \in position .. LineSize
        /\ \A i \in position .. k - 1 : line[i] = Nul
        /\ \A i \in k .. LineSize - 1 : line[i] # Nul
        /\ Behind(line, position) = FromOn(k, line)
    BY <1>1, <2>2, BehindIs DEF LeftAt
  <2>4. \A i \in position + 1 .. LineSize - 1 : line'[i] = line[i]
    <3> TAKE i \in position + 1 .. LineSize - 1
    <3>1. i \in 0 .. LineSize - 1 /\ i # curpos /\ i \notin curpos + 1 .. position
      BY <1>1, LineSizeIs
    <3> QED BY <1>4, <3>1
  <2>5. /\ \/ Behind(line', position + 1) = Behind(line, position)
           \/ /\ Behind(line, position) # <<>>
              /\ Behind(line', position + 1) = Tail(Behind(line, position))
        /\ NulsFirst(line', position + 1)
    <3>1. CASE k > position
      <4>1. /\ position + 1 <= k /\ k \in position + 1 .. LineSize
            /\ position + 1 \in 0 .. LineSize - 1
        BY <1>1, <2>1, <2>3, <3>1, LineSizeIs
      <4>2. \A i \in position + 1 .. k - 1 : line'[i] = Nul
        <5> TAKE i \in position + 1 .. k - 1
        <5>1. i \in position .. k - 1 /\ i \in position + 1 .. LineSize - 1
          BY <1>1, <2>3, LineSizeIs
        <5> QED BY <2>3, <2>4, <5>1
      <4>3. \A i \in k .. LineSize - 1 : line'[i] = line[i] /\ line[i] # Nul
        <5> TAKE i \in k .. LineSize - 1
        <5>1. i \in position + 1 .. LineSize - 1
          BY <1>1, <2>3, <3>1, LineSizeIs
        <5> QED BY <2>3, <2>4, <5>1
      <4>4. LeftAt(line', position + 1, k) /\ SameFrom(k, line, line')
        BY <2>3, <4>1, <4>2, <4>3 DEF LeftAt, SameFrom
      <4>5. Behind(line', position + 1) = Behind(line, position) /\ NulsFirst(line', position + 1)
        BY <1>1, <2>2, <4>1, <4>4, LeftStays
      <4> QED BY <4>5
    <3>2. CASE k = position
      <4> DEFINE b == Behind(line, position)
                 n == LineSize - position
      <4>1. /\ n \in Nat /\ n >= 2 /\ n - 1 \in Nat
            /\ position + 1 \in position + 1 .. LineSize
            /\ position + 1 < LineSize /\ position + 1 \in position + 1 .. LineSize - 1
            /\ \A i : i \notin position + 1 .. (position + 1) - 1
        BY <1>1, <2>1, LineSizeIs
      <4>2. \A i \in position + 1 .. LineSize - 1 : line'[i] # Nul
        <5> TAKE i \in position + 1 .. LineSize - 1
        <5>1. i \in k .. LineSize - 1
          BY <1>1, <3>2, LineSizeIs
        <5> QED BY <2>3, <2>4, <5>1
      <4>3. Behind(line', position + 1)
              = [i \in 1 .. LineSize - (position + 1) |-> line'[(position + 1) + i - 1]]
        <5>1. LeftAt(line', position + 1, position + 1)
          BY <4>1, <4>2 DEF LeftAt
        <5>2. Behind(line', position + 1) = FromOn(position + 1, line')
          BY <2>1, <5>1, BehindIs
        <5> QED BY <5>2 DEF FromOn
      <4>4. b = [i \in 1 .. n |-> line[position + i - 1]]
        BY <2>3, <3>2 DEF FromOn
      <4>5. \A i \in 1 .. n - 1 :
              /\ line'[(position + 1) + i - 1] = line[position + (i + 1) - 1]
              /\ i + 1 \in 1 .. n
        <5> TAKE i \in 1 .. n - 1
        <5>1. /\ (position + 1) + i - 1 \in position + 1 .. LineSize - 1
              /\ (position + 1) + i - 1 = position + (i + 1) - 1 /\ i + 1 \in 1 .. n
          BY <1>1, LineSizeIs
        <5> QED BY <2>4, <5>1
      <4>6. LineSize - (position + 1) = n - 1
        BY <1>1, LineSizeIs
      <4> DEFINE c == Behind(line', position + 1)
      <4>7. DOMAIN c = 1 .. n - 1 /\ c = [i \in 1 .. n - 1 |-> c[i]]
            /\ \A i \in 1 .. n - 1 : c[i] = b[i + 1]
        <5> HIDE DEF b, n
        <5>1. c = [i \in 1 .. n - 1 |-> line'[(position + 1) + i - 1]]
          BY <4>3, <4>6
        <5> HIDE DEF c
        <5> QED BY <4>4, <4>5, <5>1
      <4> HIDE DEF c
      <4>8. b \in Seq({line[i] : i \in 0 .. LineSize - 1}) /\ Len(b) = n /\ b # <<>>
        <5>1. \A i \in 1 .. n : position + i - 1 \in 0 .. LineSize - 1
          BY <1>1, LineSizeIs
        <5>2. \A i \in 1 .. n : b[i] \in {line[j] : j \in 0 .. LineSize - 1}
          BY <4>4, <5>1
        <5>3. DOMAIN b = 1 .. n /\ b = [i \in 1 .. n |-> b[i]]
          BY <4>4
        <5> HIDE DEF b, n
        <5>4. b \in Seq({line[i] : i \in 0 .. LineSize - 1})
          BY <4>1, <5>2, <5>3, IsASeq
        <5>5. Len(b) = n
          BY <4>1, <5>3, <5>4, LenProperties
        <5> QED BY <4>1, <5>4, <5>5
      <4> HIDE DEF b, n
      <4>9. c \in Seq({line[i] : i \in 0 .. LineSize - 1}) /\ Len(c) = n - 1
        <5>1. \A i \in 1 .. n : b[i] \in {line[j] : j \in 0 .. LineSize - 1}
          BY <4>8, ElementOfSeq
        <5>2. \A i \in 1 .. n - 1 : c[i] \in {line[j] : j \in 0 .. LineSize - 1}
          BY <4>5, <4>7, <5>1
        <5>3. c \in Seq({line[i] : i \in 0 .. LineSize - 1})
          BY <4>1, <4>7, <5>2, IsASeq
        <5> QED BY <4>1, <4>7, <5>3, LenProperties
      <4>10. c = Tail(b)
        <5>1. /\ Tail(b) \in Seq({line[i] : i \in 0 .. LineSize - 1}) /\ Len(Tail(b)) = n - 1
              /\ \A i \in 1 .. n - 1 : Tail(b)[i] = b[i + 1]
          BY <4>8, HeadTailProperties
        <5> QED BY <4>7, <4>9, <5>1, SeqEqual
      <4>11. NulsFirst(line', position + 1)
        BY <4>2 DEF NulsFirst
      <4> QED BY <4>8, <4>10, <4>11 DEF b, c
    <3> QED BY <1>1, <2>3, <3>1, <3>2
  <2>6. LineOK(line', position', curpos')
    <3>1. position' \in 0 .. LineSize - 1 /\ curpos' \in 0 .. position'
      BY <1>1, <2>1, LineSizeIs
    <3>2. 0 .. position' - 1 = 0 .. position
      BY <1>1, <2>1
    <3> QED BY <1>5, <1>6, <2>1, <2>5, <3>1, <3>2 DEF LineOK
  <2>7. Len(s) + 1 < LineSize
    BY <1>1, <1>7, <2>1, LineSizeIs
  <2>8. Editor!Type(ch)
    BY <1>3, <1>12, <2>1, <2>5, <2>7 DEF Editor!Type, s, t
  <2> QED BY <2>6, <2>8 DEF EditorStep
<1> QED BY <1>13, <1>14

LEMMA ErasedKeeps ==
  ASSUME LineInv, NEW ch, Backspace(ch)
  PROVE  LineOK(line', position', curpos') /\ EditorStep
<1>1. /\ line = [i \in 0 .. LineSize - 1 |-> line[i]]
      /\ position \in 0 .. LineSize - 1 /\ curpos \in 0 .. position
      /\ \A i \in 0 .. position - 1 : line[i] # Nul
  BY DEF LineInv, LineOK
<1>2. CASE curpos = 0
  <2>1. UNCHANGED <<line, position, curpos, ran>>
    BY <1>2 DEF Backspace
  <2>2. LineOK(line', position', curpos')
    BY <2>1 DEF LineInv
  <2>3. UNCHANGED <<AsText(line, position), curpos, Behind(line, position), ran>>
    BY <2>1 DEF AsText, Behind
  <2> QED BY <2>2, <2>3 DEF EditorStep
<1>3. CASE curpos # 0
  <2>1. /\ UNCHANGED ran
        /\ position' = position - 1 /\ curpos' = curpos - 1
        /\ line' = [i \in 0 .. LineSize - 1 |->
                      IF i = position' THEN Nul
                      ELSE IF i \in curpos' .. position' - 1 THEN line[i + 1] ELSE line[i]]
    BY <1>3 DEF Backspace
  <2>2. \A i \in 0 .. position - 2 :
          line'[i] = IF i >= curpos - 1 THEN line[i + 1] ELSE line[i]
    <3> TAKE i \in 0 .. position - 2
    <3>1. i \in 0 .. LineSize - 1 /\ i # position - 1
      BY <1>1, LineSizeIs
    <3>2. line'[i] = IF i \in curpos - 1 .. position - 2 THEN line[i + 1] ELSE line[i]
      BY <1>1, <2>1, <3>1
    <3>3. i \in curpos - 1 .. position - 2 <=> i >= curpos - 1
      BY <1>1
    <3> QED BY <3>2, <3>3
  <2>3. /\ Behind(line', position') = Behind(line, position)
        /\ NulsFirst(line', position')
    <3>1. PICK k : LeftAt(line, position, k)
      BY LeftOfLine
    <3>2. /\ k \in position .. LineSize
          /\ \A i \in position .. k - 1 : line[i] = Nul
          /\ \A i \in k .. LineSize - 1 : line[i] # Nul
      BY <3>1 DEF LeftAt
    <3>3. position' \in 0 .. LineSize - 1 /\ position' <= k /\ k \in position' .. LineSize
      BY <1>1, <1>3, <2>1, <3>2, LineSizeIs
    <3>4. \A i \in position' .. k - 1 : line'[i] = Nul
      <4> TAKE i \in position' .. k - 1
      <4>1. /\ i \in 0 .. LineSize - 1 /\ i \notin curpos' .. position' - 1
            /\ i = position' \/ i \in position .. k - 1
        BY <1>1, <1>3, <2>1, <3>2, LineSizeIs
      <4> QED BY <2>1, <3>2, <4>1
    <3>5. \A i \in k .. LineSize - 1 : line'[i] = line[i] /\ line[i] # Nul
      <4> TAKE i \in k .. LineSize - 1
      <4>1. /\ i \in 0 .. LineSize - 1 /\ i \notin curpos' .. position' - 1
            /\ i # position'
        BY <1>1, <1>3, <2>1, <3>2, LineSizeIs
      <4> QED BY <2>1, <3>2, <4>1
    <3>6. LeftAt(line', position', k) /\ SameFrom(k, line, line')
      BY <3>2, <3>3, <3>4, <3>5 DEF LeftAt, SameFrom
    <3> QED BY <1>1, <3>1, <3>3, <3>6, LeftStays
  <2>4. LineOK(line', position', curpos')
    <3>1. line' = [i \in 0 .. LineSize - 1 |-> line'[i]]
      BY <2>1
    <3>2. position' \in 0 .. LineSize - 1 /\ curpos' \in 0 .. position'
      BY <1>1, <1>3, <2>1, LineSizeIs
    <3>3. \A i \in 0 .. position' - 1 : line'[i] # Nul
      <4> TAKE i \in 0 .. position' - 1
      <4>1. i \in 0 .. position - 2 /\ i \in 0 .. position - 1 /\ i + 1 \in 0 .. position - 1
        BY <1>1, <2>1
      <4> QED BY <1>1, <2>2, <4>1
    <3> QED BY <2>3, <3>1, <3>2, <3>3 DEF LineOK
  <2> DEFINE S == Characters(line, line')
             s == AsText(line, position)
             t == AsText(line', position')
  <2>5. /\ s \in Seq(S) /\ Len(s) = position
        /\ \A i \in 1 .. position : s[i] = line[i - 1]
    <3>1. position \in 0 .. LineSize
      BY <1>1, LineSizeIs
    <3> QED BY <3>1, TextOf
  <2>6. /\ t \in Seq(S) /\ Len(t) = position - 1
        /\ \A i \in 1 .. position - 1 : t[i] = line'[i - 1]
    <3>1. position - 1 \in 0 .. LineSize
      BY <1>1, <1>3, LineSizeIs
    <3> QED BY <2>1, <3>1, TextOf
  <2> HIDE DEF S, s, t
  <2>7. \A i \in 1 .. Len(t) : t[i] = IF i < curpos THEN s[i] ELSE s[i + 1]
    <3> TAKE i \in 1 .. Len(t)
    <3>1. /\ i \in 1 .. position - 1 /\ i - 1 \in 0 .. position - 2
          /\ i \in 1 .. position /\ i + 1 \in 1 .. position /\ (i - 1) + 1 = (i + 1) - 1
      BY <1>1, <2>6
    <3>2. t[i] = IF i - 1 >= curpos - 1 THEN line[(i - 1) + 1] ELSE line[i - 1]
      BY <2>2, <2>6, <3>1
    <3>3. s[i] = line[i - 1] /\ s[i + 1] = line[(i + 1) - 1]
      BY <2>5, <3>1
    <3>4. i - 1 >= curpos - 1 <=> ~ i < curpos
      BY <1>1, <3>1
    <3> QED BY <3>1, <3>2, <3>3, <3>4
  <2>8. curpos \in 1 .. Len(s) /\ Len(t) = Len(s) - 1
    BY <1>1, <1>3, <2>5, <2>6
  <2>9. t = RemoveAt(s, curpos)
    BY <2>5, <2>6, <2>7, <2>8, RemovedText
  <2>10. Editor!Erase
    <3>1. t = Editor!RemoveAt(s, curpos)
      BY <2>9 DEF RemoveAt, Editor!RemoveAt
    <3>2. curpos > 0
      BY <1>1, <1>3
    <3> QED BY <2>1, <2>3, <3>1, <3>2 DEF Editor!Erase, s, t
  <2> QED BY <2>4, <2>10 DEF EditorStep
<1> QED BY <1>2, <1>3

(* A buffer in which a completion leaves a NUL had it before, behind what  *)
(* was written.                                                            *)
LEMMA NulLeft ==
  ASSUME LineInv, NEW ch, TabKey(ch)
  PROVE  /\ \E i \in 0 .. LineSize - 1 : line'[i] = Nul
         /\ \A i \in 0 .. LineSize - 1 : line'[i] = Nul => line[i] = Nul
<1>1. /\ line = [i \in 0 .. LineSize - 1 |-> line[i]]
      /\ line' = Completed(line) /\ Strlen(line') < LineSize
  BY DEF LineInv, LineOK, TabKey
<1>2. \E i \in 0 .. LineSize - 1 : line'[i] = Nul
  <2> DEFINE Ends == {i \in 0 .. LineSize - 1 : line'[i] = Nul} \union {LineSize}
  <2>1. Ends \in SUBSET Nat /\ LineSize \in Ends
    BY LineSizeIs
  <2>2. Strlen(line') = Min(Ends)
    BY DEF Strlen
  <2>3. Strlen(line') \in Ends /\ Strlen(line') \in Nat
    <3> HIDE DEF Ends
    <3> QED BY <2>1, <2>2, MinFacts
  <2>4. Strlen(line') # LineSize
    BY <1>1, <2>3, LineSizeIs
  <2> QED BY <2>3, <2>4
<1>3. \A i \in 0 .. LineSize - 1 : line'[i] = Nul => line[i] = Nul
  <2> DEFINE n == Strlen(line)
             s == AsText(line, n)
             common == IF s = <<>> \/ Matching(s) = {} THEN s ELSE LongestCommonPrefix(Matching(s))
             Ends == {i \in 0 .. LineSize - 1 : line[i] = Nul} \union {LineSize}
  <2>1. /\ n \in Nat /\ n <= LineSize
        /\ \A i \in 0 .. n - 1 : i \in 0 .. LineSize - 1 /\ line[i] # Nul
    <3>1. Ends \in SUBSET Nat /\ LineSize \in Ends
      BY LineSizeIs
    <3>2. n = Min(Ends)
      BY DEF Strlen
    <3>3. n \in Nat /\ \A i \in Ends : n <= i
      <4> HIDE DEF Ends, n
      <4> QED BY <3>1, <3>2, MinFacts
    <3>4. n <= LineSize
      BY <3>1, <3>3
    <3>5. ASSUME NEW i \in 0 .. n - 1 PROVE i \in 0 .. LineSize - 1 /\ line[i] # Nul
      <4> HIDE DEF n
      <4>1. i \in 0 .. LineSize - 1 /\ ~ n <= i
        BY <3>3, <3>4, LineSizeIs
      <4> QED BY <3>3, <4>1
    <3> HIDE DEF n
    <3> QED BY <3>3, <3>4, <3>5
  <2>2. line' = [i \in 0 .. LineSize - 1 |-> IF i < Len(common) THEN common[i + 1] ELSE line[i]]
    BY <1>1 DEF Completed
  <2>3. /\ s \in Seq(Characters(line, line)) /\ Len(s) = n
        /\ \A i \in 1 .. n : s[i] = line[i - 1]
    <3> HIDE DEF n
    <3>1. n \in 0 .. LineSize
      BY <2>1, LineSizeIs
    <3> QED BY <3>1, TextOf
  <2> HIDE DEF n, s
  <2>4. Len(common) \in Nat /\ \A i \in 1 .. Len(common) : common[i] # Nul
    <3>1. CASE s = <<>> \/ Matching(s) = {}
      <4>1. \A i \in 1 .. n : i - 1 \in 0 .. n - 1
        BY <2>1
      <4>2. \A i \in 1 .. n : s[i] # Nul
        BY <2>1, <2>3, <4>1
      <4>3. common = s
        BY <3>1
      <4> HIDE DEF common
      <4> QED BY <2>1, <2>3, <4>2, <4>3
    <3>2. CASE ~ (s = <<>> \/ Matching(s) = {})
      <4>1. common = LongestCommonPrefix(Matching(s)) /\ Matching(s) # {}
        BY <3>2
      <4>2. /\ LongestCommonPrefix(Matching(s)) \in Seq(STRING)
            /\ Len(s) <= Len(LongestCommonPrefix(Matching(s)))
            /\ Len(LongestCommonPrefix(Matching(s))) \in 0 .. LineSize - 1
            /\ \A i \in 1 .. Len(s) : LongestCommonPrefix(Matching(s))[i] = s[i]
            /\ \A i \in 1 .. Len(LongestCommonPrefix(Matching(s))) :
                 LongestCommonPrefix(Matching(s))[i] # Nul
        BY <2>3, <4>1, CompletionFacts
      <4> HIDE DEF common
      <4> QED BY <4>1, <4>2, LineSizeIs
    <3> QED BY <3>1, <3>2
  <2> HIDE DEF common
  <2> TAKE i \in 0 .. LineSize - 1
  <2>5. i < Len(common) => i + 1 \in 1 .. Len(common)
    BY <2>4
  <2> QED BY <2>2, <2>4, <2>5
<1> QED BY <1>2, <1>3

LEMMA CompletedKeeps ==
  ASSUME LineInv, NEW ch, TabKey(ch)
  PROVE  LineOK(line', position', curpos') /\ EditorStep
<1>1. /\ line = [i \in 0 .. LineSize - 1 |-> line[i]]
      /\ position \in 0 .. LineSize - 1 /\ curpos \in 0 .. position
      /\ \A i \in 0 .. position - 1 : line[i] # Nul
  BY DEF LineInv, LineOK
<1>2. /\ line' = Completed(line) /\ UNCHANGED ran
      /\ position' = Strlen(line') /\ curpos' = position'
  BY DEF TabKey
<1>3. PICK k : LeftAt(line, position, k)
  BY LeftOfLine
<1>4. /\ k \in position .. LineSize
      /\ \A i \in position .. k - 1 : line[i] = Nul
      /\ \A i \in k .. LineSize - 1 : line[i] # Nul
  BY <1>3 DEF LeftAt
<1>5. PICK q \in 0 .. LineSize - 1 : line'[q] = Nul /\ line[q] = Nul
  BY NulLeft
<1>6. q \in position .. k - 1 /\ position \in position .. k - 1
  <2>1. q \notin 0 .. position - 1 /\ q \notin k .. LineSize - 1
    BY <1>1, <1>4, <1>5
  <2> QED BY <1>1, <1>4, <1>5, <2>1, LineSizeIs
<1>7. Strlen(line) = position
  BY <1>1, <1>4, <1>6, StrlenFacts
<1> DEFINE S == Characters(line, line')
           s == AsText(line, position)
           t == AsText(line', position')
           common == IF s = <<>> \/ Matching(s) = {} THEN s ELSE LongestCommonPrefix(Matching(s))
           n == Len(common)
<1>8. /\ s \in Seq(S) /\ Len(s) = position
      /\ \A i \in 1 .. position : s[i] = line[i - 1]
  <2>1. position \in 0 .. LineSize
    BY <1>1, LineSizeIs
  <2> QED BY <2>1, TextOf
<1>9. line' = [i \in 0 .. LineSize - 1 |-> IF i < n THEN common[i + 1] ELSE line[i]]
  BY <1>2, <1>7 DEF Completed
<1> HIDE DEF S, s, t
<1>10. /\ position <= n /\ n \in 0 .. LineSize - 1
       /\ \A i \in 1 .. position : common[i] = s[i]
       /\ \A i \in 1 .. n : common[i] # Nul
  <2>1. CASE s = <<>> \/ Matching(s) = {}
    <3>1. common = s
      BY <2>1
    <3>2. \A i \in 1 .. position : i - 1 \in 0 .. position - 1
      BY <1>1
    <3>3. \A i \in 1 .. position : s[i] # Nul
      BY <1>1, <1>8, <3>2
    <3>4. position <= position
      BY <1>1
    <3> QED BY <1>1, <1>8, <3>1, <3>3, <3>4
  <2>2. CASE ~ (s = <<>> \/ Matching(s) = {})
    <3>1. common = LongestCommonPrefix(Matching(s)) /\ Matching(s) # {}
      BY <2>2
    <3>2. /\ LongestCommonPrefix(Matching(s)) \in Seq(STRING)
          /\ Len(s) <= Len(LongestCommonPrefix(Matching(s)))
          /\ Len(LongestCommonPrefix(Matching(s))) \in 0 .. LineSize - 1
          /\ \A i \in 1 .. Len(s) : LongestCommonPrefix(Matching(s))[i] = s[i]
          /\ \A i \in 1 .. Len(LongestCommonPrefix(Matching(s))) :
               LongestCommonPrefix(Matching(s))[i] # Nul
      BY <1>8, <3>1, CompletionFacts
    <3> QED BY <1>8, <3>1, <3>2
  <2> QED BY <2>1, <2>2
<1> HIDE DEF common
<1>11. \A i \in 0 .. n - 1 : line'[i] = common[i + 1] /\ i + 1 \in 1 .. n
  <2> TAKE i \in 0 .. n - 1
  <2>1. i \in 0 .. LineSize - 1 /\ i < n /\ i + 1 \in 1 .. n
    BY <1>10, LineSizeIs
  <2> QED BY <1>9, <2>1
<1> HIDE DEF n
<1>12. n <= q
  <2> SUFFICES ASSUME q < n PROVE FALSE
    BY <1>10, <1>5, LineSizeIs
  <2>1. q \in 0 .. n - 1
    BY <1>10, <1>5, LineSizeIs
  <2>2. line'[q] = common[q + 1] /\ q + 1 \in 1 .. n
    BY <1>11, <2>1
  <2>3. common[q + 1] # Nul
    BY <1>10, <2>2
  <2> QED BY <1>5, <2>2, <2>3
<1>13. n \in position .. k - 1
  BY <1>1, <1>4, <1>10, <1>6, <1>12, LineSizeIs
<1>14. line'[n] = Nul
  <2>1. n \in 0 .. LineSize - 1 /\ ~ n < n
    BY <1>10
  <2>2. line'[n] = line[n]
    BY <1>9, <2>1
  <2> QED BY <1>4, <1>13, <2>2
<1>15. Strlen(line') = n
  <2>1. \A i \in 0 .. n - 1 : line'[i] # Nul
    BY <1>10, <1>11
  <2> QED BY <1>10, <1>14, <2>1, StrlenFacts
<1>16. /\ Behind(line', n) = Behind(line, position)
       /\ NulsFirst(line', n)
  <2>1. n \in 0 .. LineSize - 1 /\ k \in n .. LineSize
    BY <1>1, <1>4, <1>10, <1>13, LineSizeIs
  <2>2. \A i \in n .. k - 1 : line'[i] = Nul
    <3> TAKE i \in n .. k - 1
    <3>1. i \in 0 .. LineSize - 1 /\ ~ i < n /\ i \in position .. k - 1
      BY <1>1, <1>4, <1>10, <1>13, LineSizeIs
    <3> QED BY <1>4, <1>9, <3>1 DEF n
  <2>3. \A i \in k .. LineSize - 1 : line'[i] = line[i] /\ line[i] # Nul
    <3> TAKE i \in k .. LineSize - 1
    <3>1. i \in 0 .. LineSize - 1 /\ ~ i < n
      BY <1>1, <1>4, <1>10, <1>13, LineSizeIs
    <3> QED BY <1>4, <1>9, <3>1 DEF n
  <2>4. LeftAt(line', n, k) /\ SameFrom(k, line, line')
    BY <2>1, <2>2, <2>3 DEF LeftAt, SameFrom
  <2> QED BY <1>1, <1>3, <2>1, <2>4, LeftStays
<1>17. LineOK(line', position', curpos')
  <2>1. line' = [i \in 0 .. LineSize - 1 |-> line'[i]]
    BY <1>9
  <2>2. n \in 0 .. n
    BY <1>10
  <2>3. \A i \in 0 .. n - 1 : line'[i] # Nul
    BY <1>10, <1>11
  <2> QED BY <1>2, <1>10, <1>15, <1>16, <2>1, <2>2, <2>3 DEF LineOK
<1>18. /\ t \in Seq(S) /\ Len(t) = n
       /\ \A i \in 1 .. n : t[i] = line'[i - 1]
  <2>1. n \in 0 .. LineSize
    BY <1>10, LineSizeIs
  <2> QED BY <1>2, <1>15, <2>1, TextOf DEF S, t
<1>19. \A i \in 1 .. position : s[i] = t[i]
  <2> TAKE i \in 1 .. position
  <2>1. i \in 1 .. n /\ i - 1 \in 0 .. n - 1 /\ (i - 1) + 1 = i
    BY <1>1, <1>10
  <2>2. t[i] = common[i]
    BY <1>11, <1>18, <2>1
  <2> QED BY <1>10, <2>2
<1>20. IsPrefix(s, t)
  BY <1>8, <1>10, <1>18, <1>19, PrefixOf
<1>21. Editor!Complete
  <2>1. Editor!IsPrefix(s, t)
    BY <1>20 DEF IsPrefix, Editor!IsPrefix
  <2> QED BY <1>2, <1>15, <1>18, <1>16, <2>1 DEF Editor!Complete, s, t
<1> QED BY <1>17, <1>21 DEF EditorStep

(* What an argument may run on into.                                       *)
LEMMA OverrunFacts ==
  ASSUME LineInv
  PROVE  Overrun \subseteq Editor!ReadOn
<1> DEFINE b == Behind(line, position)
           Ends == {i \in position .. LineSize - 1 : line[i] = Nul} \union {LineSize}
           end == Min(Ends)
           rest == Segment(position, end)
<1>1. position \in 0 .. LineSize - 1
  BY DEF LineInv, LineOK
<1>2. PICK k : /\ k \in position .. LineSize
               /\ \A i \in position .. k - 1 : line[i] = Nul
               /\ \A i \in k .. LineSize - 1 : line[i] # Nul
               /\ b = [i \in 1 .. LineSize - k |-> line[k + i - 1]]
  <2>1. PICK k : LeftAt(line, position, k)
    BY LeftOfLine
  <2>2. b = FromOn(k, line)
    BY <1>1, <2>1, BehindIs
  <2> QED BY <2>1, <2>2 DEF LeftAt, FromOn
<1>3. Overrun = IF end < LineSize THEN {rest} ELSE {rest, Append(rest, PastEnd)}
  BY DEF Overrun
<1>4. Editor!ReadOn = IF b = <<>> THEN {<<>>} ELSE {<<>>, b, Append(b, PastEnd)}
  BY DEF Editor!ReadOn
<1>5. rest = [i \in 1 .. end - position |-> line[position + i - 1]]
  BY DEF Segment
<1>6. /\ Ends \in SUBSET Nat /\ LineSize \in Ends
      /\ \A i \in Ends : i = LineSize \/ (i \in position .. LineSize - 1 /\ line[i] = Nul)
      /\ \A i \in position .. LineSize - 1 : line[i] = Nul => i \in Ends
  BY <1>1, LineSizeIs
<1> HIDE DEF b, Ends, rest
<1>7. end \in Ends /\ end \in Nat /\ \A i \in Ends : end <= i
  BY <1>6, MinFacts
<1> HIDE DEF end
<1>8. CASE k > position
  <2>1. position \in position .. k - 1 /\ position \in position .. LineSize - 1
    BY <1>1, <1>2, <1>8, LineSizeIs
  <2>2. end <= position
    BY <1>2, <1>6, <1>7, <2>1
  <2>3. end < LineSize /\ end = position
    BY <1>1, <1>6, <1>7, <2>2, LineSizeIs
  <2>4. rest = <<>>
    <3>1. end - position = 0
      BY <1>1, <2>3, LineSizeIs
    <3> QED BY <1>5, <3>1
  <2> QED BY <1>3, <1>4, <2>3, <2>4
<1>9. CASE k = position
  <2>1. \A i \in position .. LineSize - 1 : line[i] # Nul
    BY <1>2, <1>9
  <2>2. end = LineSize
    BY <1>6, <1>7, <2>1
  <2>3. rest = b
    BY <1>2, <1>5, <1>9, <2>2
  <2>4. b # <<>>
    <3>1. 1 \in 1 .. LineSize - k
      BY <1>1, <1>9, LineSizeIs
    <3>2. 1 \in DOMAIN b
      BY <1>2, <3>1
    <3> QED BY <3>2
  <2>5. ~ end < LineSize
    BY <2>2, LineSizeIs
  <2> QED BY <1>3, <1>4, <2>3, <2>4, <2>5
<1> QED BY <1>1, <1>2, <1>8, <1>9, LineSizeIs

LEMMA EnteredKeeps ==
  ASSUME LineInv, NEW ch, EnterKey(ch)
  PROVE  LineOK(line', position', curpos') /\ EditorStep
<1> DEFINE typed == AsText(line, position)
<1>1. /\ position' = 0 /\ curpos' = 0 /\ line' = [i \in 0 .. LineSize - 1 |-> Nul]
      /\ IF IsCommand(typed)
           THEN \E more \in Overrun : ran' = [line |-> typed, argv |-> Arguments(typed, more)]
           ELSE UNCHANGED ran
  BY DEF EnterKey
<1>2. LineOK(line', position', curpos') /\ Behind(line, position)' = <<>>
  <2>1. LineOK(line', 0, 0) /\ Behind(line', 0) = <<>>
    BY <1>1, NothingBehind
  <2> QED BY <1>1, <2>1
<1>3. AsText(line, position)' = <<>>
  <2>1. AsText(line, position)' = [i \in 1 .. 0 |-> line'[i - 1]]
    BY <1>1 DEF AsText
  <2> QED BY <2>1
<1> HIDE DEF typed
<1>4. IF IsCommand(typed)
        THEN \E more \in Editor!ReadOn :
               ran' = [line |-> typed, argv |-> Arguments(typed, more)]
        ELSE UNCHANGED ran
  BY <1>1, OverrunFacts
<1>5. Editor!Enter
  BY <1>1, <1>2, <1>3, <1>4 DEF Editor!Enter, typed
<1> QED BY <1>2, <1>5 DEF EditorStep

LEMMA MovedKeeps ==
  ASSUME LineInv, NEW ch, FuncKey(ch)
  PROVE  LineOK(line', position', curpos') /\ EditorStep
<1>1. position \in 0 .. LineSize - 1 /\ curpos \in 0 .. position
  BY DEF LineInv, LineOK
<1>2. /\ UNCHANGED <<line, position, ran>>
      /\ UNCHANGED <<AsText(line, position), Behind(line, position)>>
  BY DEF FuncKey, AsText, Behind
<1>3. curpos' \in {curpos, curpos - 1, curpos + 1} /\ curpos' \in 0 .. position
  BY <1>1 DEF FuncKey
<1>4. LineOK(line', position', curpos')
  BY <1>2, <1>3 DEF LineInv, LineOK
<1>5. Len(AsText(line, position)) = position
  <2>1. position \in 0 .. LineSize
    BY <1>1, LineSizeIs
  <2> QED BY <2>1, TextOf
<1>6. CASE curpos' = curpos
  BY <1>2, <1>4, <1>6 DEF EditorStep
<1>7. CASE curpos' \in {curpos - 1, curpos + 1}
  <2>1. Editor!Move
    BY <1>2, <1>3, <1>5, <1>7 DEF Editor!Move
  <2> QED BY <1>4, <2>1 DEF EditorStep
<1> QED BY <1>3, <1>6, <1>7

LEMMA StillKeeps ==
  ASSUME LineInv, UNCHANGED <<line, position, curpos, ran>>
  PROVE  LineOK(line', position', curpos') /\ EditorStep
<1>1. UNCHANGED <<AsText(line, position), Behind(line, position)>>
  BY DEF AsText, Behind
<1> QED BY <1>1 DEF LineInv, EditorStep

LEMMA HandledKeeps ==
  ASSUME LineInv, NEW ch \in Chars \union {Nothing}, Handle(ch)
  PROVE  LineOK(line', position', curpos') /\ EditorStep
<1>1. CASE EscapeKey(ch) \/ BracketKey(ch) \/ Ignore(ch)
  BY <1>1, StillKeeps DEF EscapeKey, BracketKey, Ignore
<1>2. CASE FuncKey(ch)
  BY <1>2, MovedKeeps
<1>3. CASE TabKey(ch)
  BY <1>3, CompletedKeeps
<1>4. CASE Backspace(ch)
  BY <1>4, ErasedKeeps
<1>5. CASE EnterKey(ch)
  BY <1>5, EnteredKeeps
<1>6. CASE Insert(ch)
  <2>1. ch \in Chars
    BY <1>6 DEF Insert
  <2> QED BY <1>6, <2>1, TypedKeeps
<1> QED BY <1>1, <1>2, <1>3, <1>4, <1>5, <1>6 DEF Handle

LEMMA BytesOfKey ==
  ASSUME NEW k \in Keys
  PROVE  Bytes(k) \in Seq(Chars)
<1>1. /\ Bytes(k) = [i \in 1 .. Len(Bytes(k)) |-> Bytes(k)[i]]
      /\ Len(Bytes(k)) \in Nat
  <2>1. CASE k \in {"up", "right", "left"}
    <3>1. \/ Bytes(k) = <<"esc", "[", "A">> \/ Bytes(k) = <<"esc", "[", "C">>
          \/ Bytes(k) = <<"esc", "[", "D">>
      BY <2>1 DEF Bytes
    <3> HIDE DEF Bytes
    <3> QED BY <3>1
  <2>2. CASE k \notin {"up", "right", "left"}
    <3>1. Bytes(k) = <<k>>
      BY <2>2 DEF Bytes
    <3> HIDE DEF Bytes
    <3> QED BY <3>1
  <2> QED BY <2>1, <2>2
<1>2. \A i \in 1 .. Len(Bytes(k)) : Bytes(k)[i] \in Chars
  BY DEF Chars
<1> HIDE DEF Bytes
<1> QED BY <1>1, <1>2, IsASeq

LEMMA LineNext ==
  ASSUME LineInv, [ShellNext]_shellVars
  PROVE  LineInv' /\ EditorStep
<1>1. CASE Receive
  <2>1. Head(wire) \in Chars /\ Tail(wire) \in Seq(Chars)
    BY <1>1, HeadTailProperties DEF Receive, LineInv
  <2>2. Handle(Head(wire)) /\ wire' = Tail(wire)
    BY <1>1 DEF Receive
  <2>3. LineOK(line', position', curpos') /\ EditorStep
    BY <2>1, <2>2, HandledKeeps
  <2> QED BY <2>1, <2>2, <2>3 DEF LineInv
<1>2. CASE EmptyPoll
  <2>1. LineOK(line', position', curpos') /\ EditorStep
    BY <1>2, HandledKeeps DEF EmptyPoll
  <2>2. wire \in Seq(Chars)
    BY DEF LineInv
  <2>3. wire' \in Seq(Chars)
    <3>1. CASE UNCHANGED wire
      BY <2>2, <3>1
    <3>2. CASE Len(wire) > 1 /\ wire' = <<Head(wire)>>
      <4>1. wire # <<>>
        BY <3>2
      <4>2. Head(wire) \in Chars
        BY <2>2, <4>1, HeadTailProperties
      <4> QED BY <3>2, <4>2
    <3> QED BY <1>2, <3>1, <3>2 DEF EmptyPoll
  <2> QED BY <2>1, <2>3 DEF LineInv
<1>3. CASE \E k \in Keys : Press(k)
  <2>1. PICK k \in Keys : Press(k)
    BY <1>3
  <2>2. UNCHANGED <<line, position, curpos, ran>> /\ wire' = Bytes(k)
    BY <2>1 DEF Press
  <2>3. LineOK(line', position', curpos') /\ EditorStep
    BY <2>2, StillKeeps
  <2>4. wire' \in Seq(Chars)
    BY <2>2, BytesOfKey
  <2> QED BY <2>3, <2>4 DEF LineInv
<1>4. CASE UNCHANGED shellVars
  <2>1. UNCHANGED <<line, position, curpos, ran>> /\ UNCHANGED wire
    BY <1>4 DEF shellVars
  <2>2. LineOK(line', position', curpos') /\ EditorStep
    BY <2>1, StillKeeps
  <2> QED BY <2>1, <2>2 DEF LineInv
<1> QED BY <1>1, <1>2, <1>3, <1>4 DEF ShellNext

LEMMA LineStarts ==
  ASSUME ShellInit
  PROVE  LineInv /\ Editor!Init
<1>1. /\ line = [i \in 0 .. LineSize - 1 |-> Nul] /\ position = 0 /\ curpos = 0
      /\ ran = NotRun /\ wire = <<>>
  BY DEF ShellInit
<1>2. LineOK(line, position, curpos) /\ Behind(line, position) = <<>>
  BY <1>1, NothingBehind
<1>3. AsText(line, position) = <<>>
  <2>1. AsText(line, position) = [i \in 1 .. 0 |-> line[i - 1]]
    BY <1>1 DEF AsText
  <2> QED BY <2>1
<1> QED BY <1>1, <1>2, <1>3 DEF LineInv, Editor!Init

(* Whatever keys are pressed, whatever polls find nothing and whatever     *)
(* bytes the UART loses, the shell edits a line as LineEditor says         *)
(* (finsh_thread_entry): the command it looks up and the words it cuts the *)
(* line into are those of the text edited, and only after a line was given *)
(* up, and not once ENTER was pressed since, may the last word run on into *)
(* bytes that were not edited, namely all that is left of that line.  TAB  *)
(* is covered as long as strlen finds its NUL within the buffer.           *)
THEOREM ShellLineIsEdited == ShellSpec => ShellEditsLine
<1>1. ShellInit => LineInv /\ Editor!Init
  BY LineStarts
<1>2. LineInv /\ [ShellNext]_shellVars => LineInv' /\ EditorStep
  BY LineNext
<1>3. EditorStep =>
        [Editor!Complete \/ Editor!Erase \/ Editor!Move \/ Editor!Enter
          \/ \E c \in Chars : Editor!Type(c)]_<<AsText(line, position), curpos, Behind(line, position), ran>>
  BY DEF EditorStep
<1> QED BY <1>1, <1>2, <1>3, PTL DEF ShellSpec, ShellEditsLine, Editor!Spec, Chars
=============================================================================
