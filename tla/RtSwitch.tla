------------------------------ MODULE RtSwitch -------------------------------
(***************************************************************************)
(* The context switch of the Cortex-M7 port: rt_schedule() only requests   *)
(* it, PendSV performs it when no other handler runs and interrupts are    *)
(* enabled.  Until then the old thread executes and further requests, from *)
(* interrupt handlers or from the same critical section, may replace the   *)
(* thread to switch to.  PendSV saves r4-r11 and, for a thread that used   *)
(* the FPU, s16-s31 on the thread's stack; the rest is the hardware's.     *)
(***************************************************************************)
CONSTANTS
  SwThread, NoSwThread,   \* the threads, and 0 in rt_interrupt_from_thread
  Word, Deadbeef          \* register contents, and those of a new thread

ASSUME SwitchAssumption == NoSwThread \notin SwThread /\ Deadbeef \notin Word

VARIABLES
  current,      \* rt_current_thread
  executing,    \* the thread whose stack PSP points to
  fromThread, toThread, switchFlag,
                \* rt_interrupt_from_thread, _to_thread,
                \* rt_thread_switch_interrupt_flag
  pended,       \* PENDSVSET
  masked,       \* PRIMASK, while a thread executes
  cpuMode,      \* "thread", or PendSV before ("entered") or after its work
  core,         \* the registers; fpca: CONTROL.FPCA in thread mode,
                \* EXC_RETURN[4] clear in a handler
  saved         \* thread -> the frame on its stack

switchVars == <<current, executing, fromThread, toThread, switchFlag, pended, masked,
                cpuMode, core, saved>>

Contents == Word \union {Deadbeef}

(* rt_hw_stack_init                                                        *)
NewFrame == [flag |-> FALSE, int |-> Deadbeef, fp |-> Deadbeef]

(* The first thread is chosen and rt_hw_context_switch_to pends PendSV.    *)
SwitchInit ==
  /\ current \in SwThread
  /\ executing = NoSwThread
  /\ fromThread = NoSwThread /\ toThread = current
  /\ switchFlag = TRUE /\ pended = TRUE /\ masked = FALSE
  /\ cpuMode = "thread"
  /\ core = [int |-> Deadbeef, fp |-> Deadbeef, fpca |-> FALSE]
  /\ saved = [t \in SwThread |-> NewFrame]
----------------------------------------------------------------------------
(* Mutant: a second request also replaces the thread to switch from.       *)
RequestReplacingFrom(t) ==
  /\ t # current
  /\ current' = t
  /\ fromThread' = current
  /\ toThread' = t
  /\ switchFlag' = TRUE /\ pended' = TRUE

(* rt_schedule() chooses t: rt_hw_context_switch, the same routine for a   *)
(* thread and for a handler.                                               *)
Request(t) ==
  /\ t # current
  /\ current' = t
  /\ fromThread' = IF switchFlag THEN fromThread ELSE current
  /\ toThread' = t
  /\ switchFlag' = TRUE /\ pended' = TRUE

(* A thread executes its next instruction unless PendSV is due.            *)
Executes == cpuMode = "thread" /\ executing # NoSwThread /\ (masked \/ ~ pended)

ThreadSchedules(t) ==
  /\ Executes /\ Request(t)
  /\ UNCHANGED <<executing, masked, cpuMode, core, saved>>

HandlerSchedules(t) ==
  /\ ~ masked /\ Request(t)
  /\ UNCHANGED <<executing, masked, cpuMode, core, saved>>

Mask ==
  /\ Executes /\ ~ masked /\ masked' = TRUE
  /\ UNCHANGED <<current, executing, fromThread, toThread, switchFlag, pended, cpuMode,
                 core, saved>>

Unmask ==
  /\ Executes /\ masked /\ masked' = FALSE
  /\ UNCHANGED <<current, executing, fromThread, toThread, switchFlag, pended, cpuMode,
                 core, saved>>

UseRegisters(v) ==
  /\ Executes
  /\ core' = [core EXCEPT !.int = v]
  /\ UNCHANGED <<current, executing, fromThread, toThread, switchFlag, pended, masked,
                 cpuMode, saved>>

UseFpu(v) ==
  /\ Executes
  /\ core' = [core EXCEPT !.fp = v, !.fpca = TRUE]
  /\ UNCHANGED <<current, executing, fromThread, toThread, switchFlag, pended, masked,
                 cpuMode, saved>>

(* rt_thread_init sets up a thread that has ended.                         *)
SetUpThread(t) ==
  /\ Executes /\ t \notin {executing, current}
  /\ saved' = [saved EXCEPT ![t] = NewFrame]
  /\ UNCHANGED <<current, executing, fromThread, toThread, switchFlag, pended, masked,
                 cpuMode, core>>
----------------------------------------------------------------------------
(* PendSV_Handler                                                          *)
PendSVEnter ==
  /\ cpuMode = "thread" /\ pended /\ ~ masked
  /\ cpuMode' = "entered" /\ pended' = FALSE
  /\ UNCHANGED <<current, executing, fromThread, toThread, switchFlag, masked, core, saved>>

(* Mutant: the flag pushed with the frame does not tell of the FPU.        *)
FrameUnflagged == [flag |-> FALSE, int |-> core.int, fp |-> Deadbeef]

Frame ==
  [flag |-> core.fpca, int |-> core.int, fp |-> IF core.fpca THEN core.fp ELSE Deadbeef]

Loaded(f) ==
  [int |-> f.int, fp |-> IF f.flag THEN f.fp ELSE core.fp, fpca |-> f.flag]

PendSVSwitch ==
  /\ cpuMode = "entered" /\ switchFlag
  /\ cpuMode' = "leaving" /\ switchFlag' = FALSE
  /\ saved' = IF fromThread = NoSwThread THEN saved ELSE [saved EXCEPT ![fromThread] = Frame]
  /\ core' = Loaded(saved'[toThread])
  /\ executing' = toThread
  /\ UNCHANGED <<current, fromThread, toThread, pended, masked>>

(* "pendsv already handled": requested once more after its entry.          *)
PendSVNothing ==
  /\ cpuMode = "entered" /\ ~ switchFlag
  /\ cpuMode' = "leaving"
  /\ UNCHANGED <<current, executing, fromThread, toThread, switchFlag, pended, masked, core,
                 saved>>

(* To the thread, or straight into the next PendSV.                        *)
PendSVReturn ==
  /\ cpuMode = "leaving"
  /\ cpuMode' = IF pended THEN "entered" ELSE "thread"
  /\ pended' = FALSE
  /\ UNCHANGED <<current, executing, fromThread, toThread, switchFlag, masked, core, saved>>

PendSV_Handler == PendSVEnter \/ PendSVSwitch \/ PendSVNothing \/ PendSVReturn
----------------------------------------------------------------------------
SwitchNext ==
  \/ PendSV_Handler
  \/ Mask \/ Unmask
  \/ \E t \in SwThread : ThreadSchedules(t) \/ HandlerSchedules(t) \/ SetUpThread(t)
  \/ \E v \in Word : UseRegisters(v) \/ UseFpu(v)

SwitchSpec == SwitchInit /\ [][SwitchNext]_switchVars
----------------------------------------------------------------------------
SwitchTypeOK ==
  /\ current \in SwThread /\ toThread \in SwThread
  /\ executing \in SwThread \union {NoSwThread}
  /\ fromThread \in SwThread \union {NoSwThread}
  /\ switchFlag \in BOOLEAN /\ pended \in BOOLEAN /\ masked \in BOOLEAN
  /\ cpuMode \in {"thread", "entered", "leaving"}
  /\ core \in [int : Contents, fp : Contents, fpca : BOOLEAN]
  /\ saved \in [SwThread -> [flag : BOOLEAN, int : Contents, fp : Contents]]

(* The CPU follows the scheduler: between requests it executes             *)
(* rt_current_thread; a request not yet served is pended or in service,    *)
(* names rt_current_thread as its aim and, as the thread whose registers   *)
(* are saved, the one that executes, however often the choice changed in   *)
(* between (context_gcc.S:62-79, "_reswitch").                             *)
CpuFollowsScheduler ==
  /\ toThread = current
  /\ IF switchFlag THEN fromThread = executing /\ (pended \/ cpuMode = "entered")
                   ELSE executing = current

(* Each thread has registers of its own, the FPU's if it has used them,    *)
(* through any sequence of requests, handlers and switches.                *)
Registers(f, fpu) == [int |-> f.int, fp |-> IF fpu THEN f.fp ELSE Deadbeef, fpu |-> fpu]
ContextOf(t) ==
  IF t = executing THEN Registers(core, core.fpca) ELSE Registers(saved[t], saved[t].flag)

Contexts == INSTANCE ThreadContexts
  WITH Owner <- SwThread, Nobody <- NoSwThread,
       Context <- [int : Contents, fp : Contents, fpu : BOOLEAN],
       Blank <- [int |-> Deadbeef, fp |-> Deadbeef, fpu |-> FALSE],
       running <- executing, context <- [t \in SwThread |-> ContextOf(t)]

RegistersArePrivate == Contexts!Spec
=============================================================================
