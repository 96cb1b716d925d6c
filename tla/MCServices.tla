----------------------------- MODULE MCServices ------------------------------
(***************************************************************************)
(* The parts that share no state with each other or with the IPC objects,  *)
(* checked in one run: `part' says which of them runs.                     *)
(***************************************************************************)
EXTENDS W25qWrite, W25qBoot, RtHeap, RtSwitch, MCShell

VARIABLE part

Parts == {"write", "boot", "heap", "switch", "shell"}

vars == <<part, writeVars, bootVars, heapVars, switchVars, shellVars>>

Init ==
  /\ part \in Parts
  /\ WriteInit /\ BootInit /\ HeapInit /\ SwitchInit /\ ShellInit

Next ==
  /\ UNCHANGED part
  /\ \/ /\ part = "write" /\ WriteNext
        /\ UNCHANGED <<bootVars, heapVars, switchVars, shellVars>>
     \/ /\ part = "boot" /\ BootNext
        /\ UNCHANGED <<writeVars, heapVars, switchVars, shellVars>>
     \/ /\ part = "heap" /\ HeapNext
        /\ UNCHANGED <<writeVars, bootVars, switchVars, shellVars>>
     \/ /\ part = "switch" /\ SwitchNext
        /\ UNCHANGED <<writeVars, bootVars, heapVars, shellVars>>
     \/ /\ part = "shell" /\ ShellNext
        /\ UNCHANGED <<writeVars, bootVars, heapVars, switchVars>>

(* Fairness of the boot; where another part runs it says nothing.          *)
Spec == Init /\ [][Next]_vars /\ (part = "boot" => BootFairness)

(* Of the heap's words only the headers and those a user holds are read    *)
(* before they are written.                                                *)
HeldWords == UNION {b.at .. b.at + b.size - 1 : b \in UNION {held[u] : u \in HeapUser}}
HeapView ==
  <<[q \in Blocks \union HeldWords |-> mem[q]], lfree, usedMem, held, growing>>

(* Of a write, what the rest of the call reads, or a property at its end;  *)
(* the buffer still counts where another sector is read into it.           *)
LastSector == size = secRem
BufferDone ==
  \/ stage = "done"
  \/ LastSector /\ (stage = "next" \/ (stage = "program" /\ source = "pbuf"))
WriteView ==
  <<stage, flash, call, faults,
    IF stage = "done" THEN <<>> ELSE locals,
    IF stage = "program" THEN pages ELSE <<>>,
    IF BufferDone THEN <<>> ELSE buf>>

PartsView ==
  <<part,
    IF part = "write" THEN WriteView ELSE <<>>,
    IF part = "boot" THEN bootVars ELSE <<>>,
    IF part = "heap" THEN HeapView ELSE <<>>,
    IF part = "switch" THEN switchVars ELSE <<>>,
    IF part = "shell" THEN ShellView ELSE <<>> >>

BootPartEnds == part = "boot" => BootEnds
=============================================================================
