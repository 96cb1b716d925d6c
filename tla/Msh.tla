---------------------------------- MODULE Msh --------------------------------
(***************************************************************************)
(* msh_exec: which command a line names, and how msh_split cuts the line   *)
(* into its arguments.  The line is handed over as a pointer and a length. *)
(* msh_split ends an argument by writing a NUL over the blank behind it,   *)
(* so an argument that reaches the length has no end of its own: whoever   *)
(* reads it reads on up to the next NUL of the buffer.  The build has no   *)
(* file system and no modules, so only commands are looked for.  Strings   *)
(* in quotes are left out.                                                 *)
(***************************************************************************)
EXTENDS Naturals, Sequences, SequencesExt, FiniteSetsExt

CONSTANTS
  Commands,   \* the names after "__cmd_" in the symbol table
  ArgMax      \* FINSH_ARG_MAX

ASSUME MshAssumption == ArgMax \in Nat \ {0}

Space == " "

(* The words of s, each by its first and its last character.               *)
Starts(s) == {i \in 1 .. Len(s) : s[i] # Space /\ (i = 1 \/ s[i - 1] = Space)}
WordEnd(s, i) == Max({j \in i .. Len(s) : \A k \in i .. j : s[k] # Space})
WordAt(s, i) == SubSeq(s, i, WordEnd(s, i))

(* The search compares within the length of the first word.                *)
IsCommand(s) == Starts(s) # {} /\ WordAt(s, Min(Starts(s))) \in Commands

(* The arguments a command is called with, `more' being the bytes that lie *)
(* between the end of s and the next NUL.                                  *)
Arguments(s, more) ==
  LET starts == SetToSortSeq(Starts(s), <)
  IN [k \in 1 .. Min({Len(starts), ArgMax}) |->
        WordAt(s, starts[k]) \o (IF WordEnd(s, starts[k]) = Len(s) THEN more ELSE <<>>)]
=============================================================================
