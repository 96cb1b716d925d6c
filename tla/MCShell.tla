------------------------------- MODULE MCShell -------------------------------
(***************************************************************************)
(* The shell, with commands of which one is a prefix of the other.         *)
(***************************************************************************)
EXTENDS FinshShell

MCCommands == {<<"a">>, <<"a", "a", "a">>}

(* `ran' is only written, in the steps the refinement speaks of; TLC       *)
(* checks those as it generates them, before it looks for a state seen     *)
(* already.                                                                *)
ShellView == <<line, position, curpos, keyStat, wire>>
=============================================================================
