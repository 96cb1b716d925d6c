----------------------------- MODULE FinshShell ------------------------------
(***************************************************************************)
(* The input loop of finsh_thread_entry: one byte at a time from the       *)
(* console, escape sequences, the line buffer with its two positions, TAB  *)
(* and ENTER, which hands the line to msh_exec (module Msh).               *)
(* No device is registered in this build, so finsh_getchar                 *)
(* polls the UART: rt_hw_console_getchar returns -1, as a char 0xFF, when  *)
(* no byte has arrived, and sleeps before it does, during which bytes may  *)
(* be overrun.  History, echo and the other shells are not compiled in.    *)
(***************************************************************************)
EXTENDS Msh

CONSTANTS
  LineSize,   \* FINSH_CMD_SIZE
  Keys        \* what is pressed: characters, and the names of other keys

Quote == "\""   \* msh_split keeps the blanks of a string in quotes, see Msh

ASSUME ShellAssumption ==
  /\ LineSize \in Nat \ {0, 1}
  /\ \A c \in Commands :
       /\ c \in Seq(STRING) \ {<<>>} /\ Len(c) < LineSize
       /\ \A i \in 1 .. Len(c) : c[i] # "nul"
  /\ Quote \notin Keys

VARIABLES
  line, position, curpos,   \* shell->line, line_position, line_curpos
  keyStat,                  \* shell->stat
  ran,                      \* the last line that was a command, and its arguments
  wire                      \* the bytes of the pressed key that have not been read

shellVars == <<line, position, curpos, keyStat, ran, wire>>

Nul == "nul"
Nothing == "0xFF"
PastEnd == "line_position"   \* the byte behind the buffer, a part of the next field
NotRun == [line |-> <<>>, argv |-> <<>>]

(* The bytes a terminal sends.                                             *)
Bytes(k) ==
  CASE k = "up" -> <<"esc", "[", "A">>
    [] k = "right" -> <<"esc", "[", "C">>
    [] k = "left" -> <<"esc", "[", "D">>
    [] OTHER -> <<k>>

ShellInit ==
  /\ line = [i \in 0 .. LineSize - 1 |-> Nul]
  /\ position = 0 /\ curpos = 0
  /\ keyStat = "WAIT_NORMAL"
  /\ ran = NotRun
  /\ wire = <<>>
----------------------------------------------------------------------------
(* The escape sequences                                                    *)
EscapeKey(ch) ==
  /\ ch = "esc"
  /\ keyStat' = "WAIT_SPEC_KEY"
  /\ UNCHANGED <<line, position, curpos, ran>>

BracketKey(ch) ==
  /\ keyStat = "WAIT_SPEC_KEY" /\ ch = "["
  /\ keyStat' = "WAIT_FUNC_KEY"
  /\ UNCHANGED <<line, position, curpos, ran>>

FuncKey(ch) ==
  /\ keyStat = "WAIT_FUNC_KEY" /\ ch \in {"A", "B", "C", "D"}
  /\ keyStat' = "WAIT_NORMAL"
  /\ curpos' = IF ch = "D" /\ curpos > 0 THEN curpos - 1
               ELSE IF ch = "C" /\ curpos < position THEN curpos + 1 ELSE curpos
  /\ UNCHANGED <<line, position, ran>>

(* Any other byte ends a sequence, and is then taken for itself.           *)
Plain(ch) ==
  /\ ch # "esc"
  /\ ~ (keyStat = "WAIT_SPEC_KEY" /\ ch = "[")
  /\ ~ (keyStat = "WAIT_FUNC_KEY" /\ ch \in {"A", "B", "C", "D"})
  /\ keyStat' = "WAIT_NORMAL"

Ignore(ch) ==
  /\ ch \in {Nul, Nothing} /\ Plain(ch)
  /\ UNCHANGED <<line, position, curpos, ran>>
----------------------------------------------------------------------------
(* TAB                                                                     *)
Strlen(l) == Min({i \in 0 .. LineSize - 1 : l[i] = Nul} \union {LineSize})
AsText(l, n) == [i \in 1 .. n |-> l[i - 1]]

(* msh_auto_complete: the longest common prefix of the commands that begin *)
(* with the line is copied over its start.                                 *)
Matching(s) == {c \in Commands : IsPrefix(s, c)}
Completed(l) ==
  LET s == AsText(l, Strlen(l))
      common == IF s = <<>> \/ Matching(s) = {} THEN s ELSE LongestCommonPrefix(Matching(s))
  IN [i \in 0 .. LineSize - 1 |-> IF i < Len(common) THEN common[i + 1] ELSE l[i]]

(* Where no NUL is left in the buffer, strlen reads past its end: what     *)
(* comes of that is not modelled.                                          *)
TabKey(ch) ==
  /\ ch = "tab" /\ Plain(ch)
  /\ line' = Completed(line)
  /\ Strlen(line') < LineSize
  /\ position' = Strlen(line') /\ curpos' = position'
  /\ UNCHANGED ran

Backspace(ch) ==
  /\ ch = "bs" /\ Plain(ch)
  /\ IF curpos = 0 THEN UNCHANGED <<line, position, curpos>>
     ELSE /\ position' = position - 1 /\ curpos' = curpos - 1
          /\ line' = [i \in 0 .. LineSize - 1 |->
                        IF i = position' THEN Nul
                        ELSE IF i \in curpos' .. position' - 1 THEN line[i + 1] ELSE line[i]]
  /\ UNCHANGED ran

(* ENTER                                                                   *)
Segment(from, upto) == [i \in 1 .. upto - from |-> line[from + i - 1]]

(* The bytes from the end of the line to the next NUL.  A buffer without   *)
(* one is left; the byte behind it is padding, or belongs to line_position *)
(* and is not zero.                                                        *)
Overrun ==
  LET end == Min({i \in position .. LineSize - 1 : line[i] = Nul} \union {LineSize})
      rest == Segment(position, end)
  IN IF end < LineSize THEN {rest} ELSE {rest, Append(rest, PastEnd)}

(* Mutant: the line is not cleared after it was run.                       *)
EnterKeepsLine(ch) ==
  LET typed == AsText(line, position) IN
  /\ ch = "cr" /\ Plain(ch)
  /\ IF IsCommand(typed)
       THEN \E more \in Overrun : ran' = [line |-> typed, argv |-> Arguments(typed, more)]
       ELSE UNCHANGED ran
  /\ UNCHANGED line
  /\ position' = 0 /\ curpos' = 0

EnterKey(ch) ==
  LET typed == AsText(line, position) IN
  /\ ch = "cr" /\ Plain(ch)
  /\ IF IsCommand(typed)
       THEN \E more \in Overrun : ran' = [line |-> typed, argv |-> Arguments(typed, more)]
       ELSE UNCHANGED ran
  /\ line' = [i \in 0 .. LineSize - 1 |-> Nul]
  /\ position' = 0 /\ curpos' = 0

(* A character; a line that reaches the end of the buffer starts again at  *)
(* its beginning, over the bytes it left there.                            *)
Insert(ch) ==
  LET p == IF position >= LineSize THEN 0 ELSE position
      full == p + 1 >= LineSize
  IN
  /\ ch \notin {"tab", "bs", "cr", Nul, Nothing} /\ Plain(ch)
  /\ line' = IF curpos < p
               THEN [i \in 0 .. LineSize - 1 |->
                       IF i = curpos THEN ch
                       ELSE IF i \in curpos + 1 .. p THEN line[i - 1] ELSE line[i]]
               ELSE [line EXCEPT ![p] = ch]
  /\ position' = IF full THEN 0 ELSE p + 1
  /\ curpos' = IF full THEN 0 ELSE curpos + 1
  /\ UNCHANGED ran

Handle(ch) ==
  \/ EscapeKey(ch) \/ BracketKey(ch) \/ FuncKey(ch) \/ Ignore(ch)
  \/ TabKey(ch) \/ Backspace(ch) \/ EnterKey(ch) \/ Insert(ch)
----------------------------------------------------------------------------
Press(k) ==
  /\ wire = <<>> /\ wire' = Bytes(k)
  /\ UNCHANGED <<line, position, curpos, keyStat, ran>>

Receive == wire # <<>> /\ Handle(Head(wire)) /\ wire' = Tail(wire)

(* A poll before the next byte has arrived; the poll sleeps, and of the    *)
(* bytes that arrive meanwhile the UART keeps the first.                   *)
EmptyPoll ==
  /\ Handle(Nothing)
  /\ \/ UNCHANGED wire
     \/ Len(wire) > 1 /\ wire' = <<Head(wire)>>

ShellNext == Receive \/ EmptyPoll \/ \E k \in Keys : Press(k)

ShellSpec == ShellInit /\ [][ShellNext]_shellVars
----------------------------------------------------------------------------
(* What an overflow left behind the line: nothing but NULs lies before it. *)
Behind(l, n) ==
  LET k == Min({i \in n .. LineSize - 1 : l[i] # Nul} \union {LineSize})
  IN [i \in 1 .. LineSize - k |-> l[k + i - 1]]

(* The shell edits a line as its keys say, whatever bytes come in: what it *)
(* looks up and cuts into arguments is the text between the start of the   *)
(* line and its end, the cursor stays in it, a TAB leaves no stray         *)
(* character, and bytes that were not edited get into an argument only     *)
(* after a line was given up, and are bytes of that line (shell.c:709).    *)
Editor == INSTANCE LineEditor
  WITH Char <- UNION {{Bytes(k)[i] : i \in 1 .. Len(Bytes(k))} : k \in Keys},
       Limit <- LineSize, NoText <- NotRun, Past <- PastEnd,
       IsCommand <- IsCommand, Arguments <- Arguments,
       text <- AsText(line, position), cursor <- curpos, left <- Behind(line, position)

ShellEditsLine == Editor!Spec

(* Only characters that were pressed get into the line; the bytes of a     *)
(* cursor key never do (shell.c:557 "handle control key").                 *)
OnlyTyped == \A i \in 1 .. position : line[i - 1] \in Keys
=============================================================================
