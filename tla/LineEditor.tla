------------------------------ MODULE LineEditor -----------------------------
(***************************************************************************)
(* What the shell's input loop promises: a line of text with a cursor.     *)
(* Keys insert before the cursor, delete before it or move it; TAB may     *)
(* only lengthen the text; ENTER runs the command the text names, with its *)
(* arguments; a line that reaches the limit is given up as a whole.  The   *)
(* promise has one blemish: until the next ENTER the bytes of the line     *)
(* given up, less those written over, may be read behind the text, by the  *)
(* command that gets its last argument from there.                         *)
(***************************************************************************)
EXTENDS Naturals, Sequences, SequencesExt

CONSTANTS
  Char, Limit, NoText,
  Past,                              \* the byte behind a line that was given up
  IsCommand(_), Arguments(_, _)      \* how the command interpreter reads a line

VARIABLES
  text, cursor,   \* the line, and how many of its characters lie before the cursor
  left,           \* what still lies behind it of a line that was given up
  ran             \* the last command line that was run, with its arguments

Init == text = <<>> /\ cursor = 0 /\ left = <<>> /\ ran = NoText

Type(c) ==
  /\ IF Len(text) + 1 < Limit
       THEN /\ text' = InsertAt(text, cursor + 1, c) /\ cursor' = cursor + 1
            /\ \/ left' = left
               \/ left # <<>> /\ left' = Tail(left)
       ELSE text' = <<>> /\ cursor' = 0 /\ left' = InsertAt(text, cursor + 1, c)
  /\ UNCHANGED ran

Erase ==
  /\ cursor > 0
  /\ text' = RemoveAt(text, cursor) /\ cursor' = cursor - 1
  /\ UNCHANGED <<left, ran>>

Move ==
  /\ cursor' \in {cursor - 1, cursor + 1} \intersect 0 .. Len(text)
  /\ UNCHANGED <<text, left, ran>>

Complete ==
  /\ IsPrefix(text, text') /\ cursor' = Len(text')
  /\ UNCHANGED <<left, ran>>

ReadOn == IF left = <<>> THEN {<<>>} ELSE {<<>>, left, Append(left, Past)}

Enter ==
  /\ IF IsCommand(text)
       THEN \E more \in ReadOn : ran' = [line |-> text, argv |-> Arguments(text, more)]
       ELSE UNCHANGED ran
  /\ text' = <<>> /\ cursor' = 0 /\ left' = <<>>

Spec ==
  Init /\ [][Complete \/ Erase \/ Move \/ Enter \/ \E c \in Char : Type(c)]_<<text, cursor, left, ran>>
=============================================================================
