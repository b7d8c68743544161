------------------------------- MODULE Editor -------------------------------
(***************************************************************************)
(* What the shell's line editor promises: a line with a cursor in it, and  *)
(* the lines entered before to go back to.                                 *)
(***************************************************************************)
EXTENDS Naturals, Sequences

CONSTANTS
  Chars,     \* what can be typed into a line
  Longest,   \* a line of this length is handed over at once
  Keep       \* how many lines can be gone back to

VARIABLES
  left, right,   \* the line before and behind the cursor
  past,          \* the lines entered, oldest first, without the empty ones
  at,            \* the line shown: past[at + 1], or a new one (at = Len(past))
  kept           \* the new line, while an older one is shown

Line == left \o right
Full == Len(Line) >= Longest
Oldest == IF Len(past) > Keep THEN Len(past) - Keep ELSE 0

Init == left = <<>> /\ right = <<>> /\ past = <<>> /\ at = 0 /\ kept = <<>>

Type(c) == left' = Append(left, c) /\ UNCHANGED right
Backspace == left # <<>> /\ left' = SubSeq(left, 1, Len(left) - 1) /\ UNCHANGED right
Delete == right # <<>> /\ right' = Tail(right) /\ UNCHANGED left
Back(n) == /\ n \in 1 .. Len(left)
           /\ left' = SubSeq(left, 1, Len(left) - n)
           /\ right' = SubSeq(left, Len(left) - n + 1, Len(left)) \o right
Forth(n) == /\ n \in 1 .. Len(right)
            /\ left' = left \o SubSeq(right, 1, n)
            /\ right' = SubSeq(right, n + 1, Len(right))

\* The keys that change the line shown.
Edit == /\ \/ \E c \in Chars : Type(c)
           \/ Backspace \/ Delete \/ Back(1) \/ Forth(1) \/ Back(Len(left)) \/ Forth(Len(right))
        /\ UNCHANGED <<past, at, kept>>

Older == /\ at > Oldest
         /\ kept' = IF at = Len(past) THEN Line ELSE kept
         /\ at' = at - 1 /\ left' = past[at] /\ right' = <<>>
         /\ UNCHANGED past

Newer == /\ at < Len(past)
         /\ at' = at + 1 /\ right' = <<>>
         /\ left' = IF at + 1 = Len(past) THEN kept ELSE past[at + 2]
         /\ UNCHANGED <<past, kept>>

\* The line is handed over, and a new one begun.
Enter == /\ past' = IF Line = <<>> THEN past ELSE Append(past, Line)
         /\ at' = Len(past') /\ left' = <<>> /\ right' = <<>> /\ kept' = <<>>

\* A full line can only be handed over.
Next == Enter \/ (~Full /\ (Edit \/ Older \/ Newer))

Spec == Init /\ [][Next]_<<left, right, past, at, kept>>
=============================================================================
