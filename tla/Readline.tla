------------------------------ MODULE Readline ------------------------------
(***************************************************************************)
(* shell_readline: the buffer, the cursor in it, the ring of old lines,    *)
(* and the screen it keeps in step with single characters and backspaces.  *)
(* A row of the screen is wide enough for the line.  The keys are what     *)
(* getCharEx returns (Keys).                                               *)
(***************************************************************************)
EXTENDS Integers, Sequences

CONSTANTS
  Chars,      \* the characters typed
  Blank,      \* ' ' as the screen's empty cell
  Size,       \* sizeof(buf), 1000
  HistMax,    \* HIST_MAX, 16
  MaxLines    \* bound: how many lines are entered

VARIABLES
  buf,        \* buf: position -> character
  len, cur,   \* len, cur
  browse,     \* browse
  saved,      \* saved and saved_len
  hist,       \* hist_buf: index -> line
  total,      \* hist_total
  scr,        \* the row of the prompt, and the column behind it where the cursor is
  torn,       \* msg_poll has printed a message since the prompt
  past        \* history: the lines entered
vars == <<buf, len, cur, browse, saved, hist, total, scr, torn, past>>

BS == "BS"

ASSUME ReadlineAssumption ==
  /\ BS \notin Chars \cup {Blank} /\ Size \in Nat \ {0, 1} /\ HistMax \in Nat \ {0} /\ MaxLines \in Nat

Column == 0 .. Size
Clear == [row |-> [c \in Column |-> Blank], col |-> 0]

Part(b, i, j) == [k \in 1 .. j - i |-> b[i + k - 1]]     \* b[i] .. b[j - 1]
Text(n) == Part(buf, 0, n)

-----------------------------------------------------------------------------
(* The screen                                                              *)

\* External: the terminal.  A backspace moves the cursor, and not beyond the margin.
Put(s, c) == IF c = BS THEN [s EXCEPT !.col = IF @ = 0 THEN 0 ELSE @ - 1]
             ELSE [row |-> [s.row EXCEPT ![s.col] = c], col |-> IF s.col < Size THEN s.col + 1 ELSE s.col]
PutAll(s, str) ==
  LET at[i \in 0 .. Len(str)] == IF i = 0 THEN s ELSE Put(at[i - 1], str[i])
  IN  at[Len(str)]

Backs(n) == [i \in 1 .. n |-> BS]

\* Mutant of RedrawTail: the blank is not stepped back over.
RedrawTailShort(b, c, l) == Part(b, c, l) \o <<Blank>> \o Backs(l - c)

\* redraw_tail, with a blank where the line was longer.
RedrawTail(b, c, l) == Part(b, c, l) \o <<Blank>> \o Backs(l - c + 1)

\* erase_line: to the end of the line, and "\b \b" for each of its characters.
Rubout(n) == [i \in 1 .. 3 * n |-> IF i % 3 = 2 THEN Blank ELSE BS]
EraseLine(b, c, l) == Part(b, c, l) \o Rubout(l)

-----------------------------------------------------------------------------
(* One turn of the loop for every kind of key                              *)

Init == /\ buf = [j \in 0 .. Size - 1 |-> Blank] /\ len = 0 /\ cur = 0
        /\ browse = 0 /\ saved = <<>>
        /\ hist = [i \in 0 .. HistMax - 1 |-> <<>>] /\ total = 0
        /\ scr = Clear /\ torn = FALSE /\ past = <<>>

Reading == len < Size - 1

\* Any other key: the character goes in at the cursor.
Insert(c) ==
  /\ Reading
  /\ buf' = [j \in DOMAIN buf |-> IF j = cur THEN c ELSE IF j > cur /\ j <= len THEN buf[j - 1] ELSE buf[j]]
  /\ len' = len + 1 /\ cur' = cur + 1
  /\ scr' = PutAll(scr, Part(buf', cur, len + 1) \o Backs(len - cur))
  /\ UNCHANGED <<browse, saved, hist, total, torn, past>>

\* The characters behind position c move down by one.
Removed(c) == [j \in DOMAIN buf |-> IF j >= c /\ j < len - 1 THEN buf[j + 1] ELSE buf[j]]

Backspace ==
  /\ Reading /\ cur > 0
  /\ buf' = Removed(cur - 1) /\ cur' = cur - 1 /\ len' = len - 1
  /\ scr' = PutAll(scr, <<BS>> \o RedrawTail(buf', cur - 1, len - 1))
  /\ UNCHANGED <<browse, saved, hist, total, torn, past>>

Delete ==
  /\ Reading /\ cur < len
  /\ buf' = Removed(cur) /\ len' = len - 1
  /\ scr' = PutAll(scr, RedrawTail(buf', cur, len - 1))
  /\ UNCHANGED <<cur, browse, saved, hist, total, torn, past>>

\* KEY_LEFT and KEY_HOME.
Back(c) ==
  /\ Reading /\ c < cur
  /\ cur' = c /\ scr' = PutAll(scr, Backs(cur - c))
  /\ UNCHANGED <<buf, len, browse, saved, hist, total, torn, past>>

Left == Back(cur - 1) /\ cur > 0
Home == Back(0)

\* KEY_RIGHT and KEY_END.
Forth(c) ==
  /\ Reading /\ c > cur
  /\ cur' = c /\ scr' = PutAll(scr, Part(buf, cur, c))
  /\ UNCHANGED <<buf, len, browse, saved, hist, total, torn, past>>
Right == Forth(cur + 1) /\ cur < len
End == Forth(len)

\* The line shown is replaced by line.
Show(line) ==
  LET n == IF Len(line) >= Size THEN Size - 1 ELSE Len(line)
  IN  /\ buf' = [j \in DOMAIN buf |-> IF j < n THEN line[j + 1] ELSE buf[j]]
      /\ len' = n /\ cur' = n
      /\ scr' = PutAll(PutAll(scr, EraseLine(buf, cur, len)), SubSeq(line, 1, n))

Oldest == IF total - HistMax < 0 THEN 0 ELSE total - HistMax

\* Mutant of Up: the line is kept again at every older one.
UpKeepsAgain ==
  /\ Reading /\ browse > Oldest
  /\ saved' = Text(len)
  /\ browse' = browse - 1
  /\ Show(hist[(browse - 1) % HistMax])
  /\ UNCHANGED <<hist, total, torn, past>>

\* KEY_UP.
Up ==
  /\ Reading /\ browse > Oldest
  /\ saved' = IF browse = total THEN Text(len) ELSE saved
  /\ browse' = browse - 1
  /\ Show(hist[(browse - 1) % HistMax])
  /\ UNCHANGED <<hist, total, torn, past>>

\* KEY_DOWN.
Down ==
  /\ Reading /\ browse < total
  /\ browse' = browse + 1
  /\ Show(IF browse + 1 = total THEN saved ELSE hist[(browse + 1) % HistMax])
  /\ UNCHANGED <<saved, hist, total, torn, past>>

\* '\n', or the loop ends with a full buffer: the line goes into the ring, and
\* do_shell calls again.
Return ==
  /\ Len(past) < MaxLines
  /\ IF len > 0
     THEN /\ hist' = [hist EXCEPT ![total % HistMax] = Text(len)]
          /\ total' = total + 1 /\ past' = Append(past, Text(len))
     ELSE UNCHANGED <<hist, total, past>>
  /\ len' = 0 /\ cur' = 0 /\ browse' = total' /\ saved' = <<>>
  /\ scr' = Clear /\ torn' = FALSE
  /\ UNCHANGED buf

\* readKeyData's msg_poll prints a message: the cursor is on an empty row.
Message == /\ Reading /\ ~torn
           /\ scr' = Clear /\ torn' = TRUE
           /\ UNCHANGED <<buf, len, cur, browse, saved, hist, total, past>>

Next == \/ \E c \in Chars : Insert(c)
        \/ Backspace \/ Delete \/ Left \/ Home \/ Right \/ End \/ Up \/ Down
        \/ Return \/ Message

Spec == Init /\ [][Next]_vars

-----------------------------------------------------------------------------
(* Properties                                                              *)

\* Type: the cursor is in the line and the line leaves room for its end, the line
\* browsed is in the ring.
TypeOK ==
  /\ len \in 0 .. Size - 1 /\ cur \in 0 .. len
  /\ buf \in [0 .. Size - 1 -> Chars \cup {Blank}]
  /\ browse \in Oldest .. total /\ Len(saved) <= len + Size /\ torn \in BOOLEAN
  /\ scr.row \in [Column -> Chars \cup {Blank}] /\ scr.col \in Column

\* Behind the prompt the screen shows the line and nothing else, with the cursor
\* where the next character goes, unless a message was printed in between; buf,
\* cursor and history indices stay in range.
ScreenShowsLine ==
  /\ TypeOK
  /\ torn \/ /\ scr.col = cur
             /\ \A c \in Column : scr.row[c] = IF c < len THEN buf[c] ELSE Blank

E == INSTANCE Editor WITH
       Longest <- Size - 1, Keep <- HistMax,
       left <- Text(cur), right <- Part(buf, cur, len), at <- browse, kept <- saved

\* The array, the moves in it and the ring do what an editor with a line, a cursor
\* and a list of lines does, and a line is handed over complete.
ImplementsEditor == E!Spec
=============================================================================
