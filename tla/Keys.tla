-------------------------------- MODULE Keys --------------------------------
(***************************************************************************)
(* The keyboard as the kernel reads it: scan codes from the controller,    *)
(* getCharEx for the splash screen and the shell, and the loop of the      *)
(* conn command, which reads the same codes its own way.                   *)
(***************************************************************************)
EXTENDS Integers, Sequences, TLC

CONSTANTS
  Pressable,    \* the keys: records [ext, code, plain, shifted]
  QueueCap,     \* bound: bytes typed ahead
  MaxPresses    \* bound: key presses

VARIABLES
  held,         \* external: the keys that are down
  q,            \* external: the controller's bytes, each with what was meant by it
  mode,         \* who reads: splash_screen, shell_readline or enterConn
  prefix,       \* getCharEx has read 0xE0
  g_shift, ctrl,
  sel,          \* splash_screen's choice
  id,           \* my_id, from kernelMain's msg_set_id
  got, meant,   \* what the last byte read was taken for, and what it was meant for
  seen,         \* the modifiers that were down with the last byte read
  astray,       \* history: the modifiers whose state here may be another
  presses
vars == <<held, q, mode, prefix, g_shift, ctrl, sel, id, got, meant, seen, astray, presses>>

None == "none"
Back == "BS"
Enter == "ENTER"
Leave == "LEAVE"      \* enterConn returns

-----------------------------------------------------------------------------
(* The keyboard (external)                                                 *)

LShift == 42
RShift == 54
Ctrl == 29             \* the right one comes with the prefix
IsShift(k) == ~k.ext /\ k.code \in {LShift, RShift}
IsCtrl(k) == k.code = Ctrl
Modifiers(ks) == [shift |-> \E k \in ks : IsShift(k), ctrl |-> \E k \in ks : IsCtrl(k)]

\* The bytes of a key that goes down or up, with what is meant by the last of them.
Bytes(k, down, ks) ==
  LET m == Modifiers(ks)
      Byte(c, w) == [code |-> c, want |-> w, ext |-> k.ext, mods |-> m]
      w == IF ~down THEN None ELSE IF m.shift THEN k.shifted ELSE k.plain
      seq == <<Byte(IF down THEN k.code ELSE k.code + 128, w)>>
  IN  IF k.ext THEN <<Byte(224, None)>> \o seq ELSE seq

\* A key goes down, or repeats.
Press(k) ==
  LET bs == Bytes(k, TRUE, held \cup {k})
  IN  /\ presses < MaxPresses /\ presses' = presses + 1
      /\ Len(q) + Len(bs) <= QueueCap
      /\ held' = held \cup {k} /\ q' = q \o bs
      /\ UNCHANGED <<mode, prefix, g_shift, ctrl, sel, id, got, meant, seen, astray>>

Release(k) ==
  LET bs == Bytes(k, FALSE, held \ {k})
  IN  /\ k \in held /\ Len(q) + Len(bs) <= QueueCap
      /\ held' = held \ {k} /\ q' = q \o bs
      /\ UNCHANGED <<mode, prefix, g_shift, ctrl, sel, id, got, meant, seen, astray, presses>>

-----------------------------------------------------------------------------
(* codeToChar and getCharEx                                                *)

\* scan_code_map and the switch, from 0x02 on.
Plain == <<"1", "2", "3", "4", "5", "6", "7", "8", "9", "0", "-", "=", Back, None, "q",
  "w", "e", "r", "t", "y", "u", "i", "o", "p", "[", "]", Enter, None, "a", "s", "d", "f",
  "g", "h", "j", "k", "l", ";", "'", "grave", None, "\\", "z", "x", "c", "v", "b", "n", "m",
  ",", ".", "/", None, "*", None, " ">>
Shifted == <<"!", "@", "#", "$", "%", "^", "&", "*", "(", ")", "_", "+", Back, None, "Q",
  "W", "E", "R", "T", "Y", "U", "I", "O", "P", "{", "}", Enter, None, "A", "S", "D", "F",
  "G", "H", "J", "K", "L", ":", "\"", "~", None, "|", "Z", "X", "C", "V", "B", "N", "M",
  "<", ">", "?", None, "*", None, " ">>

codeToChar(c, shift) == IF c >= 2 /\ c <= 57 THEN (IF shift = 1 THEN Shifted ELSE Plain)[c - 1] ELSE None

Extended == 72 :> "UP" @@ 80 :> "DOWN" @@ 75 :> "LEFT" @@ 77 :> "RIGHT"
            @@ 71 :> "HOME" @@ 79 :> "END" @@ 83 :> "DEL"

\* Mutant of ShiftAfter: the release of the right shift key is not noticed.
ShiftAfterLeft(c) == CASE c \in {LShift, RShift} -> 1 [] c = LShift + 128 -> 0 [] OTHER -> g_shift

\* g_shift after a byte without prefix.
ShiftAfter(c) == CASE c \in {LShift, RShift} -> 1 [] c \in {LShift + 128, RShift + 128} -> 0
                   [] OTHER -> g_shift

\* Mutant of Result: the byte behind 0xE0 is looked up like any other.
ResultNoPrefix(c) == IF c >= 128 THEN None ELSE codeToChar(c, g_shift)

\* What getCharEx returns for a byte, None when it goes on reading.
Result(c) == IF prefix THEN IF c \in DOMAIN Extended THEN Extended[c] ELSE None
             ELSE IF c >= 128 \/ c \in {LShift, RShift} THEN None ELSE codeToChar(c, g_shift)

\* readKeyData takes the next byte.
Read == q # <<>> /\ q' = Tail(q) /\ seen' = IF Head(q).code = 224 THEN seen ELSE Head(q).mods

\* Where the modifier keys and g_shift part, and where they meet again.
ShiftRead(b) ==
  IF b.code \in {LShift, RShift, LShift + 128, RShift + 128} /\ ~prefix
  THEN IF b.code > 128 /\ b.mods.shift THEN astray \cup {"shift"} ELSE astray \ {"shift"}
  ELSE astray

getCharEx(b) ==
  /\ prefix' = (~prefix /\ b.code = 224)
  /\ g_shift' = IF prefix THEN g_shift ELSE ShiftAfter(b.code)
  /\ got' = Result(b.code) /\ meant' = b.want

-----------------------------------------------------------------------------
(* The readers                                                             *)

\* kernelMain: what was typed before is thrown away by clearKeyboardBuffer.
Init == /\ held \in SUBSET {k \in Pressable : IsShift(k) \/ IsCtrl(k)} /\ q = <<>>
        /\ mode = "splash" /\ prefix = FALSE /\ g_shift = 0 /\ ctrl = 0 /\ sel = 0 /\ id = 0
        /\ got = None /\ meant = None /\ seen = Modifiers(held)
        /\ astray = (IF seen.shift THEN {"shift"} ELSE {}) /\ presses = 0

\* One turn of splash_screen, and kernelMain's msg_set_id behind it.
Splash ==
  /\ mode = "splash" /\ Read
  /\ \E b \in {Head(q)} : getCharEx(b) /\ astray' = ShiftRead(b)
  /\ sel' = (CASE got' = "LEFT" /\ sel > 0 -> sel - 1 [] got' = "RIGHT" /\ sel < 7 -> sel + 1
               [] OTHER -> sel)
  /\ IF got' = Enter THEN mode' = "shell" /\ id' = sel ELSE UNCHANGED <<mode, id>>
  /\ UNCHANGED <<held, ctrl, presses>>

\* One turn of shell_readline.  The line entered may be conn.
Shell ==
  /\ mode = "shell" /\ Read
  /\ \E b \in {Head(q)} : getCharEx(b) /\ astray' = ShiftRead(b)
  /\ UNCHANGED <<held, mode, ctrl, sel, id, presses>>

\* enterConn begins with ctrl = 0, whatever is down.
RunConn ==
  /\ mode = "shell" /\ got = Enter
  /\ mode' = "conn" /\ ctrl' = 0
  /\ got' = None /\ meant' = None
  /\ astray' = IF seen.ctrl THEN astray \cup {"ctrl"} ELSE astray \ {"ctrl"}
  /\ UNCHANGED <<held, q, prefix, g_shift, sel, id, seen, presses>>

\* The byte taken by the loop of enterConn: it keeps no prefix and no shift.
ConnRead(b) ==
  LET leaves == ctrl = 1 /\ b.code = 46
      ctrlKey == b.code \in {Ctrl, Ctrl + 128}
  IN  /\ ctrl' = CASE b.code = Ctrl -> 1 [] b.code = Ctrl + 128 -> 0 [] OTHER -> ctrl
      /\ mode' = IF leaves THEN "shell" ELSE "conn"
      /\ got' = IF leaves THEN Leave ELSE IF b.code >= 128 \/ ctrlKey THEN None
                ELSE codeToChar(b.code, g_shift)
      /\ meant' = IF b.mods.ctrl /\ b.code = 46 THEN Leave ELSE IF b.ext THEN None ELSE b.want
      /\ astray' = IF leaves THEN astray \ {"ctrl"}
                   ELSE IF ctrlKey THEN IF b.code > 128 /\ b.mods.ctrl THEN astray \cup {"ctrl"} ELSE astray \ {"ctrl"}
                   ELSE IF ~b.ext /\ b.code \in {LShift, RShift, LShift + 128, RShift + 128}
                        THEN astray \cup {"shift"} ELSE astray

Conn == /\ mode = "conn" /\ Read
        /\ \E b \in {Head(q)} : ConnRead(b)
        /\ UNCHANGED <<held, prefix, g_shift, sel, id, presses>>

Next == \/ \E k \in Pressable : Press(k) \/ Release(k)
        \/ Splash \/ Shell \/ RunConn \/ Conn

Spec == Init /\ [][Next]_vars

-----------------------------------------------------------------------------
(* Properties                                                              *)

\* Type correctness of the keyboard, the queue of scan codes and their readers.
TypeOK ==
  /\ held \subseteq Pressable /\ Len(q) <= QueueCap /\ mode \in {"splash", "shell", "conn"}
  /\ prefix \in BOOLEAN /\ {g_shift, ctrl} \subseteq {0, 1} /\ {sel, id} \subseteq 0 .. 7
  /\ astray \subseteq {"shift", "ctrl"} /\ (mode = "conn" => ~prefix)

\* g_shift and ctrl are what is down on the keyboard, but where a modifier was down when
\* its reader began, its twin is still down, or the other reader took its code; the
\* box chosen on the splash screen is a node, so msg_set_id is given one.
InStep ==
  /\ TypeOK
  /\ "shift" \notin astray => (g_shift = 1) = seen.shift
  /\ mode = "conn" /\ "ctrl" \notin astray => (ctrl = 1) = seen.ctrl

\* A key is taken for what is printed on it, in the splash screen, in the shell and in
\* conn, while the modifiers are in step.
AsTyped == astray = {} => got = meant

\* Ctrl+C leaves conn.
CtrlCExits == meant = Leave => got = Leave
=============================================================================
