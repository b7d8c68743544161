------------------------------ MODULE MCShell ------------------------------
(***************************************************************************)
(* Three parts of the shell that share no state, one per behaviour: the    *)
(* keyboard (Keys: a US one, in the scenes "modes", "layout" and           *)
(* "choice"), the names of files (FsNames, "names") and their contents     *)
(* (Crypt, "contents").                                                    *)
(***************************************************************************)
EXTENDS Keys

VARIABLES scene,
          dir, last,                      \* of FsNames
          file, free, held_bytes, text    \* of Crypt
nameVars == <<dir, last>>
fileVars == <<file, free, held_bytes, text>>

Key(c, p, s) == [ext |-> FALSE, code |-> c, plain |-> p, shifted |-> s]
ExtKey(c, p) == [ext |-> TRUE, code |-> c, plain |-> p, shifted |-> p]

\* The keys of a row from code c on, with the signs printed on them.
Row(c, p, s) == {Key(c + i - 1, p[i], s[i]) : i \in 1 .. Len(p)}

LeftShift == Key(42, None, None)
RightShift == Key(54, None, None)
LeftCtrl == Key(29, None, None)
RightCtrl == ExtKey(29, None)
EnterKey == Key(28, Enter, Enter)
BackKey == Key(14, Back, Back)
SpaceKey == Key(57, " ", " ")
Arrows == {ExtKey(75, "LEFT"), ExtKey(77, "RIGHT")}

Modes == {LeftShift, RightShift, LeftCtrl, RightCtrl, EnterKey, Key(46, "c", "C"), ExtKey(77, "RIGHT")}

Layout ==
  UNION {
    Row(2, <<"1", "2", "3", "4", "5", "6", "7", "8", "9", "0", "-", "=">>,
        <<"!", "@", "#", "$", "%", "^", "&", "*", "(", ")", "_", "+">>),
    Row(16, <<"q", "w", "e", "r", "t", "y", "u", "i", "o", "p", "[", "]">>,
        <<"Q", "W", "E", "R", "T", "Y", "U", "I", "O", "P", "{", "}">>),
    Row(30, <<"a", "s", "d", "f", "g", "h", "j", "k", "l", ";", "'", "grave">>,
        <<"A", "S", "D", "F", "G", "H", "J", "K", "L", ":", "\"", "~">>),
    Row(43, <<"\\", "z", "x", "c", "v", "b", "n", "m", ",", ".", "/">>,
        <<"|", "Z", "X", "C", "V", "B", "N", "M", "<", ">", "?">>)}
  \cup {LeftShift, RightShift, BackKey, SpaceKey, EnterKey}
  \cup Arrows \cup {ExtKey(72, "UP"), ExtKey(80, "DOWN"), ExtKey(71, "HOME"), ExtKey(79, "END"), ExtKey(83, "DEL")}

Choice == Arrows \cup {EnterKey}

-----------------------------------------------------------------------------
(* The scenes.                                                             *)

\* Two characters before the dot and one behind it, a letter and a dot to type.
N == INSTANCE FsNames WITH Base <- 2, Ext <- 1, Chars <- {"a", "."}, MaxTyped <- 4, MaxEntries <- 4

\* Bytes of two bits, files of two blocks of two, texts of every length from none to
\* one too many, on a disk of three blocks.
C == INSTANCE Crypt WITH
       Files <- {"f", "g"}, ByteBits <- 2, BlockSize <- 2, DBlocks <- 2, Chunk <- 2,
       CheckByte <- 2, TotalBlocks <- 3,
       Texts <- {<<>>, <<1>>, <<2, 3>>, <<0, 3, 1>>, <<3, 0, 2, 1>>, <<1, 1, 1, 1, 1>>},
       Passwords <- {<<1>>, <<2, 1>>, <<2, 3>>}, held <- held_bytes, meant <- text

ASSUME N!NamesAssumption /\ C!CryptAssumption

\* The keys of a scene, how many presses and how many bytes typed ahead.
Keyboard == [
  modes |-> [keys |-> Modes, presses |-> 4, ahead |-> 3],
  layout |-> [keys |-> Layout, presses |-> 2, ahead |-> 2],
  choice |-> [keys |-> Choice, presses |-> 9, ahead |-> 2]]

MCPressable == UNION {Keyboard[s].keys : s \in DOMAIN Keyboard}

\* The state of a part that the scene does not have.
Off == "off"

MCInit == /\ scene \in DOMAIN Keyboard \cup {"names", "contents"}
          /\ Init /\ held \subseteq IF scene \in DOMAIN Keyboard THEN Keyboard[scene].keys ELSE {}
          /\ IF scene = "names" THEN N!Init ELSE dir = Off /\ last = Off
          /\ IF scene = "contents" THEN C!Init
             ELSE file = Off /\ free = Off /\ held_bytes = Off /\ text = Off

KeysNext ==
  /\ scene \in DOMAIN Keyboard
  /\ \/ presses < Keyboard[scene].presses /\ \E k \in Keyboard[scene].keys : Press(k)
     \/ \E k \in held : Release(k)
     \/ Splash \/ Shell \/ RunConn \/ Conn
  /\ Len(q') <= Keyboard[scene].ahead
  /\ UNCHANGED <<nameVars, fileVars, scene>>

NamesNext == scene = "names" /\ N!Next /\ UNCHANGED <<vars, fileVars, scene>>
ContentsNext == scene = "contents" /\ C!Next /\ UNCHANGED <<vars, nameVars, scene>>

MCNext == KeysNext \/ NamesNext \/ ContentsNext
MCSpec == MCInit /\ [][MCNext]_<<vars, nameVars, fileVars, scene>>

-----------------------------------------------------------------------------
(* What is checked, beside InStep and AsTyped: the properties of the parts.  *)

\* touch and mkdir make no second entry of a name, but for the cases FsNames gives,
\* and the entries they make are well formed.
NamesUnique == scene = "names" => N!TypeOK /\ N!NamesUnique

\* What ls shows, typed again, finds the entry, but for names of full length.
ListedIsFound == scene = "names" => N!ListedIsFound

\* encrypt and decrypt stay inside g_cryptbuf; files have the blocks their sizes ask
\* for, and with the free ones these are all the blocks of the disk.
CryptBufFits == scene = "contents" => C!TypeOK /\ C!CryptBufFits

\* A file reads back as its text, or as its text encrypted when it is marked; a
\* command that fails leaves it as it was, and the right password gives the text back.
TextIsKept == scene = "contents" => C!TextIsKept /\ C!PasswordRestores

\* cat and read_whole_file show the same bytes of a file.
CatShowsFile == scene = "contents" => C!CatShowsFile
=============================================================================
