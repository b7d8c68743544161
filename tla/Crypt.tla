------------------------------- MODULE Crypt -------------------------------
(***************************************************************************)
(* The bytes of the files of one directory: what fsWrite puts in a file's  *)
(* blocks and fsRead takes out of them, and the commands that write, read, *)
(* encrypt and decrypt files (shell.c, crypto.c).  Which blocks a file     *)
(* owns is Fs's subject; here a file has its blocks' contents, and the     *)
(* disk only a number of free ones.  The width of a byte, the size of a    *)
(* block and the number of blocks of a file are parameters.                *)
(***************************************************************************)
EXTENDS Naturals, Sequences, SequencesExt, FiniteSetsExt

CONSTANTS
  Files,        \* the names used
  ByteBits,     \* 8
  BlockSize,    \* MAX_BLOCK_SIZE, 1024
  DBlocks,      \* FS_D_BLOCKS, 12
  Chunk,        \* the 1024 bytes cat and read_whole_file ask for at a time
  CheckByte,    \* CRYPT_CHECK_BYTE, 0xA5
  TotalBlocks,  \* data blocks of the disk
  Texts,        \* what echo and fill write
  Passwords     \* non-empty strings, so without a zero byte

VARIABLES
  file,         \* name -> Absent or [size, blk, marked]
  free,         \* free data blocks
  held,         \* history: the most bytes put in g_cryptbuf
  meant         \* history: the text of the file, the password it was encrypted
                \* with (<<>>: none), and whether it was since written over

vars == <<file, free, held, meant>>

ByteValues == 2 ^ ByteBits
Byte == 0 .. ByteValues - 1
MaxSize == DBlocks * BlockSize     \* CRYPT_BUF_MAX
Absent == [size |-> 0, blk |-> <<>>, marked |-> FALSE]

CryptAssumption ==
  /\ BlockSize \in Nat \ {0} /\ DBlocks \in Nat \ {0} /\ Chunk \in Nat \ {0}
  /\ CheckByte \in Byte
  /\ Texts \subseteq Seq(Byte)
  /\ \A p \in Passwords : p \in Seq(Byte \ {0}) /\ p # <<>>

-----------------------------------------------------------------------------
(* Files as bytes. *)

BlockCount(size) == Max({1, (size + BlockSize - 1) \div BlockSize})

\* Block i of a text, zeros after its end.
FillDataBlock(text, i) ==
  [j \in 1 .. BlockSize |->
     LET k == (i - 1) * BlockSize + j IN IF k <= Len(text) THEN text[k] ELSE 0]

\* fsWrite at offset 0 fails, changing nothing, when the file would have too
\* many blocks or the disk too few.
CanWrite(f, size) ==
  /\ BlockCount(size) <= DBlocks
  /\ BlockCount(size) <= Len(file[f].blk) + free

\* The inode, its flags among them, is kept but for size and blocks.
Written(f, text) ==
  [file[f] EXCEPT !.size = Len(text),
                  !.blk = [i \in 1 .. BlockCount(Len(text)) |-> FillDataBlock(text, i)]]

\* The blocks left: what the file no longer needs is given back.
FreeAfter(f, size) == (free + Len(file[f].blk)) - BlockCount(size)

\* At most length bytes from offset on, never past the end of the file or of the
\* block.
FsRead(r, offset, length) ==
  LET b == offset \div BlockSize + 1
      at == offset % BlockSize
      n == Min({length, r.size - offset, BlockSize - at})
  IN  IF offset >= r.size \/ b > Len(r.blk) THEN <<>>
      ELSE SubSeq(r.blk[b], at + 1, at + n)

\* read_whole_file: from where the last read ended, until one returns nothing or
\* max bytes have come.
ReadWhole(r, max) ==
  LET from[total \in 0 .. 2 * MaxSize + 1] ==
        LET piece == FsRead(r, total, Chunk)
        IN  IF total >= max \/ piece = <<>> THEN <<>>
            ELSE piece \o from[total + Len(piece)]
  IN  from[0]

\* Mutant of Cat: the next piece is looked for behind the one after it.
CatSkips(r) ==
  LET from[k \in 0 .. MaxSize + 1] ==
        LET piece == FsRead(r, k * Chunk, Chunk)
        IN  IF piece = <<>> THEN <<>> ELSE piece \o from[k + 2]
  IN  from[0]

\* cat asks at every multiple of Chunk, whatever it got before.
Cat(r) ==
  LET from[k \in 0 .. MaxSize] ==
        LET piece == FsRead(r, k * Chunk, Chunk)
        IN  IF piece = <<>> THEN <<>> ELSE piece \o from[k + 1]
  IN  from[0]

-----------------------------------------------------------------------------
(* Encryption. *)

XorTable == [a, b \in Byte |->
  MapThenSumSet(LAMBDA k : 2 ^ k * ((a \div 2 ^ k + b \div 2 ^ k) % 2), 0 .. ByteBits - 1)]

\* Byte i, counted from 0, with the password's byte i % klen and with i * 31; without
\* a password nothing.
CryptXor(buf, password) ==
  IF password = <<>> THEN buf ELSE
  [i \in DOMAIN buf |->
     XorTable[buf[i], XorTable[password[((i - 1) % Len(password)) + 1],
                               ((i - 1) * 31) % ByteValues]]]

\* What encrypt writes for a text.
Sealed(text, password) == CryptXor(<<CheckByte>> \o text, password)

\* decrypt goes on when the check byte comes out.
Opens(buf, password) == buf # <<>> /\ CryptXor(buf, password)[1] = CheckByte

\* And what it writes then.
Opened(buf, password) == Tail(CryptXor(buf, password))

-----------------------------------------------------------------------------
(* The commands. *)

Exists(f) == file[f].blk # <<>>
Nothing == [text |-> <<>>, key |-> <<>>, odd |-> FALSE]

Init ==
  /\ file = [f \in Files |-> Absent]
  /\ free = TotalBlocks
  /\ held = 0
  /\ meant = [f \in Files |-> Nothing]

\* touch: a new inode, zeroed, with one block.
Touch(f) ==
  /\ ~Exists(f) /\ free > 0
  /\ file' = [file EXCEPT ![f] = [size |-> 0, blk |-> <<FillDataBlock(<<>>, 1)>>,
                                  marked |-> FALSE]]
  /\ free' = free - 1
  /\ meant' = [meant EXCEPT ![f] = Nothing]
  /\ UNCHANGED held

Rm(f) ==
  /\ Exists(f)
  /\ file' = [file EXCEPT ![f] = Absent]
  /\ free' = free + Len(file[f].blk)
  /\ meant' = [meant EXCEPT ![f] = Nothing]
  /\ UNCHANGED held

\* echo > f and fill f: write to a file that is there (one that is not is touched
\* first), or fail.
Write(f, text) ==
  /\ Exists(f)
  /\ IF CanWrite(f, Len(text))
     THEN /\ file' = [file EXCEPT ![f] = Written(f, text)]
          /\ free' = FreeAfter(f, Len(text))
          /\ meant' = [meant EXCEPT ![f] = [text |-> text, key |-> @.key,
                                            odd |-> file[f].marked]]
     ELSE UNCHANGED <<file, free, meant>>
  /\ UNCHANGED held

\* Mutant of FitsCheck: without room for the check byte.
FitsCheckText(size) == size <= MaxSize

\* encrypt's test of the size.
FitsCheck(size) == size + 1 <= MaxSize

\* Mutant of Marked: the file is marked although it could not be written.
MarkedAnyway(f, ok, text, on) ==
  [(IF ok THEN Written(f, text) ELSE file[f]) EXCEPT !.marked = on]

\* The file after encrypt and decrypt: written and then marked, or neither.
Marked(f, ok, text, on) ==
  IF ok THEN [Written(f, text) EXCEPT !.marked = on] ELSE file[f]

Rewrite(f, text, on, m) ==
  \E ok \in {CanWrite(f, Len(text))} :
    /\ file' = [file EXCEPT ![f] = Marked(f, ok, text, on)]
    /\ free' = IF ok THEN FreeAfter(f, Len(text)) ELSE free
    /\ meant' = IF ok THEN [meant EXCEPT ![f] = m] ELSE meant

Encrypt(f, password) ==
  /\ Exists(f) /\ ~file[f].marked /\ FitsCheck(file[f].size)
  /\ \E text \in {ReadWhole(file[f], MaxSize - 1)} :
       /\ held' = Max({held, Len(text) + 1})
       /\ Rewrite(f, Sealed(text, password), TRUE,
                  [meant[f] EXCEPT !.key = password])

Decrypt(f, password) ==
  /\ Exists(f) /\ file[f].marked /\ file[f].size <= MaxSize
  /\ \E buf \in {ReadWhole(file[f], MaxSize)} :
       /\ held' = Max({held, Len(buf)})
       /\ IF Opens(buf, password)
          THEN Rewrite(f, Opened(buf, password), FALSE,
                       [text |-> IF password = meant[f].key /\ ~meant[f].odd
                                 THEN meant[f].text ELSE Opened(buf, password),
                        key |-> <<>>, odd |-> FALSE])
          ELSE UNCHANGED <<file, free, meant>>

Next ==
  \E f \in Files :
    \/ Touch(f)
    \/ Rm(f)
    \/ \E text \in Texts : Write(f, text)
    \/ \E p \in Passwords : Encrypt(f, p)
    \/ \E p \in Passwords : Decrypt(f, p)

Spec == Init /\ [][Next]_vars

-----------------------------------------------------------------------------
(* What is checked. *)

\* A file's blocks are as many as its size asks for, at most FS_D_BLOCKS, and with
\* the free ones they are all the blocks of the disk.
TypeOK ==
  /\ \A f \in Files :
       /\ file[f].marked \in BOOLEAN
       /\ Len(file[f].blk) <= DBlocks
       /\ \A i \in DOMAIN file[f].blk : file[f].blk[i] \in [1 .. BlockSize -> Byte]
       /\ Exists(f) => Len(file[f].blk) = BlockCount(file[f].size)
  /\ free = TotalBlocks - MapThenSumSet(LAMBDA f : Len(file[f].blk), Files)

\* encrypt and decrypt stay inside g_cryptbuf (shell.c 129), the check byte
\* included, also for a file that fills all its blocks.
CryptBufFits == held <= MaxSize

\* Whatever was written, encrypted, decrypted or refused for want of blocks, a file
\* that was not written over while encrypted reads back as its text, or as its text
\* encrypted with its password when it is marked: a command that fails leaves a file
\* as it was, bytes and mark (shell.c 759-875, fs.c 48-118).
TextIsKept ==
  \A f \in Files :
    Exists(f) /\ ~meant[f].odd =>
      ReadWhole(file[f], MaxSize) =
        IF file[f].marked THEN Sealed(meant[f].text, meant[f].key) ELSE meant[f].text

\* So the right password gives the text back: decrypt accepts it, and writes what
\* was there before encrypt.
PasswordRestores ==
  \A f \in Files :
    Exists(f) /\ file[f].marked /\ ~meant[f].odd =>
      \E buf \in {ReadWhole(file[f], MaxSize)} :
        /\ Opens(buf, meant[f].key)
        /\ Opened(buf, meant[f].key) = meant[f].text

\* cat, which steps by 1024 whatever a read returned, shows the same bytes as
\* read_whole_file, which steps by what it got.
CatShowsFile ==
  \A f \in Files : Cat(file[f]) = ReadWhole(file[f], MaxSize)

\* The check byte "detects a wrong password on decrypt" (crypto.h 4): when decrypt
\* removes the mark, the file is the text it was encrypted from.
DecryptedIsText ==
  [][\A f \in Files :
       file[f].marked /\ ~meant[f].odd /\ Exists(f)' /\ ~file'[f].marked
         => ReadWhole(file'[f], MaxSize) = meant[f].text]_vars

\* The flag "marks a file encrypted" (crypto.h 7): the bytes of a marked file are
\* those of some text, encrypted with the password given.
MarkIsTrue ==
  \A f \in Files :
    file[f].marked /\ Exists(f) => Opens(ReadWhole(file[f], MaxSize), meant[f].key)
=============================================================================
