------------------------------ MODULE FsNames ------------------------------
(***************************************************************************)
(* The names of one directory (the root, as fsFormat leaves it): what a    *)
(* name becomes between the command line and the eleven characters of a    *)
(* directory entry, on the way in (formatName in fsCreate and fsMkdir), on *)
(* the way to an entry (fsLookup, isExist) and on the way out              *)
(* (fsNodeToShellEntry).  Space on the disk is the business of Fs.         *)
(***************************************************************************)
EXTENDS Integers, Sequences, SequencesExt

CONSTANTS
  Base, Ext,    \* 8 and 3 characters of an entry's name
  Chars,        \* bound: the characters typed
  MaxTyped,     \* bound: the length of a name typed
  MaxEntries    \* bound: cells of the directory that are used

VARIABLES
  dir,          \* the cells before NO_MORE, each with the name typed to make it
  last          \* the last command: what was typed, and the entry it made or removed
vars == <<dir, last>>

NamesAssumption == Base \in Nat \ {0, 1} /\ Ext \in Nat \ {0} /\ MaxTyped \in Nat

Entry == Base + Ext           \* MAX_ENTRY_NAME_LENGTH
Nul == "NUL"
Space == " "
Dot == "."
Letters == {"a", "b", "A", "B"}
toupper(c) == CASE c = "a" -> "A" [] c = "b" -> "B" [] OTHER -> c
Typed == UNION {[1 .. n -> Chars] : n \in 1 .. MaxTyped}

-----------------------------------------------------------------------------
(* Strings                                                                 *)

First(s, n) == SubSeq(s, 1, IF Len(s) < n THEN Len(s) ELSE n)
Pad(s, n, c) == s \o [i \in 1 .. n - Len(s) |-> c]

\* upper_string, for the length of an entry's name.
upper_string(s) == [i \in DOMAIN s |-> IF i <= Entry THEN toupper(s[i]) ELSE s[i]]

Fits(base, ext) == Len(base) \in 1 .. Base /\ Len(ext) <= Ext

\* formatName: the name as an entry, or the name in capitals when it is refused.
formatName(n) ==
  LET u == upper_string(n)
      dots == {i \in DOMAIN n : n[i] = Dot}
      k == IF dots = {} THEN Len(n) + 1 ELSE CHOOSE i \in dots : \A j \in dots : i <= j
      base == SubSeq(u, 1, k - 1)
      ext == SubSeq(u, k + 1, Len(u))
      ok == Range(base) \cup Range(ext) \subseteq Letters /\ Fits(base, ext)
  IN  IF First(n, 2) = <<Dot, Dot>> THEN [ok |-> TRUE, name |-> Pad(<<Dot, Dot>>, Entry, Space)]
      ELSE IF First(n, 1) = <<Dot>> THEN [ok |-> TRUE, name |-> Pad(<<Dot>>, Entry, Space)]
      ELSE [ok |-> ok, name |-> IF ok THEN Pad(base, Base, Space) \o Pad(ext, Ext, Space)
                                ELSE Pad(First(u, Entry), Entry, Nul)]

\* What fsLookup compares entries with: it formats the first eleven characters, and
\* goes on with what it has when they are refused.
LookupName(t) == formatName(First(t, Entry)).name

\* fsNodeToShellEntry's name, through myStrncpy.
Trim(s) == SelectSeq(s, LAMBDA c : c # Space)

\* Mutant of Shown: the dot is left out.
ShownPlain(name) == Trim(SubSeq(name, 1, Base)) \o Trim(SubSeq(name, Base + 1, Entry))

Shown(name) ==
  Trim(SubSeq(name, 1, Base)) \o
  (IF name[Base + 1] = Space THEN <<>> ELSE <<Dot>> \o Trim(SubSeq(name, Base + 1, Entry)))

\* myStrnicmp with a length of 12.
SameIgnoringCase(s, t) ==
  LET Up(x) == [i \in 1 .. Entry + 1 |-> IF i <= Len(x) THEN toupper(x[i]) ELSE Nul]
  IN  Up(s) = Up(t)

-----------------------------------------------------------------------------
(* The directory                                                           *)

FreeCell == [name |-> <<>>, kind |-> "free", typed |-> <<>>]
DotCell(n) == [name |-> Pad(n, Entry, Space), kind |-> "dir", typed |-> n]
None == [cmd |-> "none", typed |-> <<>>, cell |-> FreeCell]

Init == dir = <<DotCell(<<Dot, Dot>>), DotCell(<<Dot>>)>> /\ last = None

\* lookupEntry: the first entry of the name, 0 when there is none.
Find(name) ==
  LET is == {i \in DOMAIN dir : dir[i].name = name}
  IN  IF is = {} THEN 0 ELSE CHOOSE i \in is : \A j \in is : i <= j

\* read_dir_from_block: what ls shows.
Listed == {i \in DOMAIN dir : dir[i].kind # "free" /\ dir[i].name[1] # Dot}

\* Mutant of isExist: names are compared with their case.
isExistExact(t) == \E i \in Listed : Shown(dir[i].name) = t

isExist(t) == \E i \in Listed : SameIgnoringCase(Shown(dir[i].name), t)

\* insertEntry: into the first free cell, else at the end.
Insert(cell) ==
  LET free == {i \in DOMAIN dir : dir[i].kind = "free"}
      i == IF free = {} THEN Len(dir) + 1 ELSE CHOOSE j \in free : \A k \in free : j <= k
  IN  i <= MaxEntries /\ dir' = [j \in DOMAIN dir \cup {i} |-> IF j = i THEN cell ELSE dir[j]]

Make(cmd, kind, t, name) ==
  LET cell == [name |-> name, kind |-> kind, typed |-> t]
  IN  Insert(cell) /\ last' = [cmd |-> cmd, typed |-> t, cell |-> cell]

\* touch: fsCreate looks the formatted name up again through fsLookup.
Touch(t) == \E f \in {formatName(t)} :
  IF f.ok /\ Find(LookupName(f.name)) = 0 THEN Make("touch", "file", t, f.name)
  ELSE UNCHANGED dir /\ last' = None

\* mkdir: sfsMkdir asks isExist, fsMkdir asks nothing.
Mkdir(t) == \E f \in {formatName(t)} :
  IF ~isExist(t) /\ f.ok THEN Make("mkdir", "dir", t, f.name)
  ELSE UNCHANGED dir /\ last' = None

Clear(i, cmd, t) == /\ dir' = [dir EXCEPT ![i] = FreeCell]
                    /\ last' = [cmd |-> cmd, typed |-> t, cell |-> dir[i]]

\* rm and rmdir: the entry fsLookup finds, when it is of the kind.  (rmdir of the
\* directory itself is in Fs.)
Unlink(cmd, kind, t) == \E i \in {Find(LookupName(t))} :
  IF i # 0 /\ dir[i].kind = kind THEN Clear(i, cmd, t)
  ELSE UNCHANGED dir /\ last' = None

Next == \E t \in Typed :
  \/ Touch(t) \/ Mkdir(t) \/ Unlink("rm", "file", t)
  \/ t[1] # Dot /\ Unlink("rmdir", "dir", t)

Spec == Init /\ [][Next]_vars

-----------------------------------------------------------------------------
(* Properties                                                              *)

\* Type: every entry has a name of the entry's length, which is no refused one.
TypeOK == \A i \in DOMAIN dir : dir[i].kind # "free" =>
  Len(dir[i].name) = Entry /\ Nul \notin Range(dir[i].name) /\ dir[i].name[1] # Space

\* No two entries have a name, although touch and mkdir look for it in two ways, but
\* for directories made under a name that begins or ends with a dot, and for names that
\* fill base and extension, whose last letter keeps its case.
NamesUnique ==
  \A i, j \in DOMAIN dir : i # j /\ dir[i].kind # "free" /\ dir[i].name = dir[j].name =>
    \E k \in {i, j} : \/ Len(dir[k].typed) > Entry
                      \/ dir[k].kind = "dir" /\ Dot \in {dir[k].typed[1], Last(dir[k].typed)}

\* What ls shows, typed again, finds an entry of that name, unless it fills base and
\* extension: fsLookup drops its last character.
ListedIsFound ==
  \A i \in Listed : \E s \in {Shown(dir[i].name)} :
    Len(s) <= Entry => /\ Find(LookupName(s)) # 0
                       /\ dir[Find(LookupName(s))].name = dir[i].name

\* A file touch created is found under the name it was created with.
CreatedIsFound == last.cmd = "touch" => Find(LookupName(last.typed)) # 0

\* touch fails when the file exists: it has not made a second one.
TouchMakesOne ==
  last.cmd = "touch" => \A i, j \in DOMAIN dir : {dir[i].name, dir[j].name} = {last.cell.name} => i = j

\* rm removes the file of the name it was given.
RemovesNamed == last.cmd = "rm" => formatName(last.typed) = [ok |-> TRUE, name |-> last.cell.name]
=============================================================================
